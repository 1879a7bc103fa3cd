---------------------------- MODULE SiteResources ----------------------------
(* The resources the three site constructs declare and the dependencies        *)
(* between them: what SiteWithLambdaBackend, SiteWithEcsBackend and StaticSite *)
(* put into the template.  A method is modelled by what it adds, resources and *)
(* edges <<r, d>> of a resource r that CloudFormation holds back until d is    *)
(* there, because r refers to d or was made to depend on it.                   *)
(*                                                                             *)
(* The properties p of a site are a record of                                  *)
(*   backend     "lambda", "ecs" or "static": which of the three it is         *)
(*   alias       the name of the function's alias, NoAlias if it has none      *)
(*   pc          its provisioned concurrency: "none", "alias", or "version"    *)
(*               if provisionedConcurrency.onVersion is set                    *)
(*   buckets     "existing" buckets, or removalPolicy "retain" or "destroy";   *)
(*               "retain" is also what a bucket gets that has no policy        *)
(*   invalidates whether siteCacheInvalidationDockerFilePath is given          *)
EXTENDS FiniteSets

NoAlias == "none"

(* LAMBDA_ALIAS_NAME_CURRENT                                                   *)
AliasNameCurrent == "latest"

Declare(resources, edges) == [resources |-> resources, edges |-> edges]
Nothing == Declare({}, {})
On(resource, others) == {<<resource, o>> : o \in others}

HasAlias(p) == p.alias # NoAlias

WarmsVersionNever(p) == FALSE

(* Provisioned concurrency is set inline on the version, or on the alias.      *)
WarmsVersion(p) == HasAlias(p) /\ p.pc = "version"
WarmsAlias(p) == HasAlias(p) /\ p.pc = "alias"

CreateLambdaFunctionByName(p) ==
    IF HasAlias(p)
    THEN Declare({"function", "version", "alias"},
                 {<<"version", "function">>, <<"alias", "function">>})
    ELSE Declare({"function"}, {})

(* The function, and its alias with the version that currentVersion publishes. *)
CreateLambdaFunction(p) ==
    IF HasAlias(p)
    THEN Declare({"function", "version", "alias"},
                 {<<"version", "function">>, <<"alias", "version">>})
    ELSE Declare({"function"}, {})

(* The scalable target names what it scales.                                   *)
AttachProvisionedConcurrency(p) ==
    CASE WarmsVersion(p) -> Declare({"target"}, {<<"target", "version">>})
      [] WarmsAlias(p) -> Declare({"target"}, {<<"target", "alias">>})
      [] OTHER -> Nothing

(* To depend on a construct is to depend on all that is below it in the tree:  *)
(* with the function comes the version that currentVersion made, with the      *)
(* alias the scalable target that addAutoScaling made.                         *)
FunctionConstruct(p) == CreateLambdaFunction(p).resources \ {"alias"}
AliasConstruct(p) == {"alias"} \cup (IF WarmsAlias(p) THEN {"target"} ELSE {})

(* Only an alias of one certain name gets the URL.                             *)
UrlIsOnAlias(p) == p.alias = AliasNameCurrent

CreateSiteLambdaUrlOfImport(p) == Declare({"url"}, On("url", FunctionConstruct(p)))

CreateSiteLambdaUrlInEnvironment(p) ==
    Declare({"url"}, On("url", FunctionConstruct(p)) \cup {<<"function", "url">>})

(* The URL is the alias's, or that of the function itself.                     *)
CreateSiteLambdaUrl(p) ==
    Declare({"url"},
            On("url", FunctionConstruct(p)
                        \cup (IF UrlIsOnAlias(p) THEN AliasConstruct(p) ELSE {})))

(* A bucket that is imported is not part of the template.                      *)
CreateS3Bucket(p, bucket) ==
    IF p.buckets = "existing" THEN Nothing ELSE Declare({bucket}, {})

Buckets == {"logs", "bucket"}

(* What is retained outlives a stack whose creation failed.                    *)
Retained(p, r) == p.buckets = "retain" /\ r \in Buckets

Logs(p) == CreateS3Bucket(p, "logs").resources

(* The bucket of a static site has its accesses logged to the other one.       *)
CreateSiteBucket(p) ==
    LET site == CreateS3Bucket(p, "bucket").resources
    IN Declare(site, UNION {On(b, Logs(p)) : b \in site})

(* The load balancer logs to the bucket.                                       *)
CreateEcsService(p) == Declare({"service"}, On("service", Logs(p)))

DistributionOver(p, origins) ==
    Declare({"distribution"}, On("distribution", origins \cup Logs(p)))

CreateDistributionOfNames(p) == DistributionOver(p, {})

(* With a Lambda backend the distribution is made to depend on function and    *)
(* URL.  The origin of an ECS backend is a host name, a string that refers to  *)
(* nothing.                                                                    *)
CreateDistribution(p) ==
    CASE p.backend = "lambda" -> DistributionOver(p, FunctionConstruct(p) \cup {"url"})
      [] p.backend = "ecs" -> DistributionOver(p, {})
      [] OTHER -> DistributionOver(p, CreateSiteBucket(p).resources)

CreateNetworkMappingsByName(p) == Declare({"record"}, {})

(* The record is an alias of the distribution.                                 *)
CreateNetworkMappings(p) == Declare({"record"}, {<<"record", "distribution">>})

(* The bucket deployment copies the files and invalidates the distribution.    *)
DeploySite(p) ==
    Declare({"assets"},
            On("assets", {"distribution"} \cup CreateSiteBucket(p).resources))

(* A custom resource whose id holds the time, so that every deployment creates *)
(* a new one; it starts a build for the distribution and does not wait for it. *)
InvalidateDistributionCache(p) ==
    IF p.invalidates
    THEN Declare({"invalidation"}, {<<"invalidation", "distribution">>})
    ELSE Nothing

(* What initResources of each of the three declares.                           *)
BackendOf(p) ==
    CASE p.backend = "lambda" ->
           {CreateLambdaFunction(p), AttachProvisionedConcurrency(p),
            CreateSiteLambdaUrl(p)}
      [] p.backend = "ecs" -> {CreateEcsService(p)}
      [] OTHER -> {CreateSiteBucket(p), DeploySite(p)}

Declared(p) ==
    BackendOf(p) \cup {CreateS3Bucket(p, "logs"), CreateDistribution(p),
                       CreateNetworkMappings(p), InvalidateDistributionCache(p)}

Resources(p) == UNION {d.resources : d \in Declared(p)}
Edges(p) == UNION {d.edges : d \in Declared(p)}
Dependencies(p, r) == {d \in Resources(p) : <<r, d>> \in Edges(p)}

AllResources ==
    Buckets \cup {"function", "version", "alias", "target", "url", "service",
                  "distribution", "record", "assets", "invalidation"}
==============================================================================
