---------------------------- MODULE AwsConstructs ----------------------------
(***************************************************************************)
(* The constructs of the AWS package for APIs, sites, functions and their  *)
(* configuration, and the services with a role of their own, as a stack    *)
(* creates them one after the other from one props object.                 *)
(***************************************************************************)
EXTENDS ApiToEventBridgeTarget, ApiToEventBridgeTargetWithSns,
        ApiToLambdaTarget, LambdaConstructs, AwsSites

CONSTANT Choices    \* the stacks to build: [props, plan]

Service(name) == [methods |-> ServiceMethods(name), fields |-> ServiceFields]

Classes ==
    [ApiToEventBridgeTarget |->
        [methods |-> EventBridgeTargetMethods, fields |-> EventBridgeTargetFields],
     ApiToEventBridgeTargetWithSns |->
        [methods |-> WithSnsMethods, fields |-> WithSnsFields],
     ApiToLambdaTarget |->
        [methods |-> LambdaTargetMethods, fields |-> LambdaTargetFields],
     ApiToAnyTarget |->
        [methods |-> AnyTargetMethods, fields |-> AnyTargetFields],
     RestApiLambda |->
        [methods |-> RestApiLambdaMethods, fields |-> RestApiLambdaFields],
     RestApiLambdaWithCache |->
        [methods |-> RestApiLambdaWithCacheMethods, fields |-> WithCacheFields],
     LambdaWithIamAccess |->
        [methods |-> LambdaWithIamAccessMethods, fields |-> IamAccessFields],
     ApplicationConfiguration |->
        [methods |-> ApplicationConfigurationMethods,
         fields |-> ConfigurationFields],
     SiteWithEcsBackend |->
        [methods |-> SiteWithEcsBackendMethods, fields |-> EcsSiteFields],
     SiteWithLambdaBackend |->
        [methods |-> SiteWithLambdaBackendMethods, fields |-> LambdaSiteFields],
     StaticSite |-> [methods |-> StaticSiteMethods, fields |-> StaticSiteFields],
     StaticAssetDeployment |->
        [methods |-> StaticAssetDeploymentMethods, fields |-> AssetFields],
     createSqsToSfnCfnPipe |-> Service("createSqsToSfnCfnPipe"),
     createSqsToLambdaCfnPipe |-> Service("createSqsToLambdaCfnPipe"),
     createDynamoDbToLambdaCfnPipe |-> Service("createDynamoDbToLambdaCfnPipe"),
     createCloudTrail |-> Service("createCloudTrail"),
     createProjectForCloudfrontInvalidation |->
        Service("createProjectForCloudfrontInvalidation")]

InitResources(construct) == Classes[construct.class].methods

Constructs == UNION {{c.plan[i] : i \in DOMAIN c.plan} : c \in Choices}

(* There is a value, if only undefined, for each prop that a construct may *)
(* change, and for those that decide who finds what and what it gets.      *)
ChangedProps ==
    {"certificateArn", "rulePattern", "ruleSuccess", "ruleFailure",
     "defaultMethods", "insights", "regionalCertificate", "defaultBehavior"}

NamedProps ==
    {"useExisting", "withResource", "eventBusName", "prefix", "suffix", "stage",
     "region", "configEnabled", "vpcName", "ingressRules", "restApiCache",
     "cachePort", "siteFileSystem", "aliases", "useExistingCertificate",
     "certificateRegion", "siteSubDomain", "siteRecordName",
     "skipStageForARecords", "siteCachePolicy", "siteOriginRequestPolicy",
     "siteOriginResponseHeadersPolicy"}

Policies == {"cachePolicy", "requestPolicy", "headersPolicy"}

(* What is undefined is no name of anything.                               *)
ASSUME NotSetAssumption ==
    NotSet \notin {"created", "existing", "callers", "parameter"}

(* What a caller gives for the certificates, for the patterns of the rules *)
(* and for the policies of a site is told apart from what a construct      *)
(* leaves there.                                                           *)
TellsCallersApart(p, ids) ==
    /\ p.certificateArn \in {NotSet, "callers", "callersAbroad"}
    /\ p.rulePattern \in {NotSet, "callers"}
    /\ p.ruleSuccess.pattern \in {NotSet, "callers"}
    /\ p.ruleFailure.pattern \in {NotSet, "callers"}
    /\ {"existing", "inParameter", "arn", "region"}
         \subseteq DOMAIN p.regionalCertificate
    /\ p.regionalCertificate.arn \in {NotSet, "callers"}
    /\ "asGiven" \notin {p.region, p.regionalCertificate.region}
    /\ p.defaultBehavior # NotSet =>
         /\ Policies \subseteq DOMAIN p.defaultBehavior
         /\ \A policy \in Policies : p.defaultBehavior[policy] \notin ids

(* A target that scales has a range, which CDK refuses to have empty.      *)
ScalesWithinRanges(aliases) ==
    /\ Len(aliases) \in Nat /\ DOMAIN aliases = 1..Len(aliases)
    /\ \A i \in OnVersionOf(aliases) :
         /\ aliases[i].capacity.min \in Nat /\ aliases[i].capacity.max \in Nat
         /\ aliases[i].capacity.min =< aliases[i].capacity.max

(* No two constructs of a stack have one id.  Names, prefixes and suffixes *)
(* are sequences, and a site has a name.                                   *)
ASSUME ChoicesAssumption ==
    \A c \in Choices :
      /\ c.plan \in Seq(Constructs) /\ c.plan # <<>>
      /\ \A i \in DOMAIN c.plan :
           c.plan[i].class \in DOMAIN Classes /\ c.plan[i].id # NotSet
      /\ \A i, j \in DOMAIN c.plan : i # j => c.plan[i].id # c.plan[j].id
      /\ ChangedProps \union NamedProps \subseteq DOMAIN c.props
      /\ TellsCallersApart(c.props, {c.plan[i].id : i \in DOMAIN c.plan})
      /\ ScalesWithinRanges(c.props.aliases)
      /\ c.props.siteSubDomain # NotSet
      /\ c.props.prefix \in Seq(STRING) /\ c.props.suffix \in Seq(STRING)
      /\ c.props.eventBusName = NotSet \/ c.props.eventBusName \in Seq(STRING)

NewFields(constructs) ==
    [id \in {constructs[i].id : i \in DOMAIN constructs} |->
        LET c == CHOOSE i \in DOMAIN constructs : constructs[i].id = id
        IN [f \in Classes[constructs[c].class].fields |-> NotSet]]

Init ==
    \E choice \in Choices :
      /\ props = choice.props
      /\ StartsWith(choice.plan, InitResources(choice.plan[1]))
      /\ fields = NewFields(choice.plan)

Next ==
    \/ SharedApiStep \/ ApiToEventBridgeTargetStep \/ WithSnsStep
    \/ ApiToLambdaTargetStep \/ ApiToAnyTargetStep \/ LambdaConstructsStep
    \/ ApplicationConfigurationStep \/ ServiceStep
    \/ AwsSiteStep \/ EcsBackendStep \/ LambdaBackendStep \/ StaticSiteStep
    \/ NextConstruct(InitResources(plan[2])) \/ Finish

Spec == Init /\ [][Next]_synthVars
-----------------------------------------------------------------------------
(* The state is well formed: the stack is somewhere in the methods of one  *)
(* of its constructs, whose fields and resources alone there are.          *)
TypeOK ==
    /\ status \in {"synth", "done", "thrown"}
    /\ \E n \in 0..Len(InitResources(this)) :
         todo = SubSeq(InitResources(this), n + 1, Len(InitResources(this)))
    /\ \A r \in template : r.of \in DOMAIN fields
    /\ props.rulePattern \in {NotSet, "callers", "default"}
    /\ props.certificateArn \in {NotSet, "callers", "callersAbroad", "parameter"}
    /\ \A id \in DOMAIN fields : \E class \in DOMAIN Classes :
         DOMAIN fields[id] = Classes[class].fields

Done(id) == status = "done" /\ id \in DOMAIN fields
IsOf(id, class) == DOMAIN fields[id] = Classes[class].fields

(* What a resource was built from is what the construct has in the end: no *)
(* method reads a field before another sets it, and none sets again what   *)
(* was read.  The exception are the method responses that an API with      *)
(* events takes for its default: it always takes none.                     *)
TakesDefaults(r) ==
    \/ r.id = <<"rest-api">> /\ IsOf(r.of, "ApiToEventBridgeTarget")
    \/ r.id = <<"sns-rest-api">>

ReadsAreFinal ==
    status = "done" =>
      \A r \in template : \A f \in DOMAIN r.reads :
         r.reads[f] = IF f \in DefaultResponses /\ TakesDefaults(r) THEN NotSet
                      ELSE fields[r.of][f]

(* Fields and resources are those of their classes and of what they were   *)
(* built from.                                                             *)
WellBuilt == TypeOK /\ ReadsAreFinal

(* A construct throws exactly if its props leave out what another of them  *)
(* needs or ask for what cannot be: an API without a name, a resource      *)
(* below a root nobody knows or below a proxy, a rule without a name, a    *)
(* bus that must not be created, a topic without the function of its       *)
(* owner, two aliases for one user, a deployment without strategy, a site  *)
(* without distribution or with a certificate known to be elsewhere.       *)
ApiForbidden(p) ==
    \/ ~(p.useExisting /\ p.importedRestApiRef) /\ ~p.restApiName
    \/ /\ p.useExisting /\ p.importedRestApiRef
       /\ p.withResource /\ ~p.importedRestApiRootRef

FunctionForbidden(p) ==
    \/ ~p.functionName
    \/ \E i, j \in DOMAIN p.aliases : i # j /\ p.aliases[i].id = p.aliases[j].id
         /\ (p.aliases[i].id = NotSet => p.aliases[i].name = p.aliases[j].name)

SiteForbidden(p) ==
    \/ p.siteBuckets = NotSet \/ p.siteCloudfrontFunctionProps = "unnamed"
    \/ ~p.siteDistribution
    \/ /\ p.useExistingCertificate /\ ~p.certificateInParameter
       /\ \/ p.certificateArn = "callersAbroad"
          \/ /\ p.certificateArn = NotSet
             /\ Coalesce(p.certificateRegion, p.region) # EdgeRegion

BackendForbidden(p) ==
    \/ SiteForbidden(p) \/ p.defaultBehavior = NotSet
    \/ "unnamed" \in {p.siteCachePolicy, p.siteOriginRequestPolicy,
                      p.siteOriginResponseHeadersPolicy}

Forbidden(class, p) ==
    CASE class = "ApiToEventBridgeTarget" ->
           \/ ApiForbidden(p)
           \/ /\ ~p.useExisting
              /\ ~p.ruleName \/ p.eventBusName \in {NotSet, <<"default">>}
      [] class = "ApiToEventBridgeTargetWithSns" ->
           \/ ApiForbidden(p)
           \/ p.useExisting /\ p.withResource
           \/ /\ ~p.useExisting
              /\ \/ ~p.lambdaSource \/ FunctionForbidden(p)
                 \/ p.eventBusName = <<"default">>
      [] class = "ApiToLambdaTarget" ->
           \/ ApiForbidden(p)
           \/ p.withResource /\ p.resource = NotSet
           \/ /\ ~(p.useExisting /\ p.importedRestApiRef)
              /\ p.withResource /\ p.proxy /\ ~p.importedRestApiRootRef
      [] class = "ApiToAnyTarget" -> ApiForbidden(p)
      [] class \in {"RestApiLambda", "RestApiLambdaWithCache"} ->
           FunctionForbidden(p) \/ ~p.restApiName
      [] class = "LambdaWithIamAccess" ->
           FunctionForbidden(p) \/ Len(p.aliases) > 1 \/ ~p.lambdaSecret
      [] class = "ApplicationConfiguration" -> p.deploymentStrategy = NotSet
      [] class = "SiteWithLambdaBackend" ->
           BackendForbidden(p) \/ FunctionForbidden(p)
      [] class = "SiteWithEcsBackend" ->
           \/ BackendForbidden(p) \/ ~p.siteCluster
           \/ ~p.siteVpcName /\ ~p.useExistingVpc
           \/ /\ p.siteFileSystem # NotSet
              /\ \/ p.siteFileSystem = "unnamed"
                 \/ \E i \in DOMAIN p.siteFileSystemAccessPoints :
                      p.siteFileSystemAccessPoints[i] = NotSet
      [] class = "StaticSite" -> SiteForbidden(p)
      [] class = "StaticAssetDeployment" ->
           p.siteBuckets = NotSet \/ ~p.staticAssetSources
      [] OTHER -> ~p.name

BuiltUnlessItsPropsForbid ==
    /\ status = "thrown" => Forbidden(this.class, props)
    /\ status = "done" => ~Forbidden(this.class, props)

(* A stack that imports a bus with the same props as the stack that owns   *)
(* it finds the one created there.  With SNS it does so only if names have *)
(* no affixes.                                                             *)
ImportedBusIsTheOneCreated(id) ==
    ~props.useExisting =>
      /\ IsOf(id, "ApiToEventBridgeTarget") =>
           fields[id].eventBus = ExistingEventBus
      /\ IsOf(id, "ApiToEventBridgeTargetWithSns") =>
           ((fields[id].eventBus = ExistingDestinedBus)
              <=> (props.prefix \o props.suffix = <<>>))

(* Whoever acts under a role may do there all that it was made to do: the  *)
(* API that sends a request on, a function that reads configuration or     *)
(* reports to its bus, and every service but a trail outside eu-west-1,    *)
(* whose role names the streams of that region.                            *)
Integrated(id) ==
    "integration" \in DOMAIN fields[id] /\ fields[id].integration # NotSet

MayReport(f) ==
    Allows(f.lambdaRole.statements, "events:PutEvents", f.destinationSuccess)

MayReadConfiguration(f) ==
    /\ Allows(f.lambdaRole.statements, "appconfig:GetLatestConfiguration", Any)
    /\ Allows(f.lambdaRole.statements, "appconfig:StartConfigurationSession", Any)

MayWork(f) ==
    \A w \in f.work : Allows(f.actsAs.statements, w[1], w[2])

HoldersMayDoTheirWork(id) ==
    /\ Integrated(id) =>
         LET i == fields[id].integration
         IN /\ i.uses.service = "apigateway"
            /\ Allows(i.uses.statements, i.sends.action, i.sends.to)
    /\ IsOf(id, "ApiToEventBridgeTargetWithSns") /\ ~props.useExisting =>
         MayReport(fields[id])
    /\ IsOf(id, "LambdaWithIamAccess") /\ fields[id].layers.reads =>
         MayReadConfiguration(fields[id])
    /\ "work" \in DOMAIN fields[id] =>
         (MayWork(fields[id])
            <=> ~(fields[id].actsAs.service = "cloudtrail"
                    /\ props.region # "eu-west-1"))

(* The rules that log what a function reports come from shared props, which*)
(* the first construct to get there completes: it alone logs its function's*)
(* successes, the others log them again instead of their own.  A pattern of*)
(* the caller's replaces the whole of it.                                  *)
SuccessesAreLoggedForOne ==
    \A id \in DOMAIN fields :
      Done(id) /\ IsOf(id, "ApiToEventBridgeTargetWithSns")
        /\ ~props.useExisting =>
      /\ fields[id].environment.sourceId = id
      /\ fields[id].ruleSuccess.pattern = props.ruleSuccess.pattern
      /\ \/ props.ruleSuccess.pattern = "callers"
         \/ \E one \in DOMAIN fields :
              /\ IsOf(one, "ApiToEventBridgeTargetWithSns")
              /\ props.ruleSuccess.pattern = one
      /\ fields[id].ruleFailure.pattern \in {"callers", "errors"}

(* A version starts with a capacity within the range of the last target    *)
(* that scales it, or with none if no alias puts its capacity there.       *)
VersionStartsWithinItsRange ==
    \A id \in DOMAIN fields :
      Done(id) /\ "versionCapacity" \in DOMAIN fields[id] =>
        LET aliases == props.aliases
            on == OnVersionOf(aliases)
            capacity == fields[id].versionCapacity
        IN \/ on = {} /\ capacity = 0
           \/ \E last \in on :
                /\ \A i \in on : i =< last
                /\ capacity \in aliases[last].capacity.min
                                 ..aliases[last].capacity.max

(* A function in a VPC may have interfaces there, and reaches the cache    *)
(* created next to it: it is in the group that the cache is in, which lets *)
(* its members in, unless the caller has other rules or another group.     *)
FunctionReachesItsCache(id) ==
    "vpc" \in DOMAIN fields[id] =>
      LET f == fields[id]
      IN /\ (f.vpc # NotSet) <=> (VpcAccess \subseteq f.lambdaRole.managed)
         /\ IsOf(id, "RestApiLambdaWithCache") /\ f.cache # NotSet =>
              /\ f.cache.group = f.securityGroup
              /\ (props.ingressRules = NotSet /\ f.securityGroup = "created"
                    => f.cache.port \in f.ingress)

(* What acts finds what it acts on, and may.                               *)
Reaches(id) ==
    /\ ImportedBusIsTheOneCreated(id) /\ HoldersMayDoTheirWork(id)
    /\ FunctionReachesItsCache(id)

ReachesWhatItUses == \A id \in DOMAIN fields : Done(id) => Reaches(id)

(* The distribution in front of a backend has the policies that its own    *)
(* construct created from the props, and the caller's where the props      *)
(* describe none.  That of a static site takes those of a site with a      *)
(* backend that was there before, and the caller's if there was none.      *)
HasBackend(id) ==
    IsOf(id, "SiteWithEcsBackend") \/ IsOf(id, "SiteWithLambdaBackend")

Describes(policy) ==
    CASE policy = "cachePolicy" -> props.siteCachePolicy # NotSet
      [] policy = "requestPolicy" -> props.siteOriginRequestPolicy # NotSet
      [] OTHER -> props.siteOriginResponseHeadersPolicy # NotSet

HasPoliciesOf(id, owner) ==
    \A p \in Policies :
      fields[id].distribution.behavior[p] =
        IF Describes(p) THEN owner ELSE props.defaultBehavior[p]

Backends ==
    {b \in DOMAIN fields : HasBackend(b) /\ fields[b].distribution # NotSet}

PoliciesAreItsOwn ==
    /\ \A id \in DOMAIN fields :
         Done(id) /\ HasBackend(id) => HasPoliciesOf(id, id)
    /\ this.class = "StaticSite" /\ status # "thrown" /\ IsSet("distribution")
         /\ props.defaultBehavior # NotSet =>
         \/ \E owner \in Backends : HasPoliciesOf(this.id, owner)
         \/ /\ Backends = {}
            /\ \A p \in Policies :
                 Field("distribution").behavior[p] \notin DOMAIN fields

(* The record that leads to the distribution of a site with a backend is   *)
(* the name it answers to, at every stage, exactly if the props give both  *)
(* the same name.                                                          *)
RecordIsANameOfTheSite ==
    \A id \in DOMAIN fields : Done(id) /\ HasBackend(id) =>
      (fields[id].record = fields[id].distribution.names)
        <=> (props.siteRecordName = props.siteSubDomain)

(* A distribution has a certificate of us-east-1, a load balancer one of   *)
(* its own region, unless one is created for a distribution of a stack     *)
(* elsewhere, or the props name another region for the balancer's.         *)
CertificatesAreWhereTheyAreUsed ==
    \A id \in DOMAIN fields : Done(id) =>
      /\ HasBackend(id) \/ IsOf(id, "StaticSite") =>
           (RegionOf(fields[id].certificate, props.certificateRegion)
                \in {EdgeRegion, "asGiven"})
             <=> (props.useExistingCertificate \/ props.region = EdgeRegion)
      /\ IsOf(id, "SiteWithEcsBackend") =>
           LET given == props.regionalCertificate
           IN (RegionOf(fields[id].regionalCertificate, given.region)
                   \in {props.region, "asGiven"})
                <=> (given.existing /\ given.arn = NotSet
                       => given.region \in {NotSet, props.region})

(* What is in front of a site is that site's.                              *)
SiteIsServedAsItsOwn ==
    PoliciesAreItsOwn /\ RecordIsANameOfTheSite /\ CertificatesAreWhereTheyAreUsed

(* What serves a construct is its own although others share its props: what*)
(* is in front of a site, and what logs the events of a function, but for  *)
(* its successes.                                                          *)
ServedAsItsOwn == SiteIsServedAsItsOwn /\ SuccessesAreLoggedForOne

(* Constructs of one class come out alike although they share props that   *)
(* each changes: what one leaves there changes nothing of the next but the *)
(* pattern of its rule for successes, and what is named for it.            *)
Named == {"environment", "ruleSuccess", "ruleFailure", "topic", "role",
          "integration", "integrationRequestTemplates", "application",
          "configEnvironment", "profile", "version", "variables",
          "cachePolicy", "requestPolicy", "headersPolicy", "distribution"}

TwinsAreAlike ==
    \A c, d \in DOMAIN fields : Done(c) /\ DOMAIN fields[c] = DOMAIN fields[d] =>
      /\ \A f \in DOMAIN fields[c] \ Named : fields[c][f] = fields[d][f]
      /\ {r.id : r \in {s \in template : s.of = c}}
           = {r.id : r \in {s \in template : s.of = d}}
=============================================================================
