--------------------------- MODULE MCAwsConstructs ---------------------------
(* Stacks of one or two constructs of each class, with the props that make *)
(* a difference to it.                                                     *)
EXTENDS AwsConstructs

NoPolicies ==
    [cachePolicy |-> NotSet, requestPolicy |-> NotSet, headersPolicy |-> NotSet]

(* Props with which everything can be built.                               *)
Base ==
    [useExisting |-> FALSE, importedRestApiRef |-> FALSE,
     importedRestApiRootRef |-> FALSE, withResource |-> TRUE,
     restApiName |-> TRUE, resource |-> NotSet, proxy |-> FALSE,
     useExistingCertificate |-> FALSE, certificateInParameter |-> FALSE,
     certificateArn |-> NotSet, eventBusName |-> <<"bus">>, prefix |-> <<>>,
     suffix |-> <<>>, stage |-> "tst", region |-> "eu-west-1",
     ruleName |-> TRUE, rulePattern |-> NotSet, integrationResponse |-> NotSet,
     lambdaLayer |-> FALSE, lambdaSource |-> TRUE, functionName |-> TRUE,
     aliases |-> <<>>, ruleSuccess |-> [pattern |-> NotSet, name |-> NotSet],
     ruleFailure |-> [pattern |-> NotSet, name |-> NotSet],
     defaultMethods |-> NotSet, paths |-> {}, addProxy |-> FALSE,
     configEnabled |-> FALSE, vpcName |-> FALSE, layerSources |-> <<>>,
     insights |-> FALSE, insightsVersion |-> FALSE, lambdaSecret |-> TRUE,
     useExistingVpc |-> FALSE, securityGroupExportName |-> FALSE,
     ingressRules |-> NotSet, restApiCache |-> FALSE, cachePort |-> NotSet,
     deploymentStrategy |-> "new", name |-> TRUE,
     certificateRegion |-> NotSet,
     regionalCertificate |-> [existing |-> FALSE, inParameter |-> FALSE,
                              arn |-> NotSet, region |-> NotSet],
     siteSubDomain |-> "www", siteRecordName |-> "www",
     skipStageForARecords |-> FALSE, siteBuckets |-> "new",
     siteDistribution |-> TRUE, defaultBehavior |-> NoPolicies,
     siteCachePolicy |-> NotSet, siteOriginRequestPolicy |-> NotSet,
     siteOriginResponseHeadersPolicy |-> NotSet,
     siteCloudfrontFunctionProps |-> NotSet, siteCacheInvalidation |-> FALSE,
     siteVpcName |-> TRUE, siteCluster |-> TRUE, siteScaling |-> NotSet,
     siteFileSystem |-> NotSet, siteFileSystemAccessPoints |-> <<>>,
     mountPoints |-> FALSE, siteLambdaUrlAuthType |-> NotSet,
     siteLambdaUrlInvokeGrantees |-> NotSet, assetDistribution |-> {},
     staticAssetSources |-> TRUE]

One(class) == <<[id |-> "first", class |-> class]>>
Two(class) == One(class) \o <<[id |-> "second", class |-> class]>>

Stacks(allProps, classes) ==
    [props : allProps, plan : {Two(c) : c \in classes}]

Affixes == {<<>>, <<"acme">>}
BusNames == {NotSet, <<"default">>, <<"bus">>}

(* An API is owned or imported, with a resource or without.                *)
ApiProps ==
    {[Base EXCEPT !.useExisting = e, !.importedRestApiRef = ref,
         !.importedRestApiRootRef = root, !.withResource = r,
         !.restApiName = n, !.resource = path] :
       e, ref, root, r, n \in BOOLEAN, path \in {NotSet, "path"}}

CertificateProps ==
    {[Base EXCEPT !.useExistingCertificate = e, !.certificateInParameter = i,
         !.certificateArn = arn] :
       e, i \in BOOLEAN, arn \in {NotSet, "callers", "callersAbroad"}}

EventBridgeProps ==
    {[Base EXCEPT !.useExisting = e, !.importedRestApiRef = e,
         !.importedRestApiRootRef = TRUE, !.eventBusName = bus, !.prefix = pre,
         !.suffix = suf, !.ruleName = r, !.rulePattern = p] :
       e, r \in BOOLEAN, bus \in BusNames, pre, suf \in Affixes,
       p \in {NotSet, "callers"}}
    \union {[Base EXCEPT !.integrationResponse = "callers"]}

Aliases(ids, names, ons, capacities) ==
    [id : ids, name : names, onVersion : ons, capacity : capacities]

Capacities == {[min |-> 1, max |-> 2], [min |-> 3, max |-> 4]}

AliasLists ==
    LET some == Aliases({NotSet}, {"blue", "green"}, BOOLEAN,
                        {NotSet} \union Capacities)
        byId == Aliases({NotSet, "alias"}, {"blue", "green"}, {FALSE}, {NotSet})
    IN {<<>>} \union {<<a>> : a \in some}
         \union (some \X some) \union (byId \X byId)

WithSnsProps ==
    {[Base EXCEPT !.useExisting = e, !.withResource = r, !.lambdaSource = src,
         !.functionName = fn, !.lambdaLayer = layer, !.eventBusName = bus,
         !.prefix = pre] :
       e, r, src, fn, layer \in BOOLEAN, bus \in BusNames, pre \in Affixes}
    \union
    {[Base EXCEPT !.ruleSuccess = [pattern |-> s, name |-> n],
         !.ruleFailure = [pattern |-> f, name |-> n]] :
       s, f, n \in {NotSet, "callers"}}
    \union {[Base EXCEPT !.aliases = a] : a \in AliasLists}

LambdaTargetProps ==
    {[p EXCEPT !.proxy = x] : p \in ApiProps, x \in BOOLEAN}
    \union {[Base EXCEPT !.resource = "path", !.defaultMethods = m] :
              m \in {NotSet, "callers"}}

AnyTargetProps ==
    {[p EXCEPT !.paths = paths, !.addProxy = x] :
       p \in ApiProps, paths \in {{}, {"v1", "v2"}}, x \in BOOLEAN}

RestApiLambdaProps ==
    {[Base EXCEPT !.restApiName = n, !.functionName = fn, !.paths = p,
         !.layerSources = l, !.useExistingVpc = v,
         !.securityGroupExportName = g, !.ingressRules = rules,
         !.restApiCache = cache, !.cachePort = port] :
       n, fn, v, g, cache \in BOOLEAN, p \in {{}, {"v1", "v2"}},
       l \in {<<>>, <<"l1", "l2">>}, rules \in {NotSet, {443}},
       port \in {NotSet, 6380}}
    \union {[Base EXCEPT !.aliases = a] : a \in AliasLists}

IamAccessProps ==
    {[Base EXCEPT !.configEnabled = c, !.vpcName = v,
         !.securityGroupExportName = v /\ g, !.layerSources = l,
         !.insightsVersion = i, !.lambdaSecret = s] :
       c, v, g, i, s \in BOOLEAN, l \in {<<>>, <<"l1", "l2">>}}
    \union {[Base EXCEPT !.aliases = a] : a \in AliasLists}

ConfigurationProps ==
    {[Base EXCEPT !.deploymentStrategy = s] : s \in {NotSet, "existing", "new"}}

ServiceProps ==
    {[Base EXCEPT !.name = n, !.region = r] :
       n \in BOOLEAN, r \in {"eu-west-1", "us-east-1"}}

WithBackend == {"SiteWithEcsBackend", "SiteWithLambdaBackend"}
CallersPolicies ==
    [cachePolicy |-> "callers", requestPolicy |-> NotSet,
     headersPolicy |-> "callers"]
Described == {NotSet, "named", "unnamed"}
Regions == {"eu-west-1", "us-east-1"}

RegionalCertificates ==
    {r \in [existing : BOOLEAN, inParameter : BOOLEAN,
            arn : {NotSet, "callers"}, region : {NotSet} \union Regions] :
       r.inParameter => r.region # NotSet}

SiteCertificateProps ==
    {p \in {[Base EXCEPT !.useExistingCertificate = e,
                !.certificateInParameter = i, !.certificateArn = arn,
                !.certificateRegion = at, !.region = region] :
              e, i \in BOOLEAN, arn \in {NotSet, "callers", "callersAbroad"},
              at \in {NotSet} \union Regions, region \in Regions} :
       p.certificateInParameter => p.certificateRegion # NotSet}
    \union {[Base EXCEPT !.regionalCertificate = r, !.region = region] :
              r \in RegionalCertificates, region \in Regions}

SiteNameProps ==
    {[Base EXCEPT !.siteRecordName = n, !.stage = s, !.skipStageForARecords = k] :
       n \in {NotSet, "www", "web"}, s \in {"tst", "prd"}, k \in BOOLEAN}

PolicyProps ==
    {[Base EXCEPT !.siteCachePolicy = c, !.siteOriginRequestPolicy = r,
         !.siteOriginResponseHeadersPolicy = h] :
       c, r, h \in Described}
    \union {[Base EXCEPT !.siteDistribution = d, !.defaultBehavior = b,
                !.siteCachePolicy = c] :
              d \in BOOLEAN, b \in {NotSet, NoPolicies, CallersPolicies},
              c \in {NotSet, "named"}}

DistributionProps ==
    {[Base EXCEPT !.siteBuckets = b, !.siteCloudfrontFunctionProps = f,
         !.siteCacheInvalidation = i] :
       b \in {NotSet, "new", "existing"}, f \in Described, i \in BOOLEAN}

SiteProps ==
    SiteCertificateProps \union SiteNameProps \union PolicyProps
      \union DistributionProps

EcsBackendProps ==
    {[Base EXCEPT !.useExistingVpc = v, !.siteVpcName = n, !.siteCluster = c] :
       v, n, c \in BOOLEAN}
    \union {[Base EXCEPT !.siteScaling = s, !.siteFileSystem = f,
                !.siteFileSystemAccessPoints = a, !.mountPoints = m] :
              s \in {NotSet, {}, {"cpu-scaling", "req-count"}}, f \in Described,
              a \in {<<>>, <<"path", "path">>, <<"path", NotSet>>},
              m \in BOOLEAN}

LambdaBackendProps ==
    {[Base EXCEPT !.functionName = n, !.aliases = a,
         !.siteLambdaUrlAuthType = t, !.siteLambdaUrlInvokeGrantees = g] :
       n \in BOOLEAN,
       a \in {<<>>} \union {<<x>> : x \in Aliases({NotSet}, {"blue", "latest"},
                                               BOOLEAN, Capacities)},
       t \in {NotSet, "NONE", "AWS_IAM"}, g \in {NotSet, {}, {"one"}}}
    \union {[Base EXCEPT !.aliases = a] : a \in AliasLists}

AssetProps ==
    {[Base EXCEPT !.siteBuckets = b, !.assetDistribution = d,
         !.staticAssetSources = s] :
       b \in {NotSet, "new", "existing"}, d \in SUBSET {"name", "id", "paths"},
       s \in BOOLEAN}

(* A static site that shares its props with sites with a backend.          *)
MixedPlans ==
    LET first == {<<[id |-> "first", class |-> b]>> : b \in WithBackend}
        static == <<[id |-> "static", class |-> "StaticSite"]>>
    IN {b \o static : b \in first} \union {static \o b : b \in first}
         \union {<<[id |-> "before", class |-> "SiteWithEcsBackend"]>>
                   \o b \o static : b \in first}

MCChoices ==
    UNION {
      Stacks(CertificateProps,
             {"ApiToEventBridgeTarget", "ApiToAnyTarget", "RestApiLambda"}),
      Stacks(ApiProps \union EventBridgeProps, {"ApiToEventBridgeTarget"}),
      Stacks(ApiProps \union WithSnsProps, {"ApiToEventBridgeTargetWithSns"}),
      Stacks(LambdaTargetProps, {"ApiToLambdaTarget"}),
      Stacks(AnyTargetProps, {"ApiToAnyTarget"}),
      Stacks(RestApiLambdaProps, {"RestApiLambda", "RestApiLambdaWithCache"}),
      Stacks(IamAccessProps, {"LambdaWithIamAccess"}),
      Stacks(ConfigurationProps, {"ApplicationConfiguration"}),
      Stacks(ServiceProps,
             {"createSqsToSfnCfnPipe", "createSqsToLambdaCfnPipe",
              "createDynamoDbToLambdaCfnPipe", "createCloudTrail",
              "createProjectForCloudfrontInvalidation"}),
      Stacks(SiteProps, WithBackend \union {"StaticSite"}),
      Stacks(EcsBackendProps, {"SiteWithEcsBackend"}),
      Stacks(LambdaBackendProps, {"SiteWithLambdaBackend"}),
      Stacks({[Base EXCEPT !.useExisting = TRUE]}, AlwaysOwned),
      Stacks(AssetProps, {"StaticAssetDeployment"}),
      [props : PolicyProps, plan : MixedPlans]}
=============================================================================
