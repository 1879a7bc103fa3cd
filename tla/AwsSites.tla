------------------------------- MODULE AwsSites ------------------------------
(***************************************************************************)
(* The sites of the AWS package (packages/aws/src/construct/site-with-ecs- *)
(* backend, site-with-lambda-backend, static-site) and StaticAssetDeploy-  *)
(* ment (static-asset-deployment): a distribution with its certificate,    *)
(* policies, domain names and record, in front of containers, a function   *)
(* or a bucket.  SiteResources has what each of their resources waits for  *)
(* when CloudFormation creates it; here is what they are made of.          *)
(***************************************************************************)
EXTENDS AwsManagers

BehindDistribution ==
    <<"createSiteOriginCachePolicy", "createSiteOriginRequestPolicy",
      "createSiteOriginResponseHeadersPolicy", "createSiteOrigin",
      "createSiteCloudfrontFunction", "resolveSiteFunctionAssociations",
      "createDistribution", "createNetworkMappings",
      "invalidateDistributionCache">>

BeforeBackend ==
    <<"resolveHostedZone", "resolveGlobalCertificate",
      "resolveRegionalCertificate", "resolveSiteSecrets",
      "resolveSiteDomainNames", "createSiteLogBucket">>

SiteWithEcsBackendMethods ==
    BeforeBackend
      \o <<"createVpc", "createEcsPolicy", "createEcsRole",
           "createEcsEnvironment", "createEcsCluster", "createEcsLogGroup",
           "createEcsBuildArgs", "createEcsContainerImage", "createEcsService">>
      \o BehindDistribution

(* createSiteOrigin begins with the resources of the origin.               *)
CreateSiteOriginResources ==
    <<"createSiteStaticAssetDeployment", "createSiteLambdaPolicy",
      "createSiteLambdaRole", "createSiteLambdaEnvironment",
      "createSiteLambdaLayers", "createSiteLambdaApplication",
      "createSiteLambda", "createSiteLambdaUrl">>

SiteWithLambdaBackendMethods ==
    BeforeBackend \o SubSeq(BehindDistribution, 1, 3)
      \o CreateSiteOriginResources \o SubSeq(BehindDistribution, 4, 9)

StaticSiteMethods ==
    <<"resolveHostedZone", "resolveCertificate", "createSiteLogBucket",
      "createSiteBucket", "createSiteCloudfrontFunction",
      "resolveSiteFunctionAssociations", "createSiteOriginAccessIdentity",
      "createSiteDistribution", "createSiteRouteAssets", "deploySite",
      "invalidateDistributionCache">>

StaticAssetDeploymentMethods ==
    <<"createAssetBucket", "resolveDistribution", "deployStaticAssets">>

SiteFields ==
    {"hostedZone", "certificate", "regionalCertificate", "secrets",
     "internalDomainName", "externalDomainName", "logBucket", "cachePolicy",
     "requestPolicy", "headersPolicy", "origin", "cloudfrontFunction",
     "associations", "distribution", "record"}
EcsSiteFields ==
    SiteFields \union
    {"siteVpc", "ecsPolicy", "actsAs", "ecsEnvironment", "cluster", "logGroup",
     "buildArgs", "image", "service", "fileSystem", "mounts", "work"}
LambdaSiteFields ==
    SiteFields \union
    {"lambdaPolicy", "lambdaRole", "environment", "layers", "function",
     "versionCapacity", "url"}
StaticSiteFields ==
    {"hostedZone", "certificate", "logBucket", "siteBucket",
     "cloudfrontFunction", "associations", "distribution", "record"}
AssetFields == {"assetBucket", "distribution"}
-----------------------------------------------------------------------------
(* Certificates.  The one of the distribution must be in us-east-1, the    *)
(* one of the load balancer in the region of the stack.  CDK refuses to    *)
(* give a distribution one that it knows to be elsewhere.                  *)
EdgeRegion == "us-east-1"

RegionOfStack(region) == props.region      \* a mutant: wherever the other is

RegionOfId(region) == IF region = NotSet THEN props.region ELSE region

RegionOf(certificate, region) ==
    CASE certificate = "created" -> props.region
      [] certificate = "byId" -> RegionOfId(region)
      [] certificate = "callersAbroad" -> "elsewhere"
      [] OTHER -> "asGiven"

ResolveGlobalCertificate ==
    /\ Calls("resolveGlobalCertificate")
    /\ LET reads == props.useExistingCertificate /\ props.certificateInParameter
           arn == IF reads THEN "parameter" ELSE props.certificateArn
       IN /\ props' = [props EXCEPT !.certificateArn = arn]
          /\ Builds({}, Child(<<"certificate">>, {})
                          \union When(reads,
                                  ParameterReader(<<"certificate-parameter">>)),
                    [certificate |-> ResolvedCertificate(arn)])

ResolveRegionalCertificate ==
    /\ Calls("resolveRegionalCertificate")
    /\ LET given == props.regionalCertificate
           reads == given.existing /\ given.inParameter
           arn == IF reads THEN "parameter" ELSE given.arn
       IN /\ props' = [props EXCEPT !.regionalCertificate.arn = arn]
          /\ Builds({"hostedZone"},
               Child(<<"regional-certificate">>, {"hostedZone"})
                 \union When(reads, ParameterReader(
                               <<"regional-certificate-parameter">>)),
               [regionalCertificate |->
                  IF ~given.existing THEN "created"
                  ELSE IF arn # NotSet THEN arn ELSE "byId"])

(* Hook: the class itself has no secrets.                                  *)
ResolveSiteSecrets == Calls("resolveSiteSecrets") /\ Returns

(* Names have the stage in them, except in production or if it is skipped. *)
PlainNames == props.stage = "prd" \/ props.skipStageForARecords
DomainName(name) == IF PlainNames THEN <<name>> ELSE <<name, props.stage>>

ResolveSiteDomainNames ==
    /\ Calls("resolveSiteDomainNames")
    /\ Sets([internalDomainName |-> <<"internal">> \o
                                      DomainName(props.siteSubDomain),
             externalDomainName |-> DomainName(props.siteSubDomain)])

(* The props of all buckets of a site, siteBuckets for short, are new or of*)
(* buckets that exist.                                                     *)
S3BucketThrows == props.siteBuckets = NotSet
S3Bucket(id, reads) ==
    IF props.siteBuckets = "existing" THEN Child(id, reads)
    ELSE Suffixed(id, "bucket", reads)

CreateSiteLogBucket ==
    /\ Calls("createSiteLogBucket")
    /\ IF S3BucketThrows THEN Throws
       ELSE Creates({}, S3Bucket(<<"site-logs">>, {}),
                    [logBucket |-> props.siteBuckets])
-----------------------------------------------------------------------------
(* The policies of the distribution.  Each construct creates those that    *)
(* the props describe and writes them over what is in the default          *)
(* behaviour of these props, which the distribution is then made from.     *)
AssignedOnce(policy, value) ==      \* a mutant: as defaults
    IF props.defaultBehavior = NotSet THEN props
    ELSE IF props.defaultBehavior[policy] # NotSet THEN props
    ELSE [props EXCEPT !.defaultBehavior[policy] = value]

Assigned(policy, value) ==
    IF props.defaultBehavior = NotSet THEN props
    ELSE [props EXCEPT !.defaultBehavior[policy] = value]

Policy(described, policy, id) ==
    IF described = NotSet THEN Returns
    ELSE IF described = "unnamed" \/ ~props.siteDistribution THEN Throws
    ELSE /\ props' = Assigned(policy, this.id)
         /\ Builds({}, Child(id, {}), [f \in {policy} |-> this.id])

CreateSiteOriginCachePolicy ==
    /\ Calls("createSiteOriginCachePolicy")
    /\ Policy(props.siteCachePolicy, "cachePolicy", <<"site-cache-policy">>)

CreateSiteOriginRequestPolicy ==
    /\ Calls("createSiteOriginRequestPolicy")
    /\ Policy(props.siteOriginRequestPolicy, "requestPolicy", <<"sorp">>)

CreateSiteOriginResponseHeadersPolicy ==
    /\ Calls("createSiteOriginResponseHeadersPolicy")
    /\ Policy(props.siteOriginResponseHeadersPolicy, "headersPolicy", <<"srhp">>)

CreateSiteCloudfrontFunction ==
    /\ Calls("createSiteCloudfrontFunction")
    /\ CASE props.siteCloudfrontFunctionProps = NotSet -> Returns
         [] props.siteCloudfrontFunctionProps = "unnamed" -> Throws
         [] OTHER -> Creates({}, Child(<<"function">>, {}),
                             [cloudfrontFunction |-> "created"])

ResolveSiteFunctionAssociations ==
    /\ Calls("resolveSiteFunctionAssociations")
    /\ IF props.siteCloudfrontFunctionProps = NotSet THEN Returns
       ELSE Sets([associations |-> Field("cloudfrontFunction")])

(* The caller may give the ARN of a certificate that is elsewhere.         *)
RefusesCertificate ==
    \/ Field("certificate") = "callersAbroad"
    \/ /\ Field("certificate") = "byId"
       /\ RegionOfId(props.certificateRegion) # EdgeRegion

CreatesDistribution(needs, reads, names) ==
    IF RefusesCertificate THEN Throws
    ELSE Creates(needs, Child(<<"distribution">>, needs \union reads),
                 [distribution |->
                    [names |-> names, behavior |-> props.defaultBehavior]])

DistributionReads == {"certificate", "logBucket", "associations"}

(* The behaviour is read from the props without asking if it is there.     *)
CreateDistribution ==
    /\ Calls("createDistribution")
    /\ IF ~props.siteDistribution \/ props.defaultBehavior = NotSet THEN Throws
       ELSE CreatesDistribution({"origin", "externalDomainName"},
              DistributionReads \union
                {"cachePolicy", "requestPolicy", "headersPolicy"},
              Field("externalDomainName"))

RecordWithStage(name) == <<name, props.stage>>      \* a mutant

(* The record of the distribution has a name of its own.  The one that is  *)
(* not given becomes "undefined".                                          *)
RecordName(name) ==
    IF (name # NotSet /\ props.stage = "prd") \/ props.skipStageForARecords
      THEN <<name>> ELSE <<name, props.stage>>

RecordOf(id) ==
    Creates({"distribution", "hostedZone"},
            Child(id, {"distribution", "hostedZone"}),
            [record |-> RecordName(props.siteRecordName)])

CreateNetworkMappings ==
    Calls("createNetworkMappings") /\ RecordOf(<<"a-record">>)

InvalidateDistributionCache ==
    /\ Calls("invalidateDistributionCache")
    /\ IF ~props.siteCacheInvalidation THEN Returns
       ELSE Creates({"distribution"},
                    Child(<<"cache-invalidation">>, {"distribution"})
                      \union Suffixed(<<"cache-invalidation">>,
                                      "trigger-codebuild", {}), None)
-----------------------------------------------------------------------------
(* The containers: one role to start the task and for what it does.        *)
CreateVpc ==
    /\ Calls("createVpc")
    /\ IF ~props.useExistingVpc /\ ~props.siteVpcName THEN Throws
       ELSE Creates({}, CommonVpc(<<"vpc">>),
              [siteVpc |-> IF props.useExistingVpc THEN "existing"
                           ELSE "created"])

CreateEcsPolicy ==
    /\ Calls("createEcsPolicy")
    /\ Sets([ecsPolicy |-> {StatementForCreateAnyLogStream({Any})}])

CreateEcsRole ==
    /\ Calls("createEcsRole")
    /\ Creates({"ecsPolicy"},
               Child(<<"ecs-role">>, {"ecsPolicy"})
                 \union Suffixed(<<"ecs-role">>,
                                 "AmazonECSTaskExecutionRolePolicy", {}),
               [actsAs |-> RoleForEcsExecution(Field("ecsPolicy"))])

CreateEcsEnvironment ==
    Calls("createEcsEnvironment") /\ Sets([ecsEnvironment |-> "created"])

CreateEcsCluster ==
    /\ Calls("createEcsCluster")
    /\ IF ~props.siteCluster THEN Throws
       ELSE Creates({"siteVpc"}, Child(<<"cluster">>, {"siteVpc"}),
                    [cluster |-> "created"])

CreateEcsLogGroup ==
    /\ Calls("createEcsLogGroup")
    /\ Creates({}, LogGroup(<<"ecs-log-group">>, {}),
               [logGroup |-> <<"ecs-log-group">>])

CreateEcsBuildArgs == Calls("createEcsBuildArgs") /\ Sets([buildArgs |-> "none"])

CreateEcsContainerImage ==
    /\ Calls("createEcsContainerImage")
    /\ Sets([image |-> [buildArgs |-> Field("buildArgs")]])

(* Each dimension scales by itself, if the props give it a threshold.      *)
Scaling ==
    IF props.siteScaling = NotSet THEN {}
    ELSE Child(<<"ecs-service", "scaling">>, {})
           \union UNION {Child(<<dimension>>, {}) : dimension \in props.siteScaling}

FileSystemThrows ==
    \/ props.siteFileSystem = "unnamed"
    \/ props.siteFileSystem # NotSet
         /\ \E i \in DOMAIN props.siteFileSystemAccessPoints :
              props.siteFileSystemAccessPoints[i] = NotSet

FileSystem ==
    When(props.siteFileSystem # NotSet,
         Child(<<"fs">>, {"siteVpc"}) \union
           UNION {Child(<<"fs", "ap", i>>, {}) :
                    i \in DOMAIN props.siteFileSystemAccessPoints})

ServiceReads ==
    {"regionalCertificate", "cluster", "internalDomainName", "hostedZone",
     "ecsEnvironment", "image", "logGroup", "secrets", "logBucket"}

(* What the container is there to do, and the statement for its files that *)
(* the role gets after the service.                                        *)
Work ==
    {<<"logs:CreateLogStream", Field("logGroup")>>}
      \union When(props.siteFileSystem # NotSet,
                  {<<"elasticfilesystem:*", <<"fs">>>>})

WithFileSystem(role) ==
    [role EXCEPT !.statements = @ \union
       When(props.siteFileSystem # NotSet, {StatementForWriteEfs({<<"fs">>})})]

CreateEcsService ==
    /\ Calls("createEcsService")
    /\ IF FileSystemThrows THEN Throws
       ELSE Creates({"regionalCertificate", "cluster", "actsAs", "logGroup",
                     "image", "siteVpc", "logBucket"},
              Child(<<"ecs-service">>, ServiceReads)
                \union Scaling \union FileSystem,
              [service |-> "created", work |-> Work,
               actsAs |-> WithFileSystem(Field("actsAs")),
               fileSystem |-> props.siteFileSystem,
               mounts |-> props.siteFileSystem # NotSet /\ props.mountPoints])
-----------------------------------------------------------------------------
(* The function, whose URL the distribution calls.                         *)
CreateSiteStaticAssetDeployment ==      \* a hook
    Calls("createSiteStaticAssetDeployment") /\ Returns

CreateSiteLambdaPolicy ==
    Calls("createSiteLambdaPolicy") /\ Sets([lambdaPolicy |-> {}])

CreateSiteLambdaRole ==
    /\ Calls("createSiteLambdaRole")
    /\ Creates({"lambdaPolicy"},
               RoleForLambdaResources(<<"role">>, {"lambdaPolicy"}),
               [lambdaRole |-> RoleForLambda(Field("lambdaPolicy"))])

CreateSiteLambdaEnvironment ==
    Calls("createSiteLambdaEnvironment") /\ Sets([environment |-> "created"])

CreateSiteLambdaLayers ==
    /\ Calls("createSiteLambdaLayers")
    /\ Creates({}, Child(<<"web-adapter", "x86_64">>, {})
                     \union Child(<<"web-adapter", "arm64">>, {}),
               [layers |-> "web adapter"])

CreateSiteLambdaApplication ==      \* a hook
    Calls("createSiteLambdaApplication") /\ Returns

CreateSiteLambda ==
    /\ Calls("createSiteLambda")
    /\ IF LambdaFunctionThrows \/ AliasesClash(<<"lambda">>) THEN Throws
       ELSE Creates({"lambdaRole"},
              LambdaFunction(<<"lambda">>, {"lambdaRole", "layers", "environment"}),
              [function |-> <<"lambda">>,
               versionCapacity |-> VersionCapacity(props.aliases)])

(* The first alias of that name takes the URL, which is signed for unless  *)
(* the props open it to grantees of theirs, or to all.                     *)
UrlIsOnAlias == \E i \in DOMAIN props.aliases : props.aliases[i].name = "latest"

AuthType ==
    IF props.siteLambdaUrlAuthType = NotSet THEN "AWS_IAM"
    ELSE props.siteLambdaUrlAuthType

CreateSiteLambdaUrl ==
    /\ Calls("createSiteLambdaUrl")
    /\ Creates({"function"}, Child(<<"url">>, {"function"}),
               [url |-> [on |-> IF UrlIsOnAlias THEN "alias" ELSE "function",
                         grantees |-> IF AuthType = "NONE"
                           THEN Coalesce(props.siteLambdaUrlInvokeGrantees, {"any"})
                           ELSE {}]])

CreateSiteOrigin ==
    /\ Calls("createSiteOrigin")
    /\ IF this.class = "SiteWithEcsBackend"
         THEN Sets([origin |-> Field("internalDomainName")])
       ELSE Creates({"url"}, {},
                    [origin |-> IF AuthType = "AWS_IAM" THEN <<"signed", "url">>
                                ELSE <<"url">>])
-----------------------------------------------------------------------------
CreateSiteBucket ==
    /\ Calls("createSiteBucket")
    /\ Creates({"logBucket"}, S3Bucket(<<"site">>, {"logBucket"}),
               [siteBucket |-> props.siteBuckets])

CreateSiteOriginAccessIdentity ==       \* a hook
    Calls("createSiteOriginAccessIdentity") /\ Returns

(* The whole of the default behaviour goes into the distribution, also     *)
(* what another construct has written there.                               *)
CreateSiteDistribution ==
    /\ Calls("createSiteDistribution")
    /\ IF ~props.siteDistribution THEN Throws
       ELSE CreatesDistribution({"siteBucket"}, DistributionReads, NotSet)

CreateSiteRouteAssets ==
    Calls("createSiteRouteAssets") /\ RecordOf(<<"domain-a-record">>)

DeploySite ==
    /\ Calls("deploySite")
    /\ Creates({"siteBucket", "distribution"},
               Child(<<"deployment">>, {"siteBucket", "distribution"}), None)

CreateAssetBucket ==
    /\ Calls("createAssetBucket")
    /\ IF S3BucketThrows THEN Throws
       ELSE Creates({}, S3Bucket(<<"sa-bucket">>, {}),
                    [assetBucket |-> props.siteBuckets])

(* Only a distribution that is known by name and id, with paths to         *)
(* invalidate, takes notice of new assets.                                 *)
ResolveDistribution ==
    /\ Calls("resolveDistribution")
    /\ IF props.assetDistribution # {"name", "id", "paths"} THEN Returns
       ELSE Creates({}, Child(<<"sa-distribution">>, {}),
                    [distribution |-> [names |-> NotSet, behavior |-> NotSet]])

DeployStaticAssets ==
    /\ Calls("deployStaticAssets")
    /\ IF ~props.staticAssetSources THEN Throws
       ELSE Creates({"assetBucket"},
                    Child(<<"static-deployment">>, {"assetBucket", "distribution"}),
                    None)

AwsSiteStep ==
    \/ ResolveGlobalCertificate \/ ResolveRegionalCertificate
    \/ ResolveSiteSecrets \/ ResolveSiteDomainNames \/ CreateSiteLogBucket
    \/ CreateSiteOriginCachePolicy \/ CreateSiteOriginRequestPolicy
    \/ CreateSiteOriginResponseHeadersPolicy \/ CreateSiteOrigin
    \/ CreateSiteCloudfrontFunction \/ ResolveSiteFunctionAssociations
    \/ CreateDistribution \/ CreateNetworkMappings \/ InvalidateDistributionCache

EcsBackendStep ==
    \/ CreateVpc \/ CreateEcsPolicy \/ CreateEcsRole \/ CreateEcsEnvironment
    \/ CreateEcsCluster \/ CreateEcsLogGroup \/ CreateEcsBuildArgs
    \/ CreateEcsContainerImage \/ CreateEcsService

LambdaBackendStep ==
    \/ CreateSiteStaticAssetDeployment \/ CreateSiteLambdaPolicy
    \/ CreateSiteLambdaRole \/ CreateSiteLambdaEnvironment
    \/ CreateSiteLambdaLayers \/ CreateSiteLambdaApplication
    \/ CreateSiteLambda \/ CreateSiteLambdaUrl

StaticSiteStep ==
    \/ CreateSiteBucket \/ CreateSiteOriginAccessIdentity
    \/ CreateSiteDistribution \/ CreateSiteRouteAssets \/ DeploySite
    \/ CreateAssetBucket \/ ResolveDistribution \/ DeployStaticAssets
=============================================================================
