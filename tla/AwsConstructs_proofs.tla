------------------------ MODULE AwsConstructs_proofs ------------------------
(***************************************************************************)
(* What holds of every stack of AWS constructs, whatever its props and     *)
(* however many constructs share them.  It follows from the order in which *)
(* the methods are called: each method has a rank that grows along every   *)
(* initResources, and each field of a class the ranks of the methods that  *)
(* set it.                                                                 *)
(***************************************************************************)
EXTENDS AwsConstructs, SequenceTheorems, WellFoundedInduction, TLAPS

Rank ==
    [resolveLambdaVpc |-> 1, resolveVpc |-> 2, resolveSecurityGroup |-> 3,
     resolveSecurityGroups |-> 4, createElastiCache |-> 5,
     resolveSecrets |-> 6, resolveHostedZone |-> 7,
     resolveCertificate |-> 8, createApiToEventBridgeTargetEventBus |-> 11,
     createApiToEventBridgeTargetLogGroup |-> 12,
     createApiToEventBridgeTargetRule |-> 13,
     createApiToEventBridgeTargetPolicy |-> 14,
     createApiToEventBridgeTargetRole |-> 15,
     createApiToEventBridgeTargetIntegrationRequestParameters |-> 16,
     createApiToEventBridgeTargetIntegrationRequestTemplates |-> 17,
     createApiToEventBridgeTargetIntegrationResponse |-> 18,
     createApiToEventBridgeTargetIntegrationErrorResponse |-> 19,
     createApiToEventBridgeTargetIntegration |-> 20,
     createApiToEventBridgeTargetRestApi |-> 21,
     createApiToEventBridgeTargetResource |-> 22,
     createApiToEventBridgeTargetResponseModel |-> 23,
     createApiToEventBridgeTargetErrorResponseModel |-> 24,
     createApiToEventBridgeTargetMethodResponse |-> 25,
     createApiToEventBridgeTargetMethodErrorResponse |-> 26,
     createApiToEventBridgeTargetResourceMethod |-> 27,
     createApiDestinedEventBus |-> 31, createApiDestinedLambdaPolicy |-> 32,
     createApiDestinedLambdaRole |-> 33,
     createApiDestinedLambdaEnvironment |-> 34,
     createApiDestinedLambdaLayers |-> 35,
     createApiDestinedLambdaDestinations |-> 36,
     createApiDestinedLambdaFunction |-> 37,
     createApiDestinationLogGroupSuccess |-> 38,
     createApiDestinationRuleSuccess |-> 39,
     createApiDestinationLogGroupFailure |-> 40,
     createApiDestinationRuleFailure |-> 41,
     createApiDestinedTopicRole |-> 42, createApiDestinedTopic |-> 43,
     createApiDestinedIntegrationRequestParameters |-> 44,
     createApiDestinedIntegrationRequestTemplates |-> 45,
     createApiDestinedIntegrationResponse |-> 46,
     createApiDestinedIntegrationErrorResponse |-> 47,
     createApiDestinedIntegration |-> 48, createApiDestinedRestApi |-> 49,
     createApiDestinedResource |-> 50,
     createApiDestinedResponseModel |-> 51,
     createApiDestinedErrorResponseModel |-> 52,
     createApiDestinedMethodResponse |-> 53,
     createApiDestinedMethodErrorResponse |-> 54,
     createApiDestinedResourceMethod |-> 55,
     createApiToAnyTargetRestApi |-> 60,
     createApiToLambdaTargetMethodResponse |-> 61,
     createApiToLambdaTargetMethodErrorResponse |-> 62,
     resolveApiToLambdaTargetFunction |-> 63,
     createApiToLambdaTargetRestApi |-> 64,
     createApiToLambdaTargetResource |-> 65,
     createApiToLambdaTargetPolicy |-> 66,
     createApiToLambdaTargetRole |-> 67,
     createApiToLambdaTargetIntegration |-> 68,
     createApiToLambdaTargetResourceMethod |-> 69,
     createLambdaPolicy |-> 71, createLambdaRole |-> 72,
     createLambdaEnvironment |-> 73, createLambdaLayers |-> 74,
     createLambdaFunction |-> 75, createRestApi |-> 76,
     createRestApiResources |-> 77, createIamUserForLambdaFunction |-> 78,
     createIamSecretForLambdaFunction |-> 79, createApiDomain |-> 81,
     createApiBasePathMapping |-> 82, createApiRootPathMapping |-> 83,
     createApiRouteAssets |-> 84, createApiToAnyTargetResource |-> 85,
     createAppConfigApplication |-> 91, createAppConfigEnvironment |-> 92,
     createAppConfigProfile |-> 93, createAppConfigVersion |-> 94,
     createAppConfigDeploymentStrategy |-> 95,
     createAppConfigDeployment |-> 96, resolveEnvironmentVariables |-> 97,
     resolveGlobalCertificate |-> 101, resolveRegionalCertificate |-> 102,
     resolveSiteSecrets |-> 103, resolveSiteDomainNames |-> 104,
     createSiteLogBucket |-> 105, createVpc |-> 106,
     createEcsPolicy |-> 107, createEcsRole |-> 108,
     createEcsEnvironment |-> 109, createEcsCluster |-> 110,
     createEcsLogGroup |-> 111, createEcsBuildArgs |-> 112,
     createEcsContainerImage |-> 113, createEcsService |-> 114,
     createSiteOriginCachePolicy |-> 115,
     createSiteOriginRequestPolicy |-> 116,
     createSiteOriginResponseHeadersPolicy |-> 117,
     createSiteStaticAssetDeployment |-> 118,
     createSiteLambdaPolicy |-> 119, createSiteLambdaRole |-> 120,
     createSiteLambdaEnvironment |-> 121, createSiteLambdaLayers |-> 122,
     createSiteLambdaApplication |-> 123, createSiteLambda |-> 124,
     createSiteLambdaUrl |-> 125, createSiteBucket |-> 126,
     createSiteOrigin |-> 127, createSiteCloudfrontFunction |-> 128,
     resolveSiteFunctionAssociations |-> 129,
     createSiteOriginAccessIdentity |-> 130, createDistribution |-> 131,
     createSiteDistribution |-> 132, createNetworkMappings |-> 133,
     createSiteRouteAssets |-> 134, deploySite |-> 135,
     invalidateDistributionCache |-> 136, createAssetBucket |-> 141,
     resolveDistribution |-> 142, deployStaticAssets |-> 143,
     createSqsToSfnCfnPipe |-> 151, createSqsToLambdaCfnPipe |-> 152,
     createDynamoDbToLambdaCfnPipe |-> 153, createCloudTrail |-> 154,
     createProjectForCloudfrontInvalidation |-> 155]

ApiClasses ==
    {"ApiToEventBridgeTarget", "ApiToEventBridgeTargetWithSns",
     "ApiToLambdaTarget", "ApiToAnyTarget", "RestApiLambda",
     "RestApiLambdaWithCache"}
FunctionClasses ==
    {"RestApiLambda", "RestApiLambdaWithCache", "LambdaWithIamAccess"}
BackendClasses == {"SiteWithEcsBackend", "SiteWithLambdaBackend"}
SiteClasses == BackendClasses \union {"StaticSite"}
ServiceClasses ==
    {"createSqsToSfnCfnPipe", "createSqsToLambdaCfnPipe",
     "createDynamoDbToLambdaCfnPipe", "createCloudTrail",
     "createProjectForCloudfrontInvalidation"}

(* The class that has a method of this rank.                               *)
Belongs(class, rank) ==
    /\ rank \in {1, 4, 78, 79} => class = "LambdaWithIamAccess"
    /\ rank \in {2, 3, 5} => class = "RestApiLambdaWithCache"
    /\ rank \in {6, 81, 84} => class \in ApiClasses
    /\ rank \in {7, 8} => class \in ApiClasses \union SiteClasses
    /\ rank = 8 => class \notin BackendClasses
    /\ rank \in 11..27 => class = "ApiToEventBridgeTarget"
    /\ rank \in 31..55 => class = "ApiToEventBridgeTargetWithSns"
    /\ rank \in {60, 85} => class = "ApiToAnyTarget"
    /\ rank \in 61..69 => class = "ApiToLambdaTarget"
    /\ rank \in 71..75 => class \in FunctionClasses
    /\ rank \in {76, 77, 83} => class \in FunctionClasses \ {"LambdaWithIamAccess"}
    /\ rank = 82 => class \in ApiClasses \ FunctionClasses
    /\ rank \in 91..97 => class = "ApplicationConfiguration"
    /\ rank \in (101..104) \union (115..117) \union {127, 131, 133}
         => class \in BackendClasses
    /\ rank \in {105, 128, 129, 136} => class \in SiteClasses
    /\ rank \in 106..114 => class = "SiteWithEcsBackend"
    /\ rank \in 118..125 => class = "SiteWithLambdaBackend"
    /\ rank \in {126, 130, 132, 134, 135} => class = "StaticSite"
    /\ rank \in 141..143 => class = "StaticAssetDeployment"
    /\ rank \in 151..155 => class \in ServiceClasses

(* The ranks of the methods that set a field.                              *)
EventSetAt ==
    [applicationSecrets |-> {6}, hostedZone |-> {7}, certificate |-> {8},
     eventBus |-> {11}, logGroup |-> {12}, rule |-> {13}, policy |-> {14},
     role |-> {15}, integrationRequestParameters |-> {16},
     integrationRequestTemplates |-> {17}, integrationResponse |-> {18},
     integrationErrorResponse |-> {19}, integration |-> {20}, api |-> {21},
     resource |-> {22}, responseModel |-> {23}, errorResponseModel |-> {24},
     methodResponse |-> {25}, methodErrorResponse |-> {26}, method |-> {27},
     domain |-> {81}]

WithSnsSetAt ==
    [applicationSecrets |-> {6}, hostedZone |-> {7}, certificate |-> {8},
     eventBus |-> {31}, lambdaPolicy |-> {32}, lambdaRole |-> {33},
     environment |-> {34}, layers |-> {35}, destinationSuccess |-> {36},
     destinationFailure |-> {36}, function |-> {37}, logGroupSuccess |-> {38},
     ruleSuccess |-> {39}, logGroupFailure |-> {40}, ruleFailure |-> {41},
     role |-> {42, 43}, topic |-> {43}, policy |-> {},
     integrationRequestParameters |-> {44},
     integrationRequestTemplates |-> {45}, integrationResponse |-> {46},
     integrationErrorResponse |-> {47}, integration |-> {48}, api |-> {49},
     resource |-> {50}, responseModel |-> {51}, errorResponseModel |-> {52},
     methodResponse |-> {53}, methodErrorResponse |-> {54}, method |-> {55},
     domain |-> {81}]

TargetSetAt ==
    [applicationSecrets |-> {6}, hostedZone |-> {7}, certificate |-> {8},
     methodResponse |-> {61}, methodErrorResponse |-> {62}, lambda |-> {63},
     api |-> {64}, resource |-> {65}, policy |-> {66}, role |-> {67},
     integration |-> {68}, method |-> {69}, domain |-> {81}]

AnyTargetSetAt ==
    [applicationSecrets |-> {6}, hostedZone |-> {7}, certificate |-> {8},
     methodResponse |-> {}, methodErrorResponse |-> {}, integration |-> {},
     api |-> {60}, resource |-> {}, method |-> {}, policy |-> {}, role |-> {},
     domain |-> {81}, resources |-> {85}]

FunctionSetAt ==
    [applicationSecrets |-> {6}, hostedZone |-> {7}, certificate |-> {8},
     vpc |-> {1, 2}, securityGroup |-> {3, 4}, ingress |-> {3}, cache |-> {5},
     lambdaPolicy |-> {71}, lambdaRole |-> {72}, environment |-> {73},
     layers |-> {74}, function |-> {75}, versionCapacity |-> {75},
     api |-> {76}, user |-> {78}, invokes |-> {78}, accessKey |-> {78},
     secret |-> {79}, domain |-> {81}, resource |-> {}, methodResponse |-> {},
     methodErrorResponse |-> {}, integration |-> {}, method |-> {},
     policy |-> {}, role |-> {}]

ConfigurationSetAt ==
    [application |-> {91}, configEnvironment |-> {92}, profile |-> {93},
     version |-> {94}, deploymentStrategy |-> {95}, variables |-> {97}]

SiteSetAt ==
    [hostedZone |-> {7}, certificate |-> {8, 101},
     regionalCertificate |-> {102}, secrets |-> {},
     internalDomainName |-> {104}, externalDomainName |-> {104},
     logBucket |-> {105}, siteVpc |-> {106}, ecsPolicy |-> {107},
     actsAs |-> {108, 114}, ecsEnvironment |-> {109}, cluster |-> {110},
     logGroup |-> {111}, buildArgs |-> {112}, image |-> {113},
     service |-> {114}, fileSystem |-> {114}, mounts |-> {114},
     work |-> {114}, cachePolicy |-> {115}, requestPolicy |-> {116},
     headersPolicy |-> {117}, lambdaPolicy |-> {119}, lambdaRole |-> {120},
     environment |-> {121}, layers |-> {122}, function |-> {124},
     versionCapacity |-> {124}, url |-> {125}, siteBucket |-> {126},
     origin |-> {127}, cloudfrontFunction |-> {128}, associations |-> {129},
     distribution |-> {131, 132}, record |-> {133, 134}]

AssetSetAt == [assetBucket |-> {141}, distribution |-> {142}]

ServiceSetAt == [actsAs |-> 151..155, work |-> 151..155]

SetAtOf(class) ==
    IF class = "ApiToEventBridgeTarget" THEN EventSetAt
    ELSE IF class = "ApiToEventBridgeTargetWithSns" THEN WithSnsSetAt
    ELSE IF class = "ApiToLambdaTarget" THEN TargetSetAt
    ELSE IF class = "ApiToAnyTarget" THEN AnyTargetSetAt
    ELSE IF class \in FunctionClasses THEN FunctionSetAt
    ELSE IF class = "ApplicationConfiguration" THEN ConfigurationSetAt
    ELSE IF class \in SiteClasses THEN SiteSetAt
    ELSE IF class = "StaticAssetDeployment" THEN AssetSetAt
    ELSE ServiceSetAt

SetAt == SetAtOf(this.class)
MethodsOf(class) == Classes[class].methods
FieldsOf(class) == Classes[class].fields
-----------------------------------------------------------------------------
(* The inductive invariant *)

(* The methods that are left are the last of their class, in their order.  *)
Left == {todo[i] : i \in DOMAIN todo}

Ordered(methods, class) ==
    /\ \A i \in DOMAIN methods :
         methods[i] \in DOMAIN Rank /\ Belongs(class, Rank[methods[i]])
    /\ \A i, j \in DOMAIN methods : i < j => Rank[methods[i]] < Rank[methods[j]]

PlanInv ==
    /\ plan \in Seq(Constructs) /\ plan # <<>>
    /\ \A i \in DOMAIN plan :
         /\ plan[i].class \in DOMAIN Classes
         /\ plan[i].id \in DOMAIN fields
         /\ DOMAIN fields[plan[i].id] = FieldsOf(plan[i].class)
    /\ \A i, j \in DOMAIN plan : i # j => plan[i].id # plan[j].id
    /\ \E n \in 0..Len(InitResources(this)) :
         todo = SubSeq(InitResources(this), n + 1, Len(InitResources(this)))
    /\ todo \in Seq(DOMAIN Rank) /\ Ordered(todo, this.class)
    /\ status \in {"synth", "done", "thrown"}
    /\ status = "done" => todo = <<>> /\ Len(plan) = 1

PropsInv ==
    /\ ChangedProps \subseteq DOMAIN props
    /\ props.rulePattern \in {NotSet, "callers", "default"}
    /\ props.certificateArn \in {NotSet, "callers", "callersAbroad", "parameter"}

(* No method that is left sets the field again.                            *)
Settled(f) ==
    f \in DOMAIN SetAt /\ \A r \in SetAt[f] : \A m \in Left : Rank[m] > r

(* A field is set by the methods that set it, and by no other.             *)
FieldsInv ==
    /\ \A id \in DOMAIN fields : \E class \in DOMAIN Classes :
         DOMAIN fields[id] = FieldsOf(class)
    /\ \A f \in DOMAIN fields[this.id] : IsSet(f) =>
         /\ f \in DOMAIN SetAt
         /\ \E r \in SetAt[f] : \A m \in Left : Rank[m] > r
    /\ \A i \in DOMAIN plan : i # 1 =>
         fields[plan[i].id] = [f \in FieldsOf(plan[i].class) |-> NotSet]

(* Resources are of constructs that are there, and up to date, but for the *)
(* default responses that are never set when an API with events is made.   *)
TemplateInv ==
    \A r \in template :
      /\ r.of \in DOMAIN fields
      /\ \A i \in DOMAIN plan : r.of = plan[i].id => i = 1
      /\ DOMAIN r.reads \subseteq DOMAIN fields[r.of]
      /\ \A f \in DOMAIN r.reads :
           IF f \in DefaultResponses /\ TakesDefaults(r) THEN r.reads[f] = NotSet
           ELSE /\ r.reads[f] = fields[r.of][f]
                /\ r.of = this.id => Settled(f)

BuiltInv == PlanInv /\ PropsInv /\ FieldsInv /\ TemplateInv
-----------------------------------------------------------------------------
(* The order of the methods *)

LEMMA ClassesAre ==
    DOMAIN Classes = ApiClasses \union {"LambdaWithIamAccess",
      "ApplicationConfiguration", "StaticAssetDeployment"}
      \union SiteClasses \union ServiceClasses
BY DEF Classes, ApiClasses, SiteClasses, BackendClasses, ServiceClasses

LEMMA FieldsAre ==
    /\ FieldsOf("ApiToEventBridgeTarget") = EventBridgeTargetFields
    /\ FieldsOf("ApiToEventBridgeTargetWithSns") = WithSnsFields
    /\ FieldsOf("ApiToLambdaTarget") = LambdaTargetFields
    /\ FieldsOf("ApiToAnyTarget") = AnyTargetFields
    /\ FieldsOf("RestApiLambda") = RestApiLambdaFields
    /\ FieldsOf("RestApiLambdaWithCache") = WithCacheFields
    /\ FieldsOf("LambdaWithIamAccess") = IamAccessFields
    /\ FieldsOf("ApplicationConfiguration") = ConfigurationFields
    /\ FieldsOf("SiteWithEcsBackend") = EcsSiteFields
    /\ FieldsOf("SiteWithLambdaBackend") = LambdaSiteFields
    /\ FieldsOf("StaticSite") = StaticSiteFields
    /\ FieldsOf("StaticAssetDeployment") = AssetFields
    /\ \A class \in ServiceClasses : FieldsOf(class) = ServiceFields
BY DEF FieldsOf, Classes, Service, ServiceClasses

(* Its methods have growing ranks, which are those of the class.           *)
RankedAs(methods, class, place) ==
    /\ methods \in Seq(DOMAIN Rank) /\ DOMAIN methods = DOMAIN place
    /\ \A i \in DOMAIN place :
         Rank[methods[i]] = place[i] /\ Belongs(class, place[i])
    /\ \A i, j \in DOMAIN place : i < j => place[i] < place[j]

LEMMA ApiToEventBridgeTargetIsRanked ==
    \E place : RankedAs(EventBridgeTargetMethods, "ApiToEventBridgeTarget", place)
<1> DEFINE place == <<6, 7, 8, 11, 12, 13, 14, 15, 16, 17, 18, 19, 20,
                        21, 22, 23, 24, 25, 26, 27, 81, 82, 84>>
<1>1. DOMAIN place = 1..23
  OBVIOUS
<1>2. /\ EventBridgeTargetMethods \in Seq(DOMAIN Rank)
      /\ Len(EventBridgeTargetMethods) = 23
  BY DEF Rank, EventBridgeTargetMethods
<1>3. \A i \in 1..23 : Rank[EventBridgeTargetMethods[i]] = place[i]
  BY DEF Rank, EventBridgeTargetMethods
<1>4. \A i \in 1..23 : Belongs("ApiToEventBridgeTarget", place[i])
  BY DEF Belongs, ApiClasses, FunctionClasses, SiteClasses, BackendClasses
<1>5. \A i, j \in 1..23 : i < j => place[i] < place[j]
  OBVIOUS
<1> HIDE DEF place
<1>6. DOMAIN EventBridgeTargetMethods = 1..23
  BY <1>2
<1>7. RankedAs(EventBridgeTargetMethods, "ApiToEventBridgeTarget", place)
  BY <1>1, <1>2, <1>3, <1>4, <1>5, <1>6 DEF RankedAs
<1> QED  BY <1>7

LEMMA ApiToEventBridgeTargetWithSnsIsRanked ==
    \E place : RankedAs(WithSnsMethods, "ApiToEventBridgeTargetWithSns", place)
<1> DEFINE place == <<6, 7, 8, 31, 32, 33, 34, 35, 36, 37, 38, 39, 40,
                        41, 42, 43, 44, 45, 46, 47, 48, 49, 50, 51, 52,
                        53, 54, 55, 81, 82, 84>>
<1>1. DOMAIN place = 1..31
  OBVIOUS
<1>2. /\ WithSnsMethods \in Seq(DOMAIN Rank)
      /\ Len(WithSnsMethods) = 31
  BY DEF Rank, WithSnsMethods
<1>3. \A i \in 1..31 : Rank[WithSnsMethods[i]] = place[i]
  BY DEF Rank, WithSnsMethods
<1>4. \A i \in 1..31 : Belongs("ApiToEventBridgeTargetWithSns", place[i])
  BY DEF Belongs, ApiClasses, FunctionClasses, SiteClasses, BackendClasses
<1>5. \A i, j \in 1..31 : i < j => place[i] < place[j]
  OBVIOUS
<1> HIDE DEF place
<1>6. DOMAIN WithSnsMethods = 1..31
  BY <1>2
<1>7. RankedAs(WithSnsMethods, "ApiToEventBridgeTargetWithSns", place)
  BY <1>1, <1>2, <1>3, <1>4, <1>5, <1>6 DEF RankedAs
<1> QED  BY <1>7

LEMMA ApiToLambdaTargetIsRanked ==
    \E place : RankedAs(LambdaTargetMethods, "ApiToLambdaTarget", place)
<1> DEFINE place == <<6, 7, 8, 61, 62, 63, 64, 65, 66, 67, 68, 69, 81,
                        82, 84>>
<1>1. DOMAIN place = 1..15
  OBVIOUS
<1>2. /\ LambdaTargetMethods \in Seq(DOMAIN Rank)
      /\ Len(LambdaTargetMethods) = 15
  BY DEF Rank, LambdaTargetMethods
<1>3. \A i \in 1..15 : Rank[LambdaTargetMethods[i]] = place[i]
  BY DEF Rank, LambdaTargetMethods
<1>4. \A i \in 1..15 : Belongs("ApiToLambdaTarget", place[i])
  BY DEF Belongs, ApiClasses, FunctionClasses, SiteClasses, BackendClasses
<1>5. \A i, j \in 1..15 : i < j => place[i] < place[j]
  OBVIOUS
<1> HIDE DEF place
<1>6. DOMAIN LambdaTargetMethods = 1..15
  BY <1>2
<1>7. RankedAs(LambdaTargetMethods, "ApiToLambdaTarget", place)
  BY <1>1, <1>2, <1>3, <1>4, <1>5, <1>6 DEF RankedAs
<1> QED  BY <1>7

LEMMA ApiToAnyTargetIsRanked ==
    \E place : RankedAs(AnyTargetMethods, "ApiToAnyTarget", place)
<1> DEFINE place == <<6, 7, 8, 60, 81, 82, 84, 85>>
<1>1. DOMAIN place = 1..8
  OBVIOUS
<1>2. /\ AnyTargetMethods \in Seq(DOMAIN Rank)
      /\ Len(AnyTargetMethods) = 8
  BY DEF Rank, AnyTargetMethods
<1>3. \A i \in 1..8 : Rank[AnyTargetMethods[i]] = place[i]
  BY DEF Rank, AnyTargetMethods
<1>4. \A i \in 1..8 : Belongs("ApiToAnyTarget", place[i])
  BY DEF Belongs, ApiClasses, FunctionClasses, SiteClasses, BackendClasses
<1>5. \A i, j \in 1..8 : i < j => place[i] < place[j]
  OBVIOUS
<1> HIDE DEF place
<1>6. DOMAIN AnyTargetMethods = 1..8
  BY <1>2
<1>7. RankedAs(AnyTargetMethods, "ApiToAnyTarget", place)
  BY <1>1, <1>2, <1>3, <1>4, <1>5, <1>6 DEF RankedAs
<1> QED  BY <1>7

LEMMA RestApiLambdaIsRanked ==
    \E place : RankedAs(RestApiLambdaMethods, "RestApiLambda", place)
<1> DEFINE place == <<6, 7, 8, 71, 72, 73, 74, 75, 76, 77, 81, 83, 84>>
<1>1. DOMAIN place = 1..13
  OBVIOUS
<1>2. /\ RestApiLambdaMethods \in Seq(DOMAIN Rank)
      /\ Len(RestApiLambdaMethods) = 13
  BY DEF Rank, RestApiLambdaMethods
<1>3. \A i \in 1..13 : Rank[RestApiLambdaMethods[i]] = place[i]
  BY DEF Rank, RestApiLambdaMethods
<1>4. \A i \in 1..13 : Belongs("RestApiLambda", place[i])
  BY DEF Belongs, ApiClasses, FunctionClasses, SiteClasses, BackendClasses
<1>5. \A i, j \in 1..13 : i < j => place[i] < place[j]
  OBVIOUS
<1> HIDE DEF place
<1>6. DOMAIN RestApiLambdaMethods = 1..13
  BY <1>2
<1>7. RankedAs(RestApiLambdaMethods, "RestApiLambda", place)
  BY <1>1, <1>2, <1>3, <1>4, <1>5, <1>6 DEF RankedAs
<1> QED  BY <1>7

LEMMA RestApiLambdaWithCacheIsRanked ==
    \E place : RankedAs(RestApiLambdaWithCacheMethods, "RestApiLambdaWithCache", place)
<1> DEFINE place == <<2, 3, 5, 6, 7, 8, 71, 72, 73, 74, 75, 76, 77, 81,
                        83, 84>>
<1>1. DOMAIN place = 1..16
  OBVIOUS
<1>2. /\ RestApiLambdaWithCacheMethods \in Seq(DOMAIN Rank)
      /\ Len(RestApiLambdaWithCacheMethods) = 16
  BY DEF Rank, RestApiLambdaWithCacheMethods, RestApiLambdaMethods
<1>3. \A i \in 1..16 : Rank[RestApiLambdaWithCacheMethods[i]] = place[i]
  BY DEF Rank, RestApiLambdaWithCacheMethods, RestApiLambdaMethods
<1>4. \A i \in 1..16 : Belongs("RestApiLambdaWithCache", place[i])
  BY DEF Belongs, ApiClasses, FunctionClasses, SiteClasses, BackendClasses
<1>5. \A i, j \in 1..16 : i < j => place[i] < place[j]
  OBVIOUS
<1> HIDE DEF place
<1>6. DOMAIN RestApiLambdaWithCacheMethods = 1..16
  BY <1>2
<1>7. RankedAs(RestApiLambdaWithCacheMethods, "RestApiLambdaWithCache", place)
  BY <1>1, <1>2, <1>3, <1>4, <1>5, <1>6 DEF RankedAs
<1> QED  BY <1>7

LEMMA LambdaWithIamAccessIsRanked ==
    \E place : RankedAs(LambdaWithIamAccessMethods, "LambdaWithIamAccess", place)
<1> DEFINE place == <<1, 4, 71, 72, 73, 74, 75, 78, 79>>
<1>1. DOMAIN place = 1..9
  OBVIOUS
<1>2. /\ LambdaWithIamAccessMethods \in Seq(DOMAIN Rank)
      /\ Len(LambdaWithIamAccessMethods) = 9
  BY DEF Rank, LambdaWithIamAccessMethods
<1>3. \A i \in 1..9 : Rank[LambdaWithIamAccessMethods[i]] = place[i]
  BY DEF Rank, LambdaWithIamAccessMethods
<1>4. \A i \in 1..9 : Belongs("LambdaWithIamAccess", place[i])
  BY DEF Belongs, ApiClasses, FunctionClasses, SiteClasses, BackendClasses
<1>5. \A i, j \in 1..9 : i < j => place[i] < place[j]
  OBVIOUS
<1> HIDE DEF place
<1>6. DOMAIN LambdaWithIamAccessMethods = 1..9
  BY <1>2
<1>7. RankedAs(LambdaWithIamAccessMethods, "LambdaWithIamAccess", place)
  BY <1>1, <1>2, <1>3, <1>4, <1>5, <1>6 DEF RankedAs
<1> QED  BY <1>7

LEMMA ApplicationConfigurationIsRanked ==
    \E place : RankedAs(ApplicationConfigurationMethods, "ApplicationConfiguration", place)
<1> DEFINE place == <<91, 92, 93, 94, 95, 96, 97>>
<1>1. DOMAIN place = 1..7
  OBVIOUS
<1>2. /\ ApplicationConfigurationMethods \in Seq(DOMAIN Rank)
      /\ Len(ApplicationConfigurationMethods) = 7
  BY DEF Rank, ApplicationConfigurationMethods
<1>3. \A i \in 1..7 : Rank[ApplicationConfigurationMethods[i]] = place[i]
  BY DEF Rank, ApplicationConfigurationMethods
<1>4. \A i \in 1..7 : Belongs("ApplicationConfiguration", place[i])
  BY DEF Belongs, ApiClasses, FunctionClasses, SiteClasses, BackendClasses
<1>5. \A i, j \in 1..7 : i < j => place[i] < place[j]
  OBVIOUS
<1> HIDE DEF place
<1>6. DOMAIN ApplicationConfigurationMethods = 1..7
  BY <1>2
<1>7. RankedAs(ApplicationConfigurationMethods, "ApplicationConfiguration", place)
  BY <1>1, <1>2, <1>3, <1>4, <1>5, <1>6 DEF RankedAs
<1> QED  BY <1>7

LEMMA SiteWithEcsBackendIsRanked ==
    \E place : RankedAs(SiteWithEcsBackendMethods, "SiteWithEcsBackend", place)
<1> DEFINE place == <<7, 101, 102, 103, 104, 105, 106, 107, 108, 109,
                        110, 111, 112, 113, 114, 115, 116, 117, 127, 128,
                        129, 131, 133, 136>>
<1>1. DOMAIN place = 1..24
  OBVIOUS
<1>2. /\ SiteWithEcsBackendMethods \in Seq(DOMAIN Rank)
      /\ Len(SiteWithEcsBackendMethods) = 24
  BY DEF Rank, SiteWithEcsBackendMethods,
     BeforeBackend, BehindDistribution
<1>3. \A i \in 1..24 : Rank[SiteWithEcsBackendMethods[i]] = place[i]
  BY DEF Rank, SiteWithEcsBackendMethods,
     BeforeBackend, BehindDistribution
<1>4. \A i \in 1..24 : Belongs("SiteWithEcsBackend", place[i])
  BY DEF Belongs, ApiClasses, FunctionClasses, SiteClasses, BackendClasses
<1>5. \A i, j \in 1..24 : i < j => place[i] < place[j]
  OBVIOUS
<1> HIDE DEF place
<1>6. DOMAIN SiteWithEcsBackendMethods = 1..24
  BY <1>2
<1>7. RankedAs(SiteWithEcsBackendMethods, "SiteWithEcsBackend", place)
  BY <1>1, <1>2, <1>3, <1>4, <1>5, <1>6 DEF RankedAs
<1> QED  BY <1>7

LEMMA SiteWithLambdaBackendIsRanked ==
    \E place : RankedAs(SiteWithLambdaBackendMethods, "SiteWithLambdaBackend", place)
<1> DEFINE place == <<7, 101, 102, 103, 104, 105, 115, 116, 117, 118,
                        119, 120, 121, 122, 123, 124, 125, 127, 128, 129,
                        131, 133, 136>>
<1>1. DOMAIN place = 1..23
  OBVIOUS
<1>2. /\ SiteWithLambdaBackendMethods \in Seq(DOMAIN Rank)
      /\ Len(SiteWithLambdaBackendMethods) = 23
  BY DEF Rank, SiteWithLambdaBackendMethods,
     BeforeBackend, BehindDistribution, CreateSiteOriginResources
<1>3. \A i \in 1..23 : Rank[SiteWithLambdaBackendMethods[i]] = place[i]
  BY DEF Rank, SiteWithLambdaBackendMethods,
     BeforeBackend, BehindDistribution, CreateSiteOriginResources
<1>4. \A i \in 1..23 : Belongs("SiteWithLambdaBackend", place[i])
  BY DEF Belongs, ApiClasses, FunctionClasses, SiteClasses, BackendClasses
<1>5. \A i, j \in 1..23 : i < j => place[i] < place[j]
  OBVIOUS
<1> HIDE DEF place
<1>6. DOMAIN SiteWithLambdaBackendMethods = 1..23
  BY <1>2
<1>7. RankedAs(SiteWithLambdaBackendMethods, "SiteWithLambdaBackend", place)
  BY <1>1, <1>2, <1>3, <1>4, <1>5, <1>6 DEF RankedAs
<1> QED  BY <1>7

LEMMA StaticSiteIsRanked ==
    \E place : RankedAs(StaticSiteMethods, "StaticSite", place)
<1> DEFINE place == <<7, 8, 105, 126, 128, 129, 130, 132, 134, 135,
                        136>>
<1>1. DOMAIN place = 1..11
  OBVIOUS
<1>2. /\ StaticSiteMethods \in Seq(DOMAIN Rank)
      /\ Len(StaticSiteMethods) = 11
  BY DEF Rank, StaticSiteMethods
<1>3. \A i \in 1..11 : Rank[StaticSiteMethods[i]] = place[i]
  BY DEF Rank, StaticSiteMethods
<1>4. \A i \in 1..11 : Belongs("StaticSite", place[i])
  BY DEF Belongs, ApiClasses, FunctionClasses, SiteClasses, BackendClasses
<1>5. \A i, j \in 1..11 : i < j => place[i] < place[j]
  OBVIOUS
<1> HIDE DEF place
<1>6. DOMAIN StaticSiteMethods = 1..11
  BY <1>2
<1>7. RankedAs(StaticSiteMethods, "StaticSite", place)
  BY <1>1, <1>2, <1>3, <1>4, <1>5, <1>6 DEF RankedAs
<1> QED  BY <1>7

LEMMA StaticAssetDeploymentIsRanked ==
    \E place : RankedAs(StaticAssetDeploymentMethods, "StaticAssetDeployment", place)
<1> DEFINE place == <<141, 142, 143>>
<1>1. DOMAIN place = 1..3
  OBVIOUS
<1>2. /\ StaticAssetDeploymentMethods \in Seq(DOMAIN Rank)
      /\ Len(StaticAssetDeploymentMethods) = 3
  BY DEF Rank, StaticAssetDeploymentMethods
<1>3. \A i \in 1..3 : Rank[StaticAssetDeploymentMethods[i]] = place[i]
  BY DEF Rank, StaticAssetDeploymentMethods
<1>4. \A i \in 1..3 : Belongs("StaticAssetDeployment", place[i])
  BY DEF Belongs, ApiClasses, FunctionClasses, SiteClasses, BackendClasses
<1>5. \A i, j \in 1..3 : i < j => place[i] < place[j]
  OBVIOUS
<1> HIDE DEF place
<1>6. DOMAIN StaticAssetDeploymentMethods = 1..3
  BY <1>2
<1>7. RankedAs(StaticAssetDeploymentMethods, "StaticAssetDeployment", place)
  BY <1>1, <1>2, <1>3, <1>4, <1>5, <1>6 DEF RankedAs
<1> QED  BY <1>7

LEMMA ServicesAreRanked ==
    \A class \in ServiceClasses :
      \E place : RankedAs(ServiceMethods(class), class, place)
<1> SUFFICES ASSUME NEW class \in ServiceClasses
             PROVE  \E place : RankedAs(ServiceMethods(class), class, place)
  OBVIOUS
<1> DEFINE place == <<Rank[class]>>
<1>1. class \in DOMAIN Rank /\ Rank[class] \in 151..155
  BY DEF ServiceClasses, Rank
<1>2. Belongs(class, Rank[class])
  BY <1>1 DEF Belongs
<1>3. /\ ServiceMethods(class) \in Seq(DOMAIN Rank)
      /\ DOMAIN ServiceMethods(class) = 1..1 /\ ServiceMethods(class)[1] = class
      /\ DOMAIN place = 1..1 /\ place[1] = Rank[class]
  BY <1>1 DEF ServiceMethods
<1> HIDE DEF place
<1>4. RankedAs(ServiceMethods(class), class, place)
  BY <1>2, <1>3 DEF RankedAs
<1> QED  BY <1>4

LEMMA AllAreRanked ==
    ASSUME NEW class \in DOMAIN Classes
    PROVE  \E place : RankedAs(MethodsOf(class), class, place)
<1>1. /\ MethodsOf("ApiToEventBridgeTarget") = EventBridgeTargetMethods
      /\ MethodsOf("ApiToEventBridgeTargetWithSns") = WithSnsMethods
      /\ MethodsOf("ApiToLambdaTarget") = LambdaTargetMethods
      /\ MethodsOf("ApiToAnyTarget") = AnyTargetMethods
      /\ MethodsOf("RestApiLambda") = RestApiLambdaMethods
      /\ MethodsOf("RestApiLambdaWithCache") = RestApiLambdaWithCacheMethods
      /\ MethodsOf("LambdaWithIamAccess") = LambdaWithIamAccessMethods
      /\ MethodsOf("ApplicationConfiguration") = ApplicationConfigurationMethods
      /\ MethodsOf("SiteWithEcsBackend") = SiteWithEcsBackendMethods
      /\ MethodsOf("SiteWithLambdaBackend") = SiteWithLambdaBackendMethods
      /\ MethodsOf("StaticSite") = StaticSiteMethods
      /\ MethodsOf("StaticAssetDeployment") = StaticAssetDeploymentMethods
      /\ \A c \in ServiceClasses : MethodsOf(c) = ServiceMethods(c)
  BY DEF MethodsOf, Classes, Service, ServiceClasses
<1>2. CASE class \in ApiClasses
  BY <1>1, <1>2, ApiToEventBridgeTargetIsRanked,
     ApiToEventBridgeTargetWithSnsIsRanked, ApiToLambdaTargetIsRanked,
     ApiToAnyTargetIsRanked, RestApiLambdaIsRanked,
     RestApiLambdaWithCacheIsRanked DEF ApiClasses
<1>3. CASE class \in SiteClasses
  BY <1>1, <1>3, SiteWithEcsBackendIsRanked, SiteWithLambdaBackendIsRanked,
     StaticSiteIsRanked DEF SiteClasses, BackendClasses
<1>4. CASE class \in ServiceClasses
  BY <1>1, <1>4, ServicesAreRanked
<1>5. CASE class \in {"LambdaWithIamAccess", "ApplicationConfiguration",
                      "StaticAssetDeployment"}
  BY <1>1, <1>5, LambdaWithIamAccessIsRanked, ApplicationConfigurationIsRanked,
     StaticAssetDeploymentIsRanked
<1> QED  BY <1>2, <1>3, <1>4, <1>5, ClassesAre

LEMMA AllAreOrdered ==
    ASSUME NEW class \in DOMAIN Classes
    PROVE  /\ Ordered(MethodsOf(class), class)
           /\ MethodsOf(class) \in Seq(DOMAIN Rank)
<1>1. PICK place : RankedAs(MethodsOf(class), class, place)
  BY AllAreRanked
<1>2. \A i \in DOMAIN MethodsOf(class) : MethodsOf(class)[i] \in DOMAIN Rank
  BY <1>1 DEF RankedAs
<1> QED  BY <1>1, <1>2 DEF RankedAs, Ordered

LEMMA RanksAreNumbers ==
    /\ \A m \in DOMAIN Rank : Rank[m] \in Nat
    /\ \A class : \A f \in DOMAIN SetAtOf(class) : SetAtOf(class)[f] \subseteq Nat
<1>1. \A m \in DOMAIN Rank : Rank[m] \in Nat
  BY DEF Rank
<1>2. /\ \A f \in DOMAIN EventSetAt : EventSetAt[f] \subseteq Nat
      /\ \A f \in DOMAIN WithSnsSetAt : WithSnsSetAt[f] \subseteq Nat
  BY DEF EventSetAt, WithSnsSetAt
<1>3. /\ \A f \in DOMAIN TargetSetAt : TargetSetAt[f] \subseteq Nat
      /\ \A f \in DOMAIN AnyTargetSetAt : AnyTargetSetAt[f] \subseteq Nat
      /\ \A f \in DOMAIN FunctionSetAt : FunctionSetAt[f] \subseteq Nat
  BY DEF TargetSetAt, AnyTargetSetAt, FunctionSetAt
<1>4. /\ \A f \in DOMAIN ConfigurationSetAt : ConfigurationSetAt[f] \subseteq Nat
      /\ \A f \in DOMAIN AssetSetAt : AssetSetAt[f] \subseteq Nat
      /\ \A f \in DOMAIN ServiceSetAt : ServiceSetAt[f] \subseteq Nat
  BY DEF ConfigurationSetAt, AssetSetAt, ServiceSetAt
<1>5. \A f \in DOMAIN SiteSetAt : SiteSetAt[f] \subseteq Nat
  BY DEF SiteSetAt
<1>6. \A class : SetAtOf(class) \in {EventSetAt, WithSnsSetAt, TargetSetAt,
        AnyTargetSetAt, FunctionSetAt, ConfigurationSetAt, SiteSetAt,
        AssetSetAt, ServiceSetAt}
  BY DEF SetAtOf
<1>7. \A class : \A f \in DOMAIN SetAtOf(class) : SetAtOf(class)[f] \subseteq Nat
  BY <1>2, <1>3, <1>4, <1>5, <1>6
<1> QED  BY <1>1, <1>7
-----------------------------------------------------------------------------
(* What a method may do *)

LEMMA ThisIs ==
    ASSUME PlanInv
    PROVE  /\ this = plan[1] /\ 1 \in DOMAIN plan
           /\ this.class \in DOMAIN Classes
           /\ this.id \in DOMAIN fields
           /\ DOMAIN fields[this.id] = FieldsOf(this.class)
<1>1. plan \in Seq(Constructs) /\ plan # <<>>
  BY DEF PlanInv
<1>2. 1 \in DOMAIN plan /\ this = plan[1]
  BY <1>1 DEF this
<1> QED  BY <1>2 DEF PlanInv

LEMMA WhenCalled ==
    ASSUME PlanInv, NEW m, Calls(m)
    PROVE  /\ status = "synth" /\ plan' = plan
           /\ m \in Left /\ m \in DOMAIN Rank /\ Belongs(this.class, Rank[m])
           /\ Left \subseteq DOMAIN Rank /\ Left' \subseteq Left
           /\ \A s \in Left' : Rank[m] < Rank[s]
           /\ \A s \in Left : s = m \/ s \in Left'
           /\ todo' \in Seq(DOMAIN Rank) /\ Ordered(todo', this.class)
           /\ \E n \in 0..Len(InitResources(this)) :
                todo' = SubSeq(InitResources(this), n + 1, Len(InitResources(this)))
<1>1. /\ status = "synth" /\ todo # <<>> /\ Head(todo) = m
      /\ todo' = Tail(todo) /\ plan' = plan
  BY DEF Calls
<1>2. todo \in Seq(DOMAIN Rank) /\ Ordered(todo, this.class)
  BY DEF PlanInv
<1>3. /\ 1 \in DOMAIN todo /\ todo[1] = m
      /\ todo' \in Seq(DOMAIN Rank)
      /\ \A i \in DOMAIN todo' : i + 1 \in DOMAIN todo /\ todo'[i] = todo[i + 1]
                                 /\ i \in Nat /\ 1 < i + 1
      /\ \A i \in DOMAIN todo :
           i # 1 => i - 1 \in DOMAIN todo' /\ todo'[i - 1] = todo[i]
  <2>1. /\ todo' \in Seq(DOMAIN Rank) /\ Len(todo') = Len(todo) - 1
        /\ \A i \in 1..Len(todo') : todo'[i] = todo[i + 1]
    BY <1>1, <1>2, HeadTailProperties
  <2>2. ASSUME NEW i \in DOMAIN todo, i # 1
        PROVE  i - 1 \in 1..Len(todo') /\ (i - 1) + 1 = i
    BY <1>2, <2>1, <2>2
  <2>3. \A i \in DOMAIN todo :
           i # 1 => i - 1 \in DOMAIN todo' /\ todo'[i - 1] = todo[i]
    BY <2>1, <2>2
  <2>4. /\ 1 \in DOMAIN todo /\ todo[1] = m
        /\ \A i \in DOMAIN todo' : i + 1 \in DOMAIN todo /\ i \in Nat /\ 1 < i + 1
    BY <1>1, <1>2, <2>1
  <2> QED  BY <2>1, <2>3, <2>4
<1>4. m \in Left /\ m \in DOMAIN Rank /\ Belongs(this.class, Rank[m])
  BY <1>2, <1>3 DEF Left, Ordered
<1>5. Left' \subseteq Left /\ Left \subseteq DOMAIN Rank
  BY <1>2, <1>3 DEF Left, Ordered
<1>6. \A s \in Left' : Rank[m] < Rank[s]
  <2> SUFFICES ASSUME NEW i \in DOMAIN todo' PROVE Rank[m] < Rank[todo'[i]]
    BY DEF Left
  <2> QED  BY <1>2, <1>3 DEF Ordered
<1>7. \A s \in Left : s = m \/ s \in Left'
  BY <1>3 DEF Left
<1>8. Ordered(todo', this.class)
  <2>1. \A i, j \in DOMAIN todo' : i < j => i + 1 < j + 1
    BY <1>3
  <2> QED  BY <1>2, <1>3, <2>1 DEF Ordered
<1>9. \E n \in 0..Len(InitResources(this)) :
         todo' = SubSeq(InitResources(this), n + 1, Len(InitResources(this)))
  <2> DEFINE M == InitResources(this)
  <2>1. M \in Seq(DOMAIN Rank)
    BY ThisIs, AllAreOrdered DEF InitResources, MethodsOf
  <2> HIDE DEF M
  <2>2. PICK n \in 0..Len(M) : todo = SubSeq(M, n + 1, Len(M))
    BY DEF PlanInv, M
  <2>3. Len(M) \in Nat /\ n \in Nat
    BY <2>1
  <2>4. n < Len(M)
    BY <1>1, <2>2, <2>3, SubSeqEmpty
  <2>5. todo' = SubSeq(M, (n + 1) + 1, Len(M))
    <3>1. n + 1 \in 1..Len(M) /\ Len(M) \in (n + 1)..Len(M)
      BY <2>3, <2>4
    <3> QED  BY <1>1, <2>1, <2>2, <3>1, HeadTailOfSubSeq
  <2>6. n + 1 \in 0..Len(M)
    BY <2>3, <2>4
  <2> QED  BY <2>5, <2>6 DEF M
<1> QED  BY <1>1, <1>3, <1>4, <1>5, <1>6, <1>7, <1>8, <1>9

(* A method sets fields of its own construct, and declares resources that  *)
(* it builds from fields as they are.                                      *)
IsNew(r, reads) ==
    /\ r.of = this.id /\ DOMAIN r.reads \subseteq reads
    /\ \A f \in DOMAIN r.reads : r.reads[f] = Field(f)

Changes(reads, sets) ==
    /\ DOMAIN fields' = DOMAIN fields
    /\ \A id \in DOMAIN fields :
         /\ DOMAIN fields'[id] = DOMAIN fields[id]
         /\ id # this.id => fields'[id] = fields[id]
    /\ \A f \in DOMAIN fields[this.id] :
         f \in sets \/ fields'[this.id][f] = Field(f)
    /\ template \subseteq template'
    /\ \A r \in template' : r \in template \/ IsNew(r, reads)
    /\ status' \in {status, "thrown"}

KeepsProps ==
    /\ DOMAIN props' = DOMAIN props
    /\ \A p \in DOMAIN props \ ChangedProps : props'[p] = props[p]

(* Two methods read the default responses before they are set.             *)
TakingDefaults ==
    {"createApiToEventBridgeTargetRestApi", "createApiDestinedRestApi"}

Defaulted(m) == IF m \in TakingDefaults THEN DefaultResponses ELSE {}

(* What it reads else was set by those before it, or by none.              *)
Fits(m, reads, sets) ==
    /\ reads \subseteq FieldsOf(this.class)
    /\ \A f \in reads \union sets : f \in DOMAIN SetAt
    /\ \A f \in reads : \A r \in SetAt[f] :
         IF f \in Defaulted(m) THEN Rank[m] < r ELSE r < Rank[m]
    /\ \A f \in sets : Rank[m] \in SetAt[f]

Method(m, reads, sets) ==
    /\ Calls(m) /\ Changes(reads, sets) /\ Fits(m, reads, sets)
    /\ KeepsProps /\ PropsInv'
    /\ \A r \in template' \ template :
         \A f \in DOMAIN r.reads \intersect DefaultResponses :
           TakesDefaults(r) <=> m \in TakingDefaults

LEMMA CallKeepsPlan ==
    ASSUME PlanInv, NEW m, Calls(m), DOMAIN fields' = DOMAIN fields,
           \A id \in DOMAIN fields : DOMAIN fields'[id] = DOMAIN fields[id],
           status' \in {status, "thrown"}
    PROVE  PlanInv'
<1>1. /\ status = "synth" /\ plan' = plan
      /\ todo' \in Seq(DOMAIN Rank) /\ Ordered(todo', this.class)
      /\ \E n \in 0..Len(InitResources(this)) :
           todo' = SubSeq(InitResources(this), n + 1, Len(InitResources(this)))
  BY WhenCalled
<1>2. this' = this
  BY <1>1 DEF this
<1>3. /\ Ordered(todo, this.class)' /\ (todo \in Seq(DOMAIN Rank))'
      /\ (\E n \in 0..Len(InitResources(this)) :
            todo = SubSeq(InitResources(this), n + 1, Len(InitResources(this))))'
  BY <1>1, <1>2 DEF Ordered, InitResources
<1> QED  BY <1>1, <1>3 DEF PlanInv

LEMMA MethodKeeps ==
    ASSUME BuiltInv, NEW m, NEW reads, NEW sets, Method(m, reads, sets)
    PROVE  BuiltInv'
<1>1. /\ PlanInv /\ FieldsInv /\ TemplateInv
      /\ Calls(m) /\ Changes(reads, sets) /\ Fits(m, reads, sets) /\ PropsInv'
  BY DEF Method, BuiltInv
<1>2. /\ m \in Left /\ m \in DOMAIN Rank /\ Left \subseteq DOMAIN Rank
      /\ Left' \subseteq Left /\ \A s \in Left' : Rank[m] < Rank[s]
      /\ plan' = plan
  BY <1>1, WhenCalled
<1>3. this' = this /\ SetAt' = SetAt
  BY <1>2 DEF this, SetAt
<1>4. this = plan[1] /\ this.id \in DOMAIN fields /\ 1 \in DOMAIN plan
      /\ DOMAIN fields[this.id] = FieldsOf(this.class)
  BY <1>1, ThisIs
<1>5. /\ \A s \in DOMAIN Rank : Rank[s] \in Nat
      /\ \A f \in DOMAIN SetAt : SetAt[f] \subseteq Nat
  BY RanksAreNumbers DEF SetAt
<1>6. PlanInv'
  BY <1>1, CallKeepsPlan DEF Changes
<1>7. ASSUME NEW f \in DOMAIN SetAt, \A r \in SetAt[f] : r < Rank[m]
      PROVE  f \notin sets /\ Settled(f)'
  <2>1. Rank[m] \in Nat
    BY <1>2, <1>5
  <2>2. f \notin sets
    BY <1>1, <1>7, <2>1 DEF Fits
  <2>3. \A r \in SetAt[f] : \A s \in Left' : Rank[s] > r
    <3> SUFFICES ASSUME NEW r \in SetAt[f], NEW s \in Left'
                 PROVE  Rank[s] > r
      OBVIOUS
    <3>1. r \in Nat /\ Rank[s] \in Nat
      BY <1>2, <1>5
    <3> QED  BY <1>2, <1>7, <2>1, <3>1
  <2> QED  BY <1>3, <2>2, <2>3 DEF Settled
<1>8. ASSUME NEW f, Settled(f)
      PROVE  f \notin sets /\ Settled(f)'
  BY <1>2, <1>5, <1>7, <1>8 DEF Settled
<1>9. FieldsInv'
  <2>1. \A id \in DOMAIN fields' : \E class \in DOMAIN Classes :
           DOMAIN fields'[id] = FieldsOf(class)
    BY <1>1 DEF FieldsInv, Changes
  <2>2. ASSUME NEW f \in DOMAIN fields[this.id], fields'[this.id][f] # NotSet
        PROVE  /\ f \in DOMAIN SetAt
               /\ \E r \in SetAt[f] : \A s \in Left' : Rank[s] > r
    <3>1. CASE f \in sets
      <4>1. f \in DOMAIN SetAt /\ Rank[m] \in SetAt[f]
        BY <1>1, <3>1 DEF Fits
      <4>2. \A s \in Left' : Rank[s] > Rank[m]
        BY <1>2, <1>5
      <4> QED  BY <4>1, <4>2
    <3>2. CASE f \notin sets
      <4>1. IsSet(f)
        BY <1>1, <2>2, <3>2 DEF Changes, IsSet
      <4> QED  BY <1>1, <1>2, <4>1 DEF FieldsInv
    <3> QED  BY <3>1, <3>2
  <2>3. DOMAIN fields'[this.id] = DOMAIN fields[this.id]
    BY <1>1, <1>4 DEF Changes
  <2>4. \A i \in DOMAIN plan' : i # 1 =>
           fields'[plan'[i].id] = [f \in FieldsOf(plan'[i].class) |-> NotSet]
    <3> SUFFICES ASSUME NEW i \in DOMAIN plan, i # 1
                 PROVE  fields'[plan[i].id] = [f \in FieldsOf(plan[i].class) |-> NotSet]
      BY <1>2
    <3>1. plan[i].id \in DOMAIN fields /\ plan[i].id # this.id
      BY <1>1, <1>4 DEF PlanInv
    <3> QED  BY <1>1, <3>1 DEF FieldsInv, Changes
  <2> QED  BY <1>3, <2>1, <2>2, <2>3, <2>4 DEF FieldsInv, Field, IsSet
<1>10. TemplateInv'
  <2> SUFFICES ASSUME NEW r \in template'
               PROVE  /\ r.of \in DOMAIN fields'
                      /\ \A i \in DOMAIN plan : r.of = plan[i].id => i = 1
                      /\ DOMAIN r.reads \subseteq DOMAIN fields'[r.of]
                      /\ \A f \in DOMAIN r.reads :
                           IF f \in DefaultResponses /\ TakesDefaults(r)'
                           THEN r.reads[f] = NotSet
                           ELSE /\ r.reads[f] = fields'[r.of][f]
                                /\ r.of = this.id => Settled(f)'
    BY <1>2, <1>3 DEF TemplateInv
  <2>1. ASSUME r.of \in DOMAIN fields
        PROVE  /\ TakesDefaults(r)' <=> TakesDefaults(r)
               /\ r.of \in DOMAIN fields' /\ DOMAIN fields'[r.of] = DOMAIN fields[r.of]
               /\ r.of # this.id => fields'[r.of] = fields[r.of]
    BY <1>1, <2>1 DEF Changes, TakesDefaults, IsOf
  <2>2. CASE r \in template
    <3>1. /\ r.of \in DOMAIN fields
          /\ \A i \in DOMAIN plan : r.of = plan[i].id => i = 1
          /\ DOMAIN r.reads \subseteq DOMAIN fields[r.of]
      BY <1>1, <2>2 DEF TemplateInv
    <3>2. ASSUME NEW f \in DOMAIN r.reads,
                 ~(f \in DefaultResponses /\ TakesDefaults(r))
          PROVE  /\ r.reads[f] = fields'[r.of][f]
                 /\ r.of = this.id => Settled(f)'
      <4>1. /\ r.reads[f] = fields[r.of][f]
            /\ r.of = this.id => Settled(f)
        BY <1>1, <2>2, <3>2 DEF TemplateInv
      <4>2. CASE r.of # this.id
        BY <2>1, <3>1, <4>1, <4>2
      <4>3. CASE r.of = this.id
        <5>1. f \notin sets /\ Settled(f)'
          BY <1>8, <4>1, <4>3
        <5>2. fields'[this.id][f] = Field(f)
          BY <1>1, <3>1, <4>3, <5>1 DEF Changes
        <5> QED  BY <4>1, <4>3, <5>1, <5>2 DEF Field
      <4> QED  BY <4>2, <4>3
    <3>3. ASSUME NEW f \in DOMAIN r.reads,
                 f \in DefaultResponses /\ TakesDefaults(r)
          PROVE  r.reads[f] = NotSet
      BY <1>1, <2>2, <3>3 DEF TemplateInv
    <3> QED  BY <2>1, <3>1, <3>2, <3>3
  <2>3. CASE r \notin template
    <3>1. IsNew(r, reads)
      BY <1>1, <2>3 DEF Changes
    <3>2. /\ r.of = this.id /\ DOMAIN r.reads \subseteq reads
          /\ \A f \in DOMAIN r.reads : r.reads[f] = Field(f)
      BY <3>1 DEF IsNew
    <3>3. r.of \in DOMAIN fields /\ reads \subseteq DOMAIN fields[this.id]
      BY <1>1, <1>4, <3>2 DEF Fits
    <3>4. \A i \in DOMAIN plan : r.of = plan[i].id => i = 1
      BY <1>1, <1>4, <3>2 DEF PlanInv
    <3>5. \A f \in DOMAIN r.reads \intersect DefaultResponses :
             TakesDefaults(r) <=> m \in TakingDefaults
      BY <2>3 DEF Method
    <3>6. ASSUME NEW f \in DOMAIN r.reads, f \in Defaulted(m)
          PROVE  f \in DefaultResponses /\ TakesDefaults(r) /\ r.reads[f] = NotSet
      <4>1. f \in DefaultResponses /\ m \in TakingDefaults
        BY <3>6 DEF Defaulted
      <4>2. f \in reads /\ f \in DOMAIN fields[this.id]
        BY <3>2, <3>3
      <4>3. f \in DOMAIN SetAt /\ \A s \in SetAt[f] : Rank[m] < s
        BY <1>1, <3>6, <4>2 DEF Fits
      <4>4. ~IsSet(f)
        BY <1>1, <1>2, <1>5, <4>2, <4>3 DEF FieldsInv
      <4> QED  BY <3>2, <3>5, <4>1, <4>4 DEF IsSet
    <3>7. ASSUME NEW f \in DOMAIN r.reads, f \notin Defaulted(m)
          PROVE  /\ ~(f \in DefaultResponses /\ TakesDefaults(r))
                 /\ r.reads[f] = fields'[r.of][f]
                 /\ Settled(f)'
      <4>1. ~(f \in DefaultResponses /\ TakesDefaults(r))
        BY <3>5, <3>7 DEF Defaulted
      <4>2. f \in reads /\ f \in DOMAIN fields[this.id]
        BY <3>2, <3>3
      <4>3. f \in DOMAIN SetAt /\ \A s \in SetAt[f] : s < Rank[m]
        BY <1>1, <3>7, <4>2 DEF Fits
      <4>4. f \notin sets /\ Settled(f)'
        BY <1>7, <4>3
      <4>5. fields'[this.id][f] = Field(f)
        BY <1>1, <4>2, <4>4 DEF Changes
      <4> QED  BY <3>2, <4>1, <4>4, <4>5
    <3>8. DOMAIN r.reads \subseteq DOMAIN fields'[r.of]
      BY <2>1, <3>2, <3>3
    <3>9. \A f \in DOMAIN r.reads :
             IF f \in DefaultResponses /\ TakesDefaults(r)'
             THEN r.reads[f] = NotSet
             ELSE /\ r.reads[f] = fields'[r.of][f]
                  /\ r.of = this.id => Settled(f)'
      BY <2>1, <3>3, <3>6, <3>7
    <3> QED  BY <2>1, <3>3, <3>4, <3>8, <3>9
  <2> QED  BY <2>2, <2>3
<1> QED  BY <1>1, <1>6, <1>9, <1>10 DEF BuiltInv
-----------------------------------------------------------------------------
(* What the managers declare *)

ReadsOnly(resources, reads) == \A r \in resources : IsNew(r, reads)

LEMMA ChildReads ==
    /\ \A id, reads : ReadsOnly(Child(id, reads), reads)
    /\ \A id, suffix, reads : ReadsOnly(Suffixed(id, suffix, reads), reads)
<1>1. \A id, reads : IsNew(Resource(id, reads), reads)
  BY DEF IsNew, Resource
<1> QED  BY <1>1 DEF ReadsOnly, Suffixed, Child

LEMMA LessReads ==
    ASSUME NEW reads, NEW some \in SUBSET reads
    PROVE  /\ \A id : ReadsOnly(Child(id, some), reads)
           /\ \A id, suffix : ReadsOnly(Suffixed(id, suffix, some), reads)
BY ChildReads DEF ReadsOnly, IsNew

LEMMA UnionReads ==
    ASSUME NEW reads, NEW R, NEW S, ReadsOnly(R, reads), ReadsOnly(S, reads)
    PROVE  ReadsOnly(R \union S, reads)
BY DEF ReadsOnly

LEMMA WhenReads ==
    ASSUME NEW reads, NEW condition, NEW R, ReadsOnly(R, reads)
    PROVE  ReadsOnly(When(condition, R), reads)
BY DEF ReadsOnly, When

LEMMA UnionsRead ==
    ASSUME NEW reads, NEW F, \A R \in F : ReadsOnly(R, reads)
    PROVE  ReadsOnly(UNION F, reads)
BY DEF ReadsOnly

LEMMA NothingReads == \A reads : ReadsOnly({}, reads)
BY DEF ReadsOnly

LEMMA BuildsChanges ==
    ASSUME PlanInv, NEW needs, NEW resources, NEW values, NEW reads, NEW sets,
           Builds(needs, resources, values), ReadsOnly(resources, reads),
           DOMAIN values \subseteq sets
    PROVE  Changes(reads, sets)
<1>1. this.id \in DOMAIN fields
  BY ThisIs
<1>2. CASE Lacks(needs) \/ Clashes(resources)
  BY <1>2 DEF Builds, Changes, Field
<1>3. CASE ~(Lacks(needs) \/ Clashes(resources))
  <2>1. template' = template \union resources /\ fields' = With(values)
        /\ status' = status
    BY <1>3 DEF Builds
  <2>2. /\ DOMAIN fields' = DOMAIN fields
        /\ \A id \in DOMAIN fields :
             /\ DOMAIN fields'[id] = DOMAIN fields[id]
             /\ id # this.id => fields'[id] = fields[id]
    BY <1>1, <2>1 DEF With
  <2>3. \A f \in DOMAIN fields[this.id] :
           f \in sets \/ fields'[this.id][f] = Field(f)
    BY <1>1, <2>1 DEF With, Field
  <2>4. \A r \in template' : r \in template \/ IsNew(r, reads)
    BY <2>1 DEF ReadsOnly
  <2> QED  BY <2>1, <2>2, <2>3, <2>4 DEF Changes
<1> QED  BY <1>2, <1>3

LEMMA CreatesChanges ==
    ASSUME PlanInv, PropsInv, NEW needs, NEW resources, NEW values,
           NEW reads, NEW sets, Creates(needs, resources, values),
           ReadsOnly(resources, reads), DOMAIN values \subseteq sets
    PROVE  Changes(reads, sets) /\ KeepsProps /\ PropsInv'
<1>1. Builds(needs, resources, values) /\ props' = props
  BY DEF Creates
<1>2. Changes(reads, sets)
  BY <1>1, BuildsChanges
<1> QED  BY <1>1, <1>2 DEF KeepsProps, PropsInv

LEMMA SetsChanges ==
    ASSUME PlanInv, PropsInv, NEW values, NEW reads, NEW sets, Sets(values),
           DOMAIN values \subseteq sets
    PROVE  /\ Changes(reads, sets) /\ KeepsProps /\ PropsInv'
           /\ template' \subseteq template
<1>1. Creates({}, {}, values)
  BY DEF Sets
<1>2. Changes(reads, sets) /\ KeepsProps /\ PropsInv'
  BY <1>1, NothingReads, CreatesChanges
<1> QED  BY <1>1, <1>2 DEF Creates, Builds

LEMMA StillChanges ==
    ASSUME PropsInv, NEW reads, NEW sets, Returns \/ Throws
    PROVE  /\ Changes(reads, sets) /\ KeepsProps /\ PropsInv'
           /\ template' \subseteq template
<1>1. props' = props
  BY DEF Returns, Throws
<1>2. Changes(reads, sets) /\ template' \subseteq template
  BY DEF Returns, Throws, Changes, Field
<1> QED  BY <1>1, <1>2 DEF KeepsProps, PropsInv

(* Unless it reads the default responses, nothing is to show of them.      *)
LEMMA PlainMethod ==
    ASSUME NEW m, NEW reads, NEW sets,
           Calls(m), Changes(reads, sets), Fits(m, reads, sets), KeepsProps,
           PropsInv', reads \intersect DefaultResponses = {}
    PROVE  Method(m, reads, sets)
BY DEF Method, Changes, IsNew


(* What a method of a class may do that keeps the invariant: it declares   *)
(* and sets as Changes has it, and leaves the props as they may be.        *)
Plain(reads, sets) == Changes(reads, sets) /\ KeepsProps /\ PropsInv'

AMethod == \E m, reads, sets : Method(m, reads, sets)

LEMMA CreatesPlain ==
    ASSUME BuiltInv, NEW needs, NEW resources, NEW values, NEW reads, NEW sets,
           Creates(needs, resources, values), ReadsOnly(resources, reads),
           DOMAIN values \subseteq sets
    PROVE  Plain(reads, sets)
BY CreatesChanges DEF Plain, BuiltInv

LEMMA SetsPlain ==
    ASSUME BuiltInv, NEW values, NEW reads, NEW sets, Sets(values),
           DOMAIN values \subseteq sets
    PROVE  Plain(reads, sets) /\ template' \subseteq template
BY SetsChanges DEF Plain, BuiltInv

LEMMA StillPlain ==
    ASSUME BuiltInv, NEW reads, NEW sets, Returns \/ Throws
    PROVE  Plain(reads, sets) /\ template' \subseteq template
BY StillChanges DEF Plain, BuiltInv

LEMMA PlainIsMethod ==
    ASSUME BuiltInv, NEW m, NEW reads, NEW sets, Calls(m),
           Plain(reads, sets), Fits(m, reads, sets),
           reads \intersect DefaultResponses = {}
    PROVE  AMethod
BY PlainMethod DEF AMethod, Plain

LEMMA WhoCalls ==
    ASSUME BuiltInv, NEW m, Calls(m)
    PROVE  /\ Belongs(this.class, Rank[m]) /\ this.class \in DOMAIN Classes
           /\ SetAt = SetAtOf(this.class)
BY WhenCalled, ThisIs DEF BuiltInv, SetAt

(* One that also changes a prop: one of those that may change.             *)
LEMMA BuildsPlain ==
    ASSUME BuiltInv, NEW needs, NEW resources, NEW values, NEW reads, NEW sets,
           Builds(needs, resources, values), ReadsOnly(resources, reads),
           DOMAIN values \subseteq sets,
           NEW prop \in ChangedProps, NEW value,
           props' = [props EXCEPT ![prop] = value],
           prop = "rulePattern" => value \in {NotSet, "callers", "default"},
           prop = "certificateArn" =>
             value \in {NotSet, "callers", "callersAbroad", "parameter"}
    PROVE  Plain(reads, sets)
<1>1. Changes(reads, sets)
  BY BuildsChanges DEF BuiltInv
<1>2. ChangedProps \subseteq DOMAIN props
  BY DEF BuiltInv, PropsInv
<1>3. KeepsProps
  BY <1>2 DEF KeepsProps
<1>4. PropsInv'
  BY <1>2 DEF BuiltInv, PropsInv, ChangedProps
<1> QED  BY <1>1, <1>3, <1>4 DEF Plain

(* Those that throw after they have changed it.                            *)
LEMMA ThrowsPlain ==
    ASSUME BuiltInv, NEW reads, NEW sets,
           status' = "thrown", UNCHANGED <<fields, template>>,
           NEW prop \in ChangedProps, NEW value,
           props' = [props EXCEPT ![prop] = value],
           prop \notin {"rulePattern", "certificateArn"}
    PROVE  Plain(reads, sets) /\ template' \subseteq template
<1>1. Changes(reads, sets)
  BY DEF Changes, Field
<1>2. ChangedProps \subseteq DOMAIN props
  BY DEF BuiltInv, PropsInv
<1>3. KeepsProps
  BY <1>2 DEF KeepsProps
<1>4. PropsInv'
  BY <1>2 DEF BuiltInv, PropsInv, ChangedProps
<1> QED  BY <1>1, <1>3, <1>4 DEF Plain

ApiReads == {"integration"} \union DefaultResponses

(* An API reads the default responses that are still to be set.            *)
LEMMA NewApiIsMethod ==
    ASSUME BuiltInv, NEW m, NEW id, Calls(m), Fits(m, ApiReads, {"api"}),
           IF ImportsApi THEN ImportApi(id) ELSE NewApi(id),
           (\/ id = <<"rest-api">> /\ IsOf(this.id, "ApiToEventBridgeTarget")
            \/ id = <<"sns-rest-api">>) <=> m \in TakingDefaults
    PROVE  AMethod
<1>1. ReadsOnly(Child(id, {}), ApiReads) /\ ReadsOnly(AccessLog, ApiReads)
  BY LessReads DEF AccessLog, LogGroup
<1>2. ReadsOnly(AccessLog \union Child(id, ApiReads), ApiReads)
  BY <1>1, ChildReads, UnionReads
<1>3. Plain(ApiReads, {"api"})
  BY <1>1, <1>2, CreatesPlain, StillPlain DEF ImportApi, NewApi, ApiReads
<1>4. ASSUME NEW r \in template' \ template,
             NEW f \in DOMAIN r.reads \intersect DefaultResponses
      PROVE  TakesDefaults(r) <=> m \in TakingDefaults
  <2>1. \/ r \in Child(id, {})
        \/ r \in Child(<<"rest-api-access-log">>, {})
        \/ r \in Child(id, ApiReads)
    BY <1>4 DEF ImportApi, NewApi, Creates, Builds, Throws, AccessLog,
                LogGroup, ApiReads
  <2>2. r.id = id /\ r.of = this.id
    BY <1>4, <2>1 DEF Child, Resource
  <2> QED  BY <2>2 DEF TakesDefaults
<1> QED  BY <1>3, <1>4 DEF AMethod, Method, Plain

(* A method of the API reads them when they are set.                       *)
LEMMA AddMethodIsMethod ==
    ASSUME BuiltInv, NEW m, m \notin TakingDefaults, Calls(m), AddMethod,
           Fits(m, MethodReads, {"method"})
    PROVE  AMethod
<1>1. Plain(MethodReads, {"method"})
  BY ChildReads, CreatesPlain, StillPlain DEF AddMethod, IfWithResource
<1>2. ASSUME NEW r \in template' \ template
      PROVE  ~TakesDefaults(r)
  <2>1. r \in Child(<<"POST">>, MethodReads)
    BY <1>2 DEF AddMethod, IfWithResource, Creates, Builds, Returns
  <2>2. r.id = <<"POST">>
    BY <2>1 DEF Child, Resource
  <2>3. <<"POST">> # <<"rest-api">> /\ <<"POST">> # <<"sns-rest-api">>
    OBVIOUS
  <2> QED  BY <2>2, <2>3 DEF TakesDefaults
<1> QED  BY <1>1, <1>2 DEF AMethod, Method, Plain

LEMMA AddResourcePlain ==
    ASSUME BuiltInv, NEW path, AddResource(path)
    PROVE  Plain({"api"}, {"resource"})
BY ChildReads, WhenReads, UnionReads, CreatesPlain, StillPlain
DEF AddResource, IfWithResource, RootResource, ApiResource

LEMMA ManagersRead ==
    ASSUME NEW reads, NEW id
    PROVE  /\ ReadsOnly(RoleForLambdaResources(id, reads), reads)
           /\ ReadsOnly(LambdaRestApi(id, reads), reads)
           /\ ReadsOnly(LambdaFunction(id, reads), reads)
           /\ ReadsOnly(ReplicatedElastiCache(id, reads), reads)
           /\ ReadsOnly(S3Bucket(id, reads), reads)
<1>1. \A name, suffix : /\ ReadsOnly(Child(name, reads), reads)
                        /\ ReadsOnly(Child(name, {}), reads)
                        /\ ReadsOnly(Suffixed(name, suffix, reads), reads)
                        /\ ReadsOnly(Suffixed(name, suffix, {}), reads)
  BY ChildReads, LessReads
<1>2. \A alias : ReadsOnly(AliasResources(id, alias), reads)
  BY <1>1, WhenReads, UnionReads
  DEF AliasResources, LambdaFunctionAlias, ProvisionedConcurrencyTarget
<1>3. ReadsOnly(UNION {AliasResources(id, props.aliases[i]) :
                         i \in DOMAIN props.aliases}, reads)
  BY <1>2 DEF ReadsOnly
<1>4. ReadsOnly(RoleForLambdaResources(id, reads), reads)
  BY <1>1, UnionReads DEF RoleForLambdaResources
<1>5. ReadsOnly(LambdaRestApi(id, reads), reads)
  BY <1>1, UnionReads DEF LambdaRestApi
<1>6. ReadsOnly(LambdaFunction(id, reads), reads)
  BY <1>1, <1>3, UnionReads DEF LambdaFunction
<1>7. ReadsOnly(ReplicatedElastiCache(id, reads), reads)
  BY <1>1, UnionReads DEF ReplicatedElastiCache
<1>8. ReadsOnly(S3Bucket(id, reads), reads)
  BY <1>1 DEF S3Bucket
<1> QED  BY <1>4, <1>5, <1>6, <1>7, <1>8

(* Of a class without events an API takes no default responses that are    *)
(* still to be set.                                                        *)
LEMMA OtherIsMethod ==
    ASSUME BuiltInv, NEW m, m \notin TakingDefaults, NEW reads, NEW sets,
           Calls(m), Plain(reads, sets), Fits(m, reads, sets),
           ~IsOf(this.id, "ApiToEventBridgeTarget"),
           \A r \in template' \ template : r.id # <<"sns-rest-api">>
    PROVE  AMethod
<1>1. ASSUME NEW r \in template' \ template
      PROVE  ~TakesDefaults(r)
  <2>1. r.of = this.id
    BY <1>1 DEF Plain, Changes, IsNew
  <2> QED  BY <1>1, <2>1 DEF TakesDefaults
<1> QED  BY <1>1 DEF AMethod, Method, Plain

LEMMA PolicyPlain ==
    ASSUME BuiltInv, NEW described, NEW policy, NEW id,
           Policy(described, policy, id)
    PROVE  Plain({}, {policy})
<1> DEFINE values == [f \in {policy} |-> this.id]
           behavior == [props.defaultBehavior EXCEPT ![policy] = this.id]
<1>1. DOMAIN values \subseteq {policy} /\ ReadsOnly(Child(id, {}), {})
  BY ChildReads
<1>2. CASE described = NotSet \/ described = "unnamed" \/ ~props.siteDistribution
  BY <1>2, StillPlain DEF Policy
<1>3. CASE ~(described = NotSet \/ described = "unnamed" \/ ~props.siteDistribution)
  <2>1. props' = Assigned(policy, this.id) /\ Builds({}, Child(id, {}), values)
    BY <1>3 DEF Policy
  <2>2. CASE props.defaultBehavior = NotSet
    <3>1. Creates({}, Child(id, {}), values)
      BY <2>1, <2>2 DEF Assigned, Creates
    <3> HIDE DEF values
    <3> QED  BY <1>1, <3>1, CreatesPlain
  <2>3. CASE props.defaultBehavior # NotSet
    <3>1. props' = [props EXCEPT !.defaultBehavior = behavior]
      BY <2>1, <2>3 DEF Assigned
    <3> HIDE DEF values, behavior
    <3> QED  BY <1>1, <2>1, <3>1, BuildsPlain DEF ChangedProps
  <2> QED  BY <2>2, <2>3
<1> QED  BY <1>2, <1>3
-----------------------------------------------------------------------------
(* ApiToEventBridgeTarget *)

LEMMA EventBridgeTargetIs ==
    ASSUME BuiltInv, NEW m \in DOMAIN Rank, Rank[m] \in 11..27, Calls(m)
    PROVE  SetAt = EventSetAt /\ FieldsOf(this.class) = EventBridgeTargetFields
BY WhoCalls, FieldsAre DEF Belongs, SetAtOf

LEMMA EventBridgeTargetMethod ==
    ASSUME BuiltInv, ApiToEventBridgeTargetStep
    PROVE  AMethod
<1>1. CASE CreateApiToEventBridgeTargetEventBus
  <2>1. Calls("createApiToEventBridgeTargetEventBus")
    BY <1>1 DEF CreateApiToEventBridgeTargetEventBus
  <2>2. Fits("createApiToEventBridgeTargetEventBus", {}, {"eventBus"})
    BY <2>1, EventBridgeTargetIs DEF Fits, EventSetAt, Rank
  <2>3. Plain({}, {"eventBus"})
    BY <1>1, ChildReads, CreatesPlain, StillPlain
    DEF CreateApiToEventBridgeTargetEventBus, EventBus
  <2> QED  BY <2>1, <2>2, <2>3, PlainIsMethod
<1>2. CASE CreateApiToEventBridgeTargetLogGroup
  <2>1. Calls("createApiToEventBridgeTargetLogGroup")
    BY <1>2 DEF CreateApiToEventBridgeTargetLogGroup
  <2>2. Fits("createApiToEventBridgeTargetLogGroup", {}, {"logGroup"})
    BY <2>1, EventBridgeTargetIs DEF Fits, EventSetAt, Rank
  <2>3. Plain({}, {"logGroup"})
    BY <1>2, ChildReads, CreatesPlain, StillPlain
    DEF CreateApiToEventBridgeTargetLogGroup, IfOwned, LogGroup
  <2> QED  BY <2>1, <2>2, <2>3, PlainIsMethod
<1>3. CASE CreateApiToEventBridgeTargetRule
  <2>1. Calls("createApiToEventBridgeTargetRule")
    BY <1>3 DEF CreateApiToEventBridgeTargetRule
  <2>2. Fits("createApiToEventBridgeTargetRule", {"eventBus", "logGroup"},
             {"rule"})
    BY <2>1, EventBridgeTargetIs
    DEF Fits, EventSetAt, Rank, Defaulted, TakingDefaults,
        EventBridgeTargetFields, EventApiFields, ApiFields
  <2>3. Plain({"eventBus", "logGroup"}, {"rule"})
    BY <1>3, ChildReads, BuildsPlain, StillPlain
    DEF CreateApiToEventBridgeTargetRule, IfOwned, Rule, RulePattern, BuiltInv,
        PropsInv, ChangedProps
  <2> QED  BY <2>1, <2>2, <2>3, PlainIsMethod DEF DefaultResponses
<1>4. CASE CreateApiToEventBridgeTargetPolicy
  <2>1. Calls("createApiToEventBridgeTargetPolicy")
    BY <1>4 DEF CreateApiToEventBridgeTargetPolicy
  <2>2. Fits("createApiToEventBridgeTargetPolicy", {}, {"policy"})
    BY <2>1, EventBridgeTargetIs DEF Fits, EventSetAt, Rank
  <2>3. Plain({}, {"policy"})
    BY <1>4, SetsPlain, StillPlain DEF CreateApiToEventBridgeTargetPolicy
  <2> QED  BY <2>1, <2>2, <2>3, PlainIsMethod
<1>5. CASE CreateApiToEventBridgeTargetRole
  <2>1. Calls("createApiToEventBridgeTargetRole")
    BY <1>5 DEF CreateApiToEventBridgeTargetRole
  <2>2. Fits("createApiToEventBridgeTargetRole", {"policy"}, {"role"})
    BY <2>1, EventBridgeTargetIs
    DEF Fits, EventSetAt, Rank, Defaulted, TakingDefaults,
        EventBridgeTargetFields, EventApiFields, ApiFields
  <2>3. Plain({"policy"}, {"role"})
    BY <1>5, ChildReads, CreatesPlain, StillPlain
    DEF CreateApiToEventBridgeTargetRole
  <2> QED  BY <2>1, <2>2, <2>3, PlainIsMethod DEF DefaultResponses
<1>6. CASE CreateApiToEventBridgeTargetIntegrationRequestParameters
  <2>1. Calls("createApiToEventBridgeTargetIntegrationRequestParameters")
    BY <1>6 DEF CreateApiToEventBridgeTargetIntegrationRequestParameters
  <2>2. Fits("createApiToEventBridgeTargetIntegrationRequestParameters", {},
             {"integrationRequestParameters"})
    BY <2>1, EventBridgeTargetIs DEF Fits, EventSetAt, Rank
  <2>3. Plain({}, {"integrationRequestParameters"})
    BY <1>6, SetsPlain, StillPlain
    DEF CreateApiToEventBridgeTargetIntegrationRequestParameters,
        RequestParameters, IfWithResource
  <2> QED  BY <2>1, <2>2, <2>3, PlainIsMethod
<1>7. CASE CreateApiToEventBridgeTargetIntegrationRequestTemplates
  <2>1. Calls("createApiToEventBridgeTargetIntegrationRequestTemplates")
    BY <1>7 DEF CreateApiToEventBridgeTargetIntegrationRequestTemplates
  <2>2. Fits("createApiToEventBridgeTargetIntegrationRequestTemplates", {},
             {"integrationRequestTemplates"})
    BY <2>1, EventBridgeTargetIs DEF Fits, EventSetAt, Rank
  <2>3. Plain({}, {"integrationRequestTemplates"})
    BY <1>7, SetsPlain, StillPlain
    DEF CreateApiToEventBridgeTargetIntegrationRequestTemplates, IfWithResource
  <2> QED  BY <2>1, <2>2, <2>3, PlainIsMethod
<1>8. CASE CreateApiToEventBridgeTargetIntegrationResponse
  <2>1. Calls("createApiToEventBridgeTargetIntegrationResponse")
    BY <1>8 DEF CreateApiToEventBridgeTargetIntegrationResponse
  <2>2. Fits("createApiToEventBridgeTargetIntegrationResponse", {},
             {"integrationResponse"})
    BY <2>1, EventBridgeTargetIs DEF Fits, EventSetAt, Rank
  <2>3. Plain({}, {"integrationResponse"})
    BY <1>8, SetsPlain, StillPlain
    DEF CreateApiToEventBridgeTargetIntegrationResponse, IntegrationResponse,
        IfWithResource
  <2> QED  BY <2>1, <2>2, <2>3, PlainIsMethod
<1>9. CASE CreateApiToEventBridgeTargetIntegrationErrorResponse
  <2>1. Calls("createApiToEventBridgeTargetIntegrationErrorResponse")
    BY <1>9 DEF CreateApiToEventBridgeTargetIntegrationErrorResponse
  <2>2. Fits("createApiToEventBridgeTargetIntegrationErrorResponse", {},
             {"integrationErrorResponse"})
    BY <2>1, EventBridgeTargetIs DEF Fits, EventSetAt, Rank
  <2>3. Plain({}, {"integrationErrorResponse"})
    BY <1>9, SetsPlain, StillPlain
    DEF CreateApiToEventBridgeTargetIntegrationErrorResponse,
        IntegrationErrorResponse, IfWithResource
  <2> QED  BY <2>1, <2>2, <2>3, PlainIsMethod
<1>10. CASE CreateApiToEventBridgeTargetIntegration
  <2>1. Calls("createApiToEventBridgeTargetIntegration")
    BY <1>10 DEF CreateApiToEventBridgeTargetIntegration
  <2>2. Fits("createApiToEventBridgeTargetIntegration", {}, {"integration"})
    BY <2>1, EventBridgeTargetIs DEF Fits, EventSetAt, Rank
  <2>3. Plain({}, {"integration"})
    BY <1>10, SetsPlain, StillPlain
    DEF CreateApiToEventBridgeTargetIntegration, Integrates, IfWithResource
  <2> QED  BY <2>1, <2>2, <2>3, PlainIsMethod
<1>11. CASE CreateApiToEventBridgeTargetRestApi
  <2>1. Calls("createApiToEventBridgeTargetRestApi")
    BY <1>11 DEF CreateApiToEventBridgeTargetRestApi
  <2>2. Fits("createApiToEventBridgeTargetRestApi", ApiReads, {"api"})
    BY <2>1, EventBridgeTargetIs
    DEF Fits, EventSetAt, Rank, Defaulted, TakingDefaults,
        EventBridgeTargetFields, EventApiFields, ApiFields, ApiReads,
        DefaultResponses
  <2>3. IsOf(this.id, "ApiToEventBridgeTarget")
    BY <2>1, EventBridgeTargetIs, FieldsAre, ThisIs
    DEF IsOf, FieldsOf, Rank, BuiltInv
  <2> QED  BY <1>11, <2>1, <2>2, <2>3, NewApiIsMethod
            DEF CreateApiToEventBridgeTargetRestApi, TakingDefaults
<1>12. CASE CreateApiToEventBridgeTargetResource
  <2>1. Calls("createApiToEventBridgeTargetResource")
    BY <1>12 DEF CreateApiToEventBridgeTargetResource
  <2>2. Fits("createApiToEventBridgeTargetResource", {"api"}, {"resource"})
    BY <2>1, EventBridgeTargetIs
    DEF Fits, EventSetAt, Rank, Defaulted, TakingDefaults,
        EventBridgeTargetFields, EventApiFields, ApiFields
  <2>3. Plain({"api"}, {"resource"})
    BY <1>12, AddResourcePlain DEF CreateApiToEventBridgeTargetResource
  <2> QED  BY <2>1, <2>2, <2>3, PlainIsMethod DEF DefaultResponses
<1>13. CASE CreateApiToEventBridgeTargetResponseModel
  <2>1. Calls("createApiToEventBridgeTargetResponseModel")
    BY <1>13 DEF CreateApiToEventBridgeTargetResponseModel
  <2>2. Fits("createApiToEventBridgeTargetResponseModel", {"api"},
             {"responseModel"})
    BY <2>1, EventBridgeTargetIs
    DEF Fits, EventSetAt, Rank, Defaulted, TakingDefaults,
        EventBridgeTargetFields, EventApiFields, ApiFields
  <2>3. Plain({"api"}, {"responseModel"})
    BY <1>13, ChildReads, CreatesPlain, StillPlain
    DEF CreateApiToEventBridgeTargetResponseModel, Model, IfWithResource
  <2> QED  BY <2>1, <2>2, <2>3, PlainIsMethod DEF DefaultResponses
<1>14. CASE CreateApiToEventBridgeTargetErrorResponseModel
  <2>1. Calls("createApiToEventBridgeTargetErrorResponseModel")
    BY <1>14 DEF CreateApiToEventBridgeTargetErrorResponseModel
  <2>2. Fits("createApiToEventBridgeTargetErrorResponseModel", {"api"},
             {"errorResponseModel"})
    BY <2>1, EventBridgeTargetIs
    DEF Fits, EventSetAt, Rank, Defaulted, TakingDefaults,
        EventBridgeTargetFields, EventApiFields, ApiFields
  <2>3. Plain({"api"}, {"errorResponseModel"})
    BY <1>14, ChildReads, CreatesPlain, StillPlain
    DEF CreateApiToEventBridgeTargetErrorResponseModel, Model, IfWithResource
  <2> QED  BY <2>1, <2>2, <2>3, PlainIsMethod DEF DefaultResponses
<1>15. CASE CreateApiToEventBridgeTargetMethodResponse
  <2>1. Calls("createApiToEventBridgeTargetMethodResponse")
    BY <1>15 DEF CreateApiToEventBridgeTargetMethodResponse
  <2>2. Fits("createApiToEventBridgeTargetMethodResponse", {},
             {"methodResponse"})
    BY <2>1, EventBridgeTargetIs DEF Fits, EventSetAt, Rank
  <2>3. Plain({}, {"methodResponse"})
    BY <1>15, SetsPlain, StillPlain
    DEF CreateApiToEventBridgeTargetMethodResponse, MethodResponseOf,
        IfWithResource
  <2> QED  BY <2>1, <2>2, <2>3, PlainIsMethod
<1>16. CASE CreateApiToEventBridgeTargetMethodErrorResponse
  <2>1. Calls("createApiToEventBridgeTargetMethodErrorResponse")
    BY <1>16 DEF CreateApiToEventBridgeTargetMethodErrorResponse
  <2>2. Fits("createApiToEventBridgeTargetMethodErrorResponse", {},
             {"methodErrorResponse"})
    BY <2>1, EventBridgeTargetIs DEF Fits, EventSetAt, Rank
  <2>3. Plain({}, {"methodErrorResponse"})
    BY <1>16, SetsPlain, StillPlain
    DEF CreateApiToEventBridgeTargetMethodErrorResponse, MethodResponseOf,
        IfWithResource
  <2> QED  BY <2>1, <2>2, <2>3, PlainIsMethod
<1>17. CASE CreateApiToEventBridgeTargetResourceMethod
  <2>1. Calls("createApiToEventBridgeTargetResourceMethod")
    BY <1>17 DEF CreateApiToEventBridgeTargetResourceMethod
  <2>2. Fits("createApiToEventBridgeTargetResourceMethod", MethodReads,
             {"method"})
    BY <2>1, EventBridgeTargetIs
    DEF Fits, EventSetAt, Rank, Defaulted, TakingDefaults,
        EventBridgeTargetFields, EventApiFields, ApiFields, MethodReads
  <2> QED  BY <1>17, <2>1, <2>2, AddMethodIsMethod
            DEF CreateApiToEventBridgeTargetResourceMethod, TakingDefaults
<1> QED  BY <1>1, <1>2, <1>3, <1>4, <1>5, <1>6, <1>7, <1>8, <1>9, <1>10, <1>11,
             <1>12, <1>13, <1>14, <1>15, <1>16, <1>17
          DEF ApiToEventBridgeTargetStep
-----------------------------------------------------------------------------
(* ApiToEventBridgeTargetWithSns *)

LEMMA WithSnsIs ==
    ASSUME BuiltInv, NEW m \in DOMAIN Rank, Rank[m] \in 31..55, Calls(m)
    PROVE  SetAt = WithSnsSetAt /\ FieldsOf(this.class) = WithSnsFields
BY WhoCalls, FieldsAre DEF Belongs, SetAtOf

LEMMA WithSnsMethod ==
    ASSUME BuiltInv, WithSnsStep
    PROVE  AMethod
<1>1. CASE CreateApiDestinedEventBus
  <2>1. Calls("createApiDestinedEventBus")
    BY <1>1 DEF CreateApiDestinedEventBus
  <2>2. Fits("createApiDestinedEventBus", {}, {"eventBus"})
    BY <2>1, WithSnsIs DEF Fits, WithSnsSetAt, Rank
  <2>3. Plain({}, {"eventBus"})
    BY <1>1, ChildReads, CreatesPlain, StillPlain
    DEF CreateApiDestinedEventBus, EventBus
  <2> QED  BY <2>1, <2>2, <2>3, PlainIsMethod
<1>2. CASE CreateApiDestinedLambdaPolicy
  <2>1. Calls("createApiDestinedLambdaPolicy")
    BY <1>2 DEF CreateApiDestinedLambdaPolicy
  <2>2. Fits("createApiDestinedLambdaPolicy", {}, {"lambdaPolicy"})
    BY <2>1, WithSnsIs DEF Fits, WithSnsSetAt, Rank
  <2>3. Plain({}, {"lambdaPolicy"})
    BY <1>2, SetsPlain, StillPlain DEF CreateApiDestinedLambdaPolicy, IfOwned
  <2> QED  BY <2>1, <2>2, <2>3, PlainIsMethod
<1>3. CASE CreateApiDestinedLambdaRole
  <2>1. Calls("createApiDestinedLambdaRole")
    BY <1>3 DEF CreateApiDestinedLambdaRole
  <2>2. Fits("createApiDestinedLambdaRole", {"lambdaPolicy"}, {"lambdaRole"})
    BY <2>1, WithSnsIs
    DEF Fits, WithSnsSetAt, Rank, Defaulted, TakingDefaults, WithSnsFields,
        EventApiFields, ApiFields
  <2>3. Plain({"lambdaPolicy"}, {"lambdaRole"})
    BY <1>3, ChildReads, ManagersRead, CreatesPlain, StillPlain
    DEF CreateApiDestinedLambdaRole, IfOwned
  <2> QED  BY <2>1, <2>2, <2>3, PlainIsMethod DEF DefaultResponses
<1>4. CASE CreateApiDestinedLambdaEnvironment
  <2>1. Calls("createApiDestinedLambdaEnvironment")
    BY <1>4 DEF CreateApiDestinedLambdaEnvironment
  <2>2. Fits("createApiDestinedLambdaEnvironment", {}, {"environment"})
    BY <2>1, WithSnsIs DEF Fits, WithSnsSetAt, Rank
  <2>3. Plain({}, {"environment"})
    BY <1>4, SetsPlain, StillPlain
    DEF CreateApiDestinedLambdaEnvironment, IfOwned
  <2> QED  BY <2>1, <2>2, <2>3, PlainIsMethod
<1>5. CASE CreateApiDestinedLambdaLayers
  <2>1. Calls("createApiDestinedLambdaLayers")
    BY <1>5 DEF CreateApiDestinedLambdaLayers
  <2>2. Fits("createApiDestinedLambdaLayers", {}, {"layers"})
    BY <2>1, WithSnsIs DEF Fits, WithSnsSetAt, Rank
  <2>3. Plain({}, {"layers"})
    BY <1>5, ChildReads, WhenReads, CreatesPlain, StillPlain
    DEF CreateApiDestinedLambdaLayers, IfOwned, LambdaLayer
  <2> QED  BY <2>1, <2>2, <2>3, PlainIsMethod
<1>6. CASE CreateApiDestinedLambdaDestinations
  <2>1. Calls("createApiDestinedLambdaDestinations")
    BY <1>6 DEF CreateApiDestinedLambdaDestinations
  <2>2. Fits("createApiDestinedLambdaDestinations", {},
             {"destinationSuccess", "destinationFailure"})
    BY <2>1, WithSnsIs DEF Fits, WithSnsSetAt, Rank
  <2>3. Plain({}, {"destinationSuccess", "destinationFailure"})
    BY <1>6, SetsPlain, StillPlain
    DEF CreateApiDestinedLambdaDestinations, IfOwned
  <2> QED  BY <2>1, <2>2, <2>3, PlainIsMethod
<1>7. CASE CreateApiDestinedLambdaFunction
  <2>1. Calls("createApiDestinedLambdaFunction")
    BY <1>7 DEF CreateApiDestinedLambdaFunction
  <2>2. Fits("createApiDestinedLambdaFunction",
             {"lambdaRole", "layers", "environment", "destinationSuccess",
              "destinationFailure"}, {"function"})
    BY <2>1, WithSnsIs
    DEF Fits, WithSnsSetAt, Rank, Defaulted, TakingDefaults, WithSnsFields,
        EventApiFields, ApiFields
  <2>3. Plain({"lambdaRole", "layers", "environment", "destinationSuccess", "destinationFailure"},
              {"function"})
    BY <1>7, ChildReads, ManagersRead, CreatesPlain, StillPlain
    DEF CreateApiDestinedLambdaFunction, IfOwned
  <2> QED  BY <2>1, <2>2, <2>3, PlainIsMethod DEF DefaultResponses
<1>8. CASE CreateApiDestinationLogGroupSuccess
  <2>1. Calls("createApiDestinationLogGroupSuccess")
    BY <1>8 DEF CreateApiDestinationLogGroupSuccess
  <2>2. Fits("createApiDestinationLogGroupSuccess", {}, {"logGroupSuccess"})
    BY <2>1, WithSnsIs DEF Fits, WithSnsSetAt, Rank
  <2>3. Plain({}, {"logGroupSuccess"})
    BY <1>8, ChildReads, CreatesPlain, StillPlain
    DEF CreateApiDestinationLogGroupSuccess, IfOwned, LogGroup
  <2> QED  BY <2>1, <2>2, <2>3, PlainIsMethod
<1>9. CASE CreateApiDestinationRuleSuccess
  <2>1. Calls("createApiDestinationRuleSuccess")
    BY <1>9 DEF CreateApiDestinationRuleSuccess
  <2>2. Fits("createApiDestinationRuleSuccess", {"eventBus", "logGroupSuccess"},
             {"ruleSuccess"})
    BY <2>1, WithSnsIs
    DEF Fits, WithSnsSetAt, Rank, Defaulted, TakingDefaults, WithSnsFields,
        EventApiFields, ApiFields
  <2>3. Plain({"eventBus", "logGroupSuccess"}, {"ruleSuccess"})
    BY <1>9, ChildReads, BuildsPlain, StillPlain
    DEF CreateApiDestinationRuleSuccess, IfOwned, Rule, ChangedProps
  <2> QED  BY <2>1, <2>2, <2>3, PlainIsMethod DEF DefaultResponses
<1>10. CASE CreateApiDestinationLogGroupFailure
  <2>1. Calls("createApiDestinationLogGroupFailure")
    BY <1>10 DEF CreateApiDestinationLogGroupFailure
  <2>2. Fits("createApiDestinationLogGroupFailure", {}, {"logGroupFailure"})
    BY <2>1, WithSnsIs DEF Fits, WithSnsSetAt, Rank
  <2>3. Plain({}, {"logGroupFailure"})
    BY <1>10, ChildReads, CreatesPlain, StillPlain
    DEF CreateApiDestinationLogGroupFailure, IfOwned, LogGroup
  <2> QED  BY <2>1, <2>2, <2>3, PlainIsMethod
<1>11. CASE CreateApiDestinationRuleFailure
  <2>1. Calls("createApiDestinationRuleFailure")
    BY <1>11 DEF CreateApiDestinationRuleFailure
  <2>2. Fits("createApiDestinationRuleFailure", {"eventBus", "logGroupFailure"},
             {"ruleFailure"})
    BY <2>1, WithSnsIs
    DEF Fits, WithSnsSetAt, Rank, Defaulted, TakingDefaults, WithSnsFields,
        EventApiFields, ApiFields
  <2>3. Plain({"eventBus", "logGroupFailure"}, {"ruleFailure"})
    BY <1>11, ChildReads, BuildsPlain, StillPlain
    DEF CreateApiDestinationRuleFailure, IfOwned, Rule, ChangedProps
  <2> QED  BY <2>1, <2>2, <2>3, PlainIsMethod DEF DefaultResponses
<1>12. CASE CreateApiDestinedTopicRole
  <2>1. Calls("createApiDestinedTopicRole")
    BY <1>12 DEF CreateApiDestinedTopicRole
  <2>2. Fits("createApiDestinedTopicRole", {}, {"role"})
    BY <2>1, WithSnsIs DEF Fits, WithSnsSetAt, Rank
  <2>3. Plain({}, {"role"})
    BY <1>12, ChildReads, CreatesPlain, StillPlain
    DEF CreateApiDestinedTopicRole
  <2> QED  BY <2>1, <2>2, <2>3, PlainIsMethod
<1>13. CASE CreateApiDestinedTopic
  <2>1. Calls("createApiDestinedTopic")
    BY <1>13 DEF CreateApiDestinedTopic
  <2>2. Fits("createApiDestinedTopic", {"function"}, {"topic", "role"})
    BY <2>1, WithSnsIs
    DEF Fits, WithSnsSetAt, Rank, Defaulted, TakingDefaults, WithSnsFields,
        EventApiFields, ApiFields
  <2>3. Plain({"function"}, {"topic", "role"})
    BY <1>13, ChildReads, CreatesPlain, StillPlain
    DEF CreateApiDestinedTopic, IfWithResource, LambdaNotificationService
  <2> QED  BY <2>1, <2>2, <2>3, PlainIsMethod DEF DefaultResponses
<1>14. CASE CreateApiDestinedIntegrationRequestParameters
  <2>1. Calls("createApiDestinedIntegrationRequestParameters")
    BY <1>14 DEF CreateApiDestinedIntegrationRequestParameters
  <2>2. Fits("createApiDestinedIntegrationRequestParameters", {},
             {"integrationRequestParameters"})
    BY <2>1, WithSnsIs DEF Fits, WithSnsSetAt, Rank
  <2>3. Plain({}, {"integrationRequestParameters"})
    BY <1>14, SetsPlain, StillPlain
    DEF CreateApiDestinedIntegrationRequestParameters, RequestParameters,
        IfWithResource
  <2> QED  BY <2>1, <2>2, <2>3, PlainIsMethod
<1>15. CASE CreateApiDestinedIntegrationRequestTemplates
  <2>1. Calls("createApiDestinedIntegrationRequestTemplates")
    BY <1>15 DEF CreateApiDestinedIntegrationRequestTemplates
  <2>2. Fits("createApiDestinedIntegrationRequestTemplates", {},
             {"integrationRequestTemplates"})
    BY <2>1, WithSnsIs DEF Fits, WithSnsSetAt, Rank
  <2>3. Plain({}, {"integrationRequestTemplates"})
    BY <1>15, SetsPlain, StillPlain
    DEF CreateApiDestinedIntegrationRequestTemplates, IfWithResource
  <2> QED  BY <2>1, <2>2, <2>3, PlainIsMethod
<1>16. CASE CreateApiDestinedIntegrationResponse
  <2>1. Calls("createApiDestinedIntegrationResponse")
    BY <1>16 DEF CreateApiDestinedIntegrationResponse
  <2>2. Fits("createApiDestinedIntegrationResponse", {}, {"integrationResponse"})
    BY <2>1, WithSnsIs DEF Fits, WithSnsSetAt, Rank
  <2>3. Plain({}, {"integrationResponse"})
    BY <1>16, SetsPlain, StillPlain
    DEF CreateApiDestinedIntegrationResponse, IntegrationResponse,
        IfWithResource
  <2> QED  BY <2>1, <2>2, <2>3, PlainIsMethod
<1>17. CASE CreateApiDestinedIntegrationErrorResponse
  <2>1. Calls("createApiDestinedIntegrationErrorResponse")
    BY <1>17 DEF CreateApiDestinedIntegrationErrorResponse
  <2>2. Fits("createApiDestinedIntegrationErrorResponse", {},
             {"integrationErrorResponse"})
    BY <2>1, WithSnsIs DEF Fits, WithSnsSetAt, Rank
  <2>3. Plain({}, {"integrationErrorResponse"})
    BY <1>17, SetsPlain, StillPlain
    DEF CreateApiDestinedIntegrationErrorResponse, IntegrationErrorResponse,
        IfWithResource
  <2> QED  BY <2>1, <2>2, <2>3, PlainIsMethod
<1>18. CASE CreateApiDestinedIntegration
  <2>1. Calls("createApiDestinedIntegration")
    BY <1>18 DEF CreateApiDestinedIntegration
  <2>2. Fits("createApiDestinedIntegration", {}, {"integration"})
    BY <2>1, WithSnsIs DEF Fits, WithSnsSetAt, Rank
  <2>3. Plain({}, {"integration"})
    BY <1>18, SetsPlain, StillPlain
    DEF CreateApiDestinedIntegration, Integrates, IfWithResource
  <2> QED  BY <2>1, <2>2, <2>3, PlainIsMethod
<1>19. CASE CreateApiDestinedRestApi
  <2>1. Calls("createApiDestinedRestApi")
    BY <1>19 DEF CreateApiDestinedRestApi
  <2>2. Fits("createApiDestinedRestApi", ApiReads, {"api"})
    BY <2>1, WithSnsIs
    DEF Fits, WithSnsSetAt, Rank, Defaulted, TakingDefaults, WithSnsFields,
        EventApiFields, ApiFields, ApiReads, DefaultResponses
  <2> QED  BY <1>19, <2>1, <2>2, NewApiIsMethod
            DEF CreateApiDestinedRestApi, TakingDefaults
<1>20. CASE CreateApiDestinedResource
  <2>1. Calls("createApiDestinedResource")
    BY <1>20 DEF CreateApiDestinedResource
  <2>2. Fits("createApiDestinedResource", {"api"}, {"resource"})
    BY <2>1, WithSnsIs
    DEF Fits, WithSnsSetAt, Rank, Defaulted, TakingDefaults, WithSnsFields,
        EventApiFields, ApiFields
  <2>3. Plain({"api"}, {"resource"})
    BY <1>20, AddResourcePlain DEF CreateApiDestinedResource
  <2> QED  BY <2>1, <2>2, <2>3, PlainIsMethod DEF DefaultResponses
<1>21. CASE CreateApiDestinedResponseModel
  <2>1. Calls("createApiDestinedResponseModel")
    BY <1>21 DEF CreateApiDestinedResponseModel
  <2>2. Fits("createApiDestinedResponseModel", {"api"}, {"responseModel"})
    BY <2>1, WithSnsIs
    DEF Fits, WithSnsSetAt, Rank, Defaulted, TakingDefaults, WithSnsFields,
        EventApiFields, ApiFields
  <2>3. Plain({"api"}, {"responseModel"})
    BY <1>21, ChildReads, CreatesPlain, StillPlain
    DEF CreateApiDestinedResponseModel, Model, IfWithResource
  <2> QED  BY <2>1, <2>2, <2>3, PlainIsMethod DEF DefaultResponses
<1>22. CASE CreateApiDestinedErrorResponseModel
  <2>1. Calls("createApiDestinedErrorResponseModel")
    BY <1>22 DEF CreateApiDestinedErrorResponseModel
  <2>2. Fits("createApiDestinedErrorResponseModel", {"api"},
             {"errorResponseModel"})
    BY <2>1, WithSnsIs
    DEF Fits, WithSnsSetAt, Rank, Defaulted, TakingDefaults, WithSnsFields,
        EventApiFields, ApiFields
  <2>3. Plain({"api"}, {"errorResponseModel"})
    BY <1>22, ChildReads, CreatesPlain, StillPlain
    DEF CreateApiDestinedErrorResponseModel, Model, IfWithResource
  <2> QED  BY <2>1, <2>2, <2>3, PlainIsMethod DEF DefaultResponses
<1>23. CASE CreateApiDestinedMethodResponse
  <2>1. Calls("createApiDestinedMethodResponse")
    BY <1>23 DEF CreateApiDestinedMethodResponse
  <2>2. Fits("createApiDestinedMethodResponse", {}, {"methodResponse"})
    BY <2>1, WithSnsIs DEF Fits, WithSnsSetAt, Rank
  <2>3. Plain({}, {"methodResponse"})
    BY <1>23, SetsPlain, StillPlain
    DEF CreateApiDestinedMethodResponse, MethodResponseOf, IfWithResource
  <2> QED  BY <2>1, <2>2, <2>3, PlainIsMethod
<1>24. CASE CreateApiDestinedMethodErrorResponse
  <2>1. Calls("createApiDestinedMethodErrorResponse")
    BY <1>24 DEF CreateApiDestinedMethodErrorResponse
  <2>2. Fits("createApiDestinedMethodErrorResponse", {}, {"methodErrorResponse"})
    BY <2>1, WithSnsIs DEF Fits, WithSnsSetAt, Rank
  <2>3. Plain({}, {"methodErrorResponse"})
    BY <1>24, SetsPlain, StillPlain
    DEF CreateApiDestinedMethodErrorResponse, MethodResponseOf, IfWithResource
  <2> QED  BY <2>1, <2>2, <2>3, PlainIsMethod
<1>25. CASE CreateApiDestinedResourceMethod
  <2>1. Calls("createApiDestinedResourceMethod")
    BY <1>25 DEF CreateApiDestinedResourceMethod
  <2>2. Fits("createApiDestinedResourceMethod", MethodReads, {"method"})
    BY <2>1, WithSnsIs
    DEF Fits, WithSnsSetAt, Rank, Defaulted, TakingDefaults, WithSnsFields,
        EventApiFields, ApiFields, MethodReads
  <2> QED  BY <1>25, <2>1, <2>2, AddMethodIsMethod
            DEF CreateApiDestinedResourceMethod, TakingDefaults
<1> QED  BY <1>1, <1>2, <1>3, <1>4, <1>5, <1>6, <1>7, <1>8, <1>9, <1>10, <1>11,
             <1>12, <1>13, <1>14, <1>15, <1>16, <1>17, <1>18, <1>19, <1>20,
             <1>21, <1>22, <1>23, <1>24, <1>25
          DEF WithSnsStep
-----------------------------------------------------------------------------
(* ApiToLambdaTarget *)

LEMMA LambdaTargetIs ==
    ASSUME BuiltInv, NEW m \in DOMAIN Rank, Rank[m] \in 61..69, Calls(m)
    PROVE  SetAt = TargetSetAt /\ FieldsOf(this.class) = LambdaTargetFields
BY WhoCalls, FieldsAre DEF Belongs, SetAtOf

LEMMA LambdaTargetMethod ==
    ASSUME BuiltInv, ApiToLambdaTargetStep
    PROVE  AMethod
<1>1. CASE CreateApiToLambdaTargetMethodResponse
  <2>1. Calls("createApiToLambdaTargetMethodResponse")
    BY <1>1 DEF CreateApiToLambdaTargetMethodResponse
  <2>2. Fits("createApiToLambdaTargetMethodResponse", {}, {"methodResponse"})
    BY <2>1, LambdaTargetIs DEF Fits, TargetSetAt, Rank
  <2>3. Plain({}, {"methodResponse"})
    BY <1>1, SetsPlain, StillPlain
    DEF CreateApiToLambdaTargetMethodResponse, MethodResponseOf, IfWithResource
  <2> QED  BY <2>1, <2>2, <2>3, PlainIsMethod
<1>2. CASE CreateApiToLambdaTargetMethodErrorResponse
  <2>1. Calls("createApiToLambdaTargetMethodErrorResponse")
    BY <1>2 DEF CreateApiToLambdaTargetMethodErrorResponse
  <2>2. Fits("createApiToLambdaTargetMethodErrorResponse", {},
             {"methodErrorResponse"})
    BY <2>1, LambdaTargetIs DEF Fits, TargetSetAt, Rank
  <2>3. Plain({}, {"methodErrorResponse"})
    BY <1>2, SetsPlain, StillPlain
    DEF CreateApiToLambdaTargetMethodErrorResponse, MethodResponseOf,
        IfWithResource
  <2> QED  BY <2>1, <2>2, <2>3, PlainIsMethod
<1>3. CASE ResolveApiToLambdaTargetFunction
  <2>1. Calls("resolveApiToLambdaTargetFunction")
    BY <1>3 DEF ResolveApiToLambdaTargetFunction
  <2>2. Fits("resolveApiToLambdaTargetFunction", {}, {"lambda"})
    BY <2>1, LambdaTargetIs DEF Fits, TargetSetAt, Rank
  <2>3. Plain({}, {"lambda"})
    BY <1>3, ChildReads, CreatesPlain, StillPlain
    DEF ResolveApiToLambdaTargetFunction
  <2> QED  BY <2>1, <2>2, <2>3, PlainIsMethod
<1>4. CASE CreateApiToLambdaTargetRestApi
  <2> DEFINE reads == {"lambda", "methodResponse", "methodErrorResponse"}
             resources == LambdaRestApi(<<"lambda-rest-api">>, reads)
  <2>1. Calls("createApiToLambdaTargetRestApi")
    BY <1>4 DEF CreateApiToLambdaTargetRestApi
  <2>2. Fits("createApiToLambdaTargetRestApi", reads, {"api"})
    BY <2>1, LambdaTargetIs
    DEF Fits, TargetSetAt, Rank, Defaulted, TakingDefaults, LambdaTargetFields,
        ApiFields
  <2>3. ~IsOf(this.id, "ApiToEventBridgeTarget")
    BY <2>1, LambdaTargetIs, FieldsAre, ThisIs
    DEF IsOf, FieldsOf, Rank, BuiltInv, LambdaTargetFields,
        EventBridgeTargetFields, EventApiFields, ApiFields
  <2>4. ReadsOnly(resources, reads) /\ ReadsOnly(Child(<<"rest-api">>, {}), reads)
    BY ManagersRead, LessReads
  <2>5. CASE ImportsApi
    <3>1. Creates({}, Child(<<"rest-api">>, {}), [api |-> "imported"])
      BY <1>4, <2>5 DEF CreateApiToLambdaTargetRestApi, ImportApi
    <3>2. Plain(reads, {"api"})
      BY <2>4, <3>1, CreatesPlain
    <3>3. \A r \in template' \ template : r.id = <<"rest-api">>
      BY <3>1 DEF Creates, Builds, Child, Resource
    <3> QED  BY <2>1, <2>2, <2>3, <3>2, <3>3, OtherIsMethod DEF TakingDefaults
  <2>6. CASE ~ImportsApi /\ LambdaRestApiThrows
    <3>1. Plain(reads, {"api"}) /\ template' \subseteq template
      BY <1>4, <2>6, ThrowsPlain DEF CreateApiToLambdaTargetRestApi, ChangedProps
    <3> QED  BY <2>1, <2>2, <2>3, <3>1, OtherIsMethod DEF TakingDefaults
  <2>7. CASE ~ImportsApi /\ ~LambdaRestApiThrows
    <3> DEFINE values == [api |-> IF props.proxy THEN "proxy" ELSE "own"]
    <3>1. /\ Builds({"lambda"}, resources, values)
          /\ props' = [props EXCEPT !.defaultMethods = DefaultMethods]
      BY <1>4, <2>7 DEF CreateApiToLambdaTargetRestApi
    <3>2. DOMAIN values \subseteq {"api"}
      OBVIOUS
    <3> HIDE DEF values, resources, reads
    <3>3. Plain(reads, {"api"})
      BY <2>4, <3>1, <3>2, BuildsPlain DEF ChangedProps
    <3>4. ASSUME NEW r \in template' \ template
          PROVE  r.id # <<"sns-rest-api">>
      <4>1. r.id \in {<<"lambda-rest-api">>,
                      Append(<<"lambda-rest-api">>, "rest-api-access-log")}
        BY <3>1, <3>4
        DEF Builds, resources, LambdaRestApi, Suffixed, Child, Resource
      <4> QED  BY <4>1
    <3> QED  BY <2>1, <2>2, <2>3, <3>3, <3>4, OtherIsMethod
             DEF TakingDefaults
  <2> QED  BY <2>5, <2>6, <2>7
<1>5. CASE CreateApiToLambdaTargetResource
  <2>1. Calls("createApiToLambdaTargetResource")
    BY <1>5 DEF CreateApiToLambdaTargetResource
  <2>2. Fits("createApiToLambdaTargetResource", {"api"}, {"resource"})
    BY <2>1, LambdaTargetIs
    DEF Fits, TargetSetAt, Rank, Defaulted, TakingDefaults, LambdaTargetFields,
        ApiFields
  <2>3. Plain({"api"}, {"resource"})
    BY <1>5, AddResourcePlain DEF CreateApiToLambdaTargetResource
  <2> QED  BY <2>1, <2>2, <2>3, PlainIsMethod DEF DefaultResponses
<1>6. CASE CreateApiToLambdaTargetPolicy
  <2>1. Calls("createApiToLambdaTargetPolicy")
    BY <1>6 DEF CreateApiToLambdaTargetPolicy
  <2>2. Fits("createApiToLambdaTargetPolicy", {}, {"policy"})
    BY <2>1, LambdaTargetIs DEF Fits, TargetSetAt, Rank
  <2>3. Plain({}, {"policy"})
    BY <1>6, SetsPlain, StillPlain DEF CreateApiToLambdaTargetPolicy
  <2> QED  BY <2>1, <2>2, <2>3, PlainIsMethod
<1>7. CASE CreateApiToLambdaTargetRole
  <2>1. Calls("createApiToLambdaTargetRole")
    BY <1>7 DEF CreateApiToLambdaTargetRole
  <2>2. Fits("createApiToLambdaTargetRole", {"policy"}, {"role"})
    BY <2>1, LambdaTargetIs
    DEF Fits, TargetSetAt, Rank, Defaulted, TakingDefaults, LambdaTargetFields,
        ApiFields
  <2>3. Plain({"policy"}, {"role"})
    BY <1>7, ChildReads, CreatesPlain, StillPlain
    DEF CreateApiToLambdaTargetRole
  <2> QED  BY <2>1, <2>2, <2>3, PlainIsMethod DEF DefaultResponses
<1>8. CASE CreateApiToLambdaTargetIntegration
  <2>1. Calls("createApiToLambdaTargetIntegration")
    BY <1>8 DEF CreateApiToLambdaTargetIntegration
  <2>2. Fits("createApiToLambdaTargetIntegration", {}, {"integration"})
    BY <2>1, LambdaTargetIs DEF Fits, TargetSetAt, Rank
  <2>3. Plain({}, {"integration"})
    BY <1>8, SetsPlain, StillPlain DEF CreateApiToLambdaTargetIntegration
  <2> QED  BY <2>1, <2>2, <2>3, PlainIsMethod
<1>9. CASE CreateApiToLambdaTargetResourceMethod
  <2>1. Calls("createApiToLambdaTargetResourceMethod")
    BY <1>9 DEF CreateApiToLambdaTargetResourceMethod
  <2>2. Fits("createApiToLambdaTargetResourceMethod", MethodReads, {"method"})
    BY <2>1, LambdaTargetIs
    DEF Fits, TargetSetAt, Rank, Defaulted, TakingDefaults, LambdaTargetFields,
        ApiFields, MethodReads
  <2> QED  BY <1>9, <2>1, <2>2, AddMethodIsMethod
            DEF CreateApiToLambdaTargetResourceMethod, TakingDefaults
<1> QED  BY <1>1, <1>2, <1>3, <1>4, <1>5, <1>6, <1>7, <1>8, <1>9
          DEF ApiToLambdaTargetStep
-----------------------------------------------------------------------------
(* ApiToAnyTarget *)

LEMMA AnyTargetIs ==
    ASSUME BuiltInv, NEW m \in DOMAIN Rank, Rank[m] \in {60, 85}, Calls(m)
    PROVE  SetAt = AnyTargetSetAt /\ FieldsOf(this.class) = AnyTargetFields
BY WhoCalls, FieldsAre DEF Belongs, SetAtOf

LEMMA AnyTargetMethod ==
    ASSUME BuiltInv, ApiToAnyTargetStep
    PROVE  AMethod
<1>1. CASE CreateApiToAnyTargetRestApi
  <2>1. Calls("createApiToAnyTargetRestApi")
    BY <1>1 DEF CreateApiToAnyTargetRestApi
  <2>2. Fits("createApiToAnyTargetRestApi", ApiReads, {"api"})
    BY <2>1, AnyTargetIs
    DEF Fits, AnyTargetSetAt, Rank, Defaulted, TakingDefaults, AnyTargetFields,
        ApiFields, ApiReads, DefaultResponses
  <2>3. ~IsOf(this.id, "ApiToEventBridgeTarget")
    BY <2>1, AnyTargetIs, FieldsAre, ThisIs
    DEF IsOf, FieldsOf, Rank, BuiltInv, AnyTargetFields,
        EventBridgeTargetFields, EventApiFields, ApiFields
  <2> QED  BY <1>1, <2>1, <2>2, <2>3, NewApiIsMethod
            DEF CreateApiToAnyTargetRestApi, TakingDefaults
<1>2. CASE CreateApiToAnyTargetResource
  <2>1. Calls("createApiToAnyTargetResource")
    BY <1>2 DEF CreateApiToAnyTargetResource
  <2>2. Fits("createApiToAnyTargetResource", {"api"}, {"resources"})
    BY <2>1, AnyTargetIs
    DEF Fits, AnyTargetSetAt, Rank, Defaulted, TakingDefaults, AnyTargetFields,
        ApiFields
  <2>3. \A path : ReadsOnly(RootResourceFor(path)
                             \union ApiResourceWithMethods(path), {"api"})
    BY ChildReads, WhenReads, UnionReads
    DEF RootResourceFor, ApiResourceWithMethods, ApiResource
  <2>4. ReadsOnly(UNION {RootResourceFor(path)
                          \union ApiResourceWithMethods(path) :
                            path \in props.paths}, {"api"})
    BY <2>3 DEF ReadsOnly
  <2>5. Plain({"api"}, {"resources"})
    BY <1>2, <2>4, CreatesPlain, StillPlain
    DEF CreateApiToAnyTargetResource, IfWithResource
  <2> QED  BY <2>1, <2>2, <2>5, PlainIsMethod DEF DefaultResponses
<1> QED  BY <1>1, <1>2 DEF ApiToAnyTargetStep
-----------------------------------------------------------------------------
(* What several classes share *)

LEMMA ApiClassIs ==
    ASSUME NEW class \in ApiClasses
    PROVE  /\ ApiFields \subseteq DOMAIN SetAtOf(class)
           /\ ApiFields \subseteq FieldsOf(class)
           /\ SetAtOf(class).applicationSecrets = {6}
           /\ SetAtOf(class).hostedZone = {7}
           /\ SetAtOf(class).certificate = {8}
           /\ SetAtOf(class).api \subseteq 1..80
           /\ SetAtOf(class).domain = {81}
<1>1. CASE class = "ApiToEventBridgeTarget"
  BY <1>1, FieldsAre
  DEF SetAtOf, EventSetAt, EventBridgeTargetFields, EventApiFields, ApiFields
<1>2. CASE class = "ApiToEventBridgeTargetWithSns"
  BY <1>2, FieldsAre DEF SetAtOf, WithSnsSetAt, WithSnsFields, EventApiFields, ApiFields
<1>3. CASE class = "ApiToLambdaTarget"
  BY <1>3, FieldsAre DEF SetAtOf, TargetSetAt, LambdaTargetFields, ApiFields
<1>4. CASE class = "ApiToAnyTarget"
  BY <1>4, FieldsAre DEF SetAtOf, AnyTargetSetAt, AnyTargetFields, ApiFields
<1>5. CASE class \in {"RestApiLambda", "RestApiLambdaWithCache"}
  BY <1>5, FieldsAre
  DEF SetAtOf, FunctionSetAt, FunctionClasses, WithCacheFields,
      RestApiLambdaFields, ApiFields
<1> QED  BY <1>1, <1>2, <1>3, <1>4, <1>5 DEF ApiClasses

LEMMA ApiIs ==
    ASSUME BuiltInv, NEW m \in DOMAIN Rank, Rank[m] \in {6, 81, 82, 84}, Calls(m)
    PROVE  /\ ApiFields \subseteq DOMAIN SetAt
           /\ ApiFields \subseteq FieldsOf(this.class)
           /\ SetAt.applicationSecrets = {6} /\ SetAt.hostedZone = {7}
           /\ SetAt.certificate = {8}
           /\ SetAt.api \subseteq 1..80 /\ SetAt.domain = {81}
BY WhoCalls, ApiClassIs DEF Belongs

LEMMA ZoneIs ==
    ASSUME BuiltInv, NEW m \in DOMAIN Rank, Rank[m] \in {7, 8}, Calls(m)
    PROVE  /\ "hostedZone" \in DOMAIN SetAt /\ SetAt.hostedZone = {7}
           /\ "certificate" \in DOMAIN SetAt /\ 8 \in SetAt.certificate
<1>1. CASE this.class \in ApiClasses
  BY <1>1, WhoCalls, ApiClassIs DEF ApiFields
<1>2. CASE this.class \in SiteClasses
  BY <1>2, WhoCalls
  DEF SetAtOf, SiteSetAt, SiteClasses, BackendClasses, FunctionClasses
<1> QED  BY <1>1, <1>2, WhoCalls DEF Belongs

LEMMA SharedApiMethod ==
    ASSUME BuiltInv, SharedApiStep
    PROVE  AMethod
<1>1. CASE ResolveSecrets
  <2>1. Calls("resolveSecrets")
    BY <1>1 DEF ResolveSecrets
  <2>2. Fits("resolveSecrets", {}, {"applicationSecrets"})
    BY <2>1, ApiIs DEF Fits, Rank, ApiFields
  <2>3. Plain({}, {"applicationSecrets"})
    BY <1>1, SetsPlain, StillPlain DEF ResolveSecrets
  <2> QED  BY <2>1, <2>2, <2>3, PlainIsMethod
<1>2. CASE ResolveHostedZone
  <2>1. Calls("resolveHostedZone")
    BY <1>2 DEF ResolveHostedZone
  <2>2. Fits("resolveHostedZone", {}, {"hostedZone"})
    BY <2>1, ZoneIs DEF Fits, Rank
  <2>3. Plain({}, {"hostedZone"})
    BY <1>2, ChildReads, CreatesPlain, StillPlain
    DEF ResolveHostedZone, HostedZone
  <2> QED  BY <2>1, <2>2, <2>3, PlainIsMethod
<1>3. CASE ResolveCertificate
  <2>1. Calls("resolveCertificate")
    BY <1>3 DEF ResolveCertificate
  <2>2. Fits("resolveCertificate", {}, {"certificate"})
    BY <2>1, ZoneIs DEF Fits, Rank
  <2> DEFINE arn == IF ReadsCertificateParameter THEN "parameter"
                    ELSE props.certificateArn
             resources == Child(<<"certificate">>, {})
                            \union When(ReadsCertificateParameter,
                                 ParameterReader(<<"certificate-param">>))
             values == [certificate |-> ResolvedCertificate(arn)]
  <2>3. ReadsOnly(resources, {}) /\ DOMAIN values \subseteq {"certificate"}
    BY ChildReads, WhenReads, UnionReads DEF ParameterReader
  <2>4. arn \in {NotSet, "callers", "callersAbroad", "parameter"}
    BY DEF BuiltInv, PropsInv
  <2>5. CASE ~(props.useExisting /\ this.class \notin AlwaysOwned)
    <3>1. /\ props' = [props EXCEPT !.certificateArn = arn]
          /\ Builds({}, resources, values)
      BY <1>3, <2>5 DEF ResolveCertificate, IfOwned
    <3> HIDE DEF arn, resources, values
    <3>2. Plain({}, {"certificate"})
      BY <2>3, <2>4, <3>1, BuildsPlain DEF ChangedProps
    <3> QED  BY <2>1, <2>2, <3>2, PlainIsMethod
  <2>6. CASE props.useExisting /\ this.class \notin AlwaysOwned
    <3>1. Plain({}, {"certificate"})
      BY <1>3, <2>6, StillPlain DEF ResolveCertificate, IfOwned
    <3> QED  BY <2>1, <2>2, <3>1, PlainIsMethod
  <2> QED  BY <2>5, <2>6
<1>4. CASE CreateApiDomain
  <2>1. Calls("createApiDomain")
    BY <1>4 DEF CreateApiDomain
  <2>2. Fits("createApiDomain", {"certificate"}, {"domain"})
    BY <2>1, ApiIs DEF Fits, Rank, Defaulted, TakingDefaults, ApiFields
  <2>3. Plain({"certificate"}, {"domain"})
    BY <1>4, ChildReads, CreatesPlain, StillPlain
    DEF CreateApiDomain, IfOwned, ApiDomain
  <2> QED  BY <2>1, <2>2, <2>3, PlainIsMethod DEF DefaultResponses
<1>5. CASE CreateApiBasePathMapping
  <2>1. Calls("createApiBasePathMapping")
    BY <1>5 DEF CreateApiBasePathMapping
  <2>2. Fits("createApiBasePathMapping", {"domain", "api"}, {})
    BY <2>1, ApiIs DEF Fits, Rank, Defaulted, TakingDefaults, ApiFields
  <2>3. Plain({"domain", "api"}, {})
    BY <1>5, ChildReads, CreatesPlain, StillPlain
    DEF CreateApiBasePathMapping, IfOwned, None
  <2> QED  BY <2>1, <2>2, <2>3, PlainIsMethod DEF DefaultResponses
<1>6. CASE CreateApiRouteAssets
  <2>1. Calls("createApiRouteAssets")
    BY <1>6 DEF CreateApiRouteAssets
  <2>2. Fits("createApiRouteAssets", {"domain", "hostedZone"}, {})
    BY <2>1, ApiIs DEF Fits, Rank, Defaulted, TakingDefaults, ApiFields
  <2>3. Plain({"domain", "hostedZone"}, {})
    BY <1>6, ChildReads, CreatesPlain, StillPlain
    DEF CreateApiRouteAssets, IfOwned, ApiGatewayARecord, None
  <2> QED  BY <2>1, <2>2, <2>3, PlainIsMethod DEF DefaultResponses
<1> QED  BY <1>1, <1>2, <1>3, <1>4, <1>5, <1>6 DEF SharedApiStep
-----------------------------------------------------------------------------
(* RestApiLambda, RestApiLambdaWithCache and LambdaWithIamAccess *)

LEMMA FunctionIs ==
    ASSUME BuiltInv, NEW m \in DOMAIN Rank,
           Rank[m] \in (1..5) \union (71..79) \union {83}, Calls(m)
    PROVE  /\ SetAt = FunctionSetAt /\ FunctionFields \subseteq FieldsOf(this.class)
           /\ Rank[m] \in {76, 77, 83} => ApiFields \subseteq FieldsOf(this.class)
           /\ Rank[m] \in {2, 3, 5} => FieldsOf(this.class) = WithCacheFields
           /\ Rank[m] \in {1, 4, 78, 79} => FieldsOf(this.class) = IamAccessFields
<1>1. /\ Belongs(this.class, Rank[m]) /\ SetAt = SetAtOf(this.class)
  BY WhoCalls
<1>2. /\ this.class \in FunctionClasses
      /\ Rank[m] \in {76, 77, 83} => this.class # "LambdaWithIamAccess"
      /\ Rank[m] \in {2, 3, 5} => this.class = "RestApiLambdaWithCache"
      /\ Rank[m] \in {1, 4, 78, 79} => this.class = "LambdaWithIamAccess"
  BY <1>1 DEF Belongs, FunctionClasses
<1>3. SetAt = FunctionSetAt
  BY <1>1, <1>2 DEF SetAtOf, FunctionClasses
<1>4. /\ FunctionFields \subseteq FieldsOf(this.class)
      /\ this.class # "LambdaWithIamAccess" => ApiFields \subseteq FieldsOf(this.class)
  BY <1>2, FieldsAre
  DEF FunctionClasses, IamAccessFields, WithCacheFields, RestApiLambdaFields
<1> QED  BY <1>2, <1>3, <1>4, FieldsAre

LEMMA FunctionMethod ==
    ASSUME BuiltInv, LambdaConstructsStep
    PROVE  AMethod
<1>1. CASE CreateLambdaPolicy
  <2>1. Calls("createLambdaPolicy")
    BY <1>1 DEF CreateLambdaPolicy
  <2>2. Fits("createLambdaPolicy", {}, {"lambdaPolicy"})
    BY <2>1, FunctionIs DEF Fits, FunctionSetAt, Rank
  <2>3. Plain({}, {"lambdaPolicy"})
    BY <1>1, SetsPlain, StillPlain DEF CreateLambdaPolicy
  <2> QED  BY <2>1, <2>2, <2>3, PlainIsMethod
<1>2. CASE CreateLambdaRole
  <2>1. Calls("createLambdaRole")
    BY <1>2 DEF CreateLambdaRole
  <2>2. Fits("createLambdaRole", {"lambdaPolicy"}, {"lambdaRole"})
    BY <2>1, FunctionIs
    DEF Fits, FunctionSetAt, Rank, Defaulted, TakingDefaults, FunctionFields,
        ApiFields
  <2>3. Plain({"lambdaPolicy"}, {"lambdaRole"})
    BY <1>2, ChildReads, ManagersRead, CreatesPlain, StillPlain
    DEF CreateLambdaRole
  <2> QED  BY <2>1, <2>2, <2>3, PlainIsMethod DEF DefaultResponses
<1>3. CASE CreateLambdaEnvironment
  <2>1. Calls("createLambdaEnvironment")
    BY <1>3 DEF CreateLambdaEnvironment
  <2>2. Fits("createLambdaEnvironment", {}, {"environment"})
    BY <2>1, FunctionIs DEF Fits, FunctionSetAt, Rank
  <2>3. Plain({}, {"environment"})
    BY <1>3, SetsPlain, StillPlain DEF CreateLambdaEnvironment
  <2> QED  BY <2>1, <2>2, <2>3, PlainIsMethod
<1>4. CASE CreateLambdaLayers
  <2>1. Calls("createLambdaLayers")
    BY <1>4 DEF CreateLambdaLayers
  <2>2. Fits("createLambdaLayers", {}, {"layers"})
    BY <2>1, FunctionIs DEF Fits, FunctionSetAt, Rank
  <2>3. /\ ReadsOnly(LayersOf(props.layerSources), {})
        /\ ReadsOnly(LayersOf(props.layerSources)
                       \union When(props.configEnabled,
                                   Child(<<"ac-extlayer">>, {})), {})
    BY ChildReads DEF LayersOf, LambdaLayer, ReadsOnly, When
  <2>4. Plain({}, {"layers"})
    BY <1>4, <2>3, CreatesPlain, StillPlain DEF CreateLambdaLayers
  <2> QED  BY <2>1, <2>2, <2>4, PlainIsMethod
<1>5. CASE CreateLambdaFunction
  <2>1. Calls("createLambdaFunction")
    BY <1>5 DEF CreateLambdaFunction
  <2>2. Fits("createLambdaFunction",
             {"lambdaRole", "layers", "environment", "vpc", "securityGroup"},
             {"function", "versionCapacity"})
    BY <2>1, FunctionIs
    DEF Fits, FunctionSetAt, Rank, Defaulted, TakingDefaults, FunctionFields,
        ApiFields
  <2> DEFINE reads == {"lambdaRole", "layers", "environment", "vpc",
                       "securityGroup"}
             resources == LambdaFunction(FunctionId, reads)
             values == [function |-> FunctionId,
                        versionCapacity |-> VersionCapacity(props.aliases)]
             insights == props.insights \/ (IsWithIamAccess
                                              /\ props.insightsVersion)
  <2>3. /\ props' = [props EXCEPT !.insights = insights]
        /\ \/ status' = "thrown" /\ UNCHANGED <<fields, template>>
           \/ Builds({}, resources, values)
    BY <1>5 DEF CreateLambdaFunction
  <2>4. /\ ReadsOnly(resources, reads)
        /\ DOMAIN values \subseteq {"function", "versionCapacity"}
    BY ManagersRead
  <2> HIDE DEF reads, resources, values, insights
  <2>5. Plain(reads, {"function", "versionCapacity"})
    BY <2>3, <2>4, BuildsPlain, ThrowsPlain DEF ChangedProps
  <2> QED  BY <2>1, <2>2, <2>5, PlainIsMethod DEF DefaultResponses, reads
<1>6. CASE CreateRestApi
  <2>1. Calls("createRestApi")
    BY <1>6 DEF CreateRestApi
  <2>2. Fits("createRestApi", {"function"}, {"api"})
    BY <2>1, FunctionIs
    DEF Fits, FunctionSetAt, Rank, Defaulted, TakingDefaults, FunctionFields,
        ApiFields
  <2>3. Plain({"function"}, {"api"})
    BY <1>6, ChildReads, ManagersRead, CreatesPlain, StillPlain
    DEF CreateRestApi
  <2> QED  BY <2>1, <2>2, <2>3, PlainIsMethod DEF DefaultResponses
<1>7. CASE CreateRestApiResources
  <2>1. Calls("createRestApiResources")
    BY <1>7 DEF CreateRestApiResources
  <2>2. Fits("createRestApiResources", {}, {})
    BY <2>1, FunctionIs DEF Fits, FunctionSetAt, Rank
  <2>3. Plain({}, {})
    BY <1>7, StillPlain DEF CreateRestApiResources
  <2> QED  BY <2>1, <2>2, <2>3, PlainIsMethod
<1>8. CASE CreateApiRootPathMapping
  <2>1. Calls("createApiRootPathMapping")
    BY <1>8 DEF CreateApiRootPathMapping
  <2>2. Fits("createApiRootPathMapping", {"domain", "api"}, {})
    BY <2>1, FunctionIs
    DEF Fits, FunctionSetAt, Rank, Defaulted, TakingDefaults, FunctionFields,
        ApiFields
  <2>3. ReadsOnly(UNION {Child(<<"base-bath-mapping", path>>, {"domain", "api"}) :
                         path \in props.paths}, {"domain", "api"})
    BY ChildReads DEF ReadsOnly
  <2>4. Plain({"domain", "api"}, {})
    BY <1>8, <2>3, ChildReads, CreatesPlain DEF CreateApiRootPathMapping, None
  <2> QED  BY <2>1, <2>2, <2>4, PlainIsMethod DEF DefaultResponses
<1>9. CASE ResolveVpc
  <2>1. Calls("resolveVpc")
    BY <1>9 DEF ResolveVpc
  <2>2. Fits("resolveVpc", {}, {"vpc"})
    BY <2>1, FunctionIs DEF Fits, FunctionSetAt, Rank
  <2>3. Plain({}, {"vpc"})
    BY <1>9, ChildReads, CreatesPlain, StillPlain DEF ResolveVpc, CommonVpc
  <2> QED  BY <2>1, <2>2, <2>3, PlainIsMethod
<1>10. CASE ResolveSecurityGroup
  <2>1. Calls("resolveSecurityGroup")
    BY <1>10 DEF ResolveSecurityGroup
  <2>2. Fits("resolveSecurityGroup", {"vpc"}, {"securityGroup", "ingress"})
    BY <2>1, FunctionIs
    DEF Fits, FunctionSetAt, Rank, Defaulted, TakingDefaults, FunctionFields,
        WithCacheFields, RestApiLambdaFields
  <2>3. Plain({"vpc"}, {"securityGroup", "ingress"})
    BY <1>10, ChildReads, LessReads, CreatesPlain DEF ResolveSecurityGroup
  <2> QED  BY <2>1, <2>2, <2>3, PlainIsMethod DEF DefaultResponses
<1>11. CASE CreateElastiCache
  <2>1. Calls("createElastiCache")
    BY <1>11 DEF CreateElastiCache
  <2>2. Fits("createElastiCache", {"vpc", "securityGroup"}, {"cache"})
    BY <2>1, FunctionIs
    DEF Fits, FunctionSetAt, Rank, Defaulted, TakingDefaults, FunctionFields,
        WithCacheFields, RestApiLambdaFields
  <2>3. ReadsOnly(
         ReplicatedElastiCache(<<"elasticache">>, {"vpc", "securityGroup"})
           \union StringParameter(<<"elasticache-endpoint-address">>, {})
           \union StringParameter(<<"elasticache-endpoint-port">>, {}),
         {"vpc", "securityGroup"})
    BY LessReads, ManagersRead, UnionReads DEF StringParameter
  <2>4. Plain({"vpc", "securityGroup"}, {"cache"})
    BY <1>11, <2>3, CreatesPlain, StillPlain DEF CreateElastiCache
  <2> QED  BY <2>1, <2>2, <2>4, PlainIsMethod DEF DefaultResponses
<1>12. CASE ResolveLambdaVpc
  <2>1. Calls("resolveLambdaVpc")
    BY <1>12 DEF ResolveLambdaVpc
  <2>2. Fits("resolveLambdaVpc", {}, {"vpc"})
    BY <2>1, FunctionIs DEF Fits, FunctionSetAt, Rank
  <2>3. Plain({}, {"vpc"})
    BY <1>12, ChildReads, CreatesPlain, StillPlain
    DEF ResolveLambdaVpc, CommonVpc
  <2> QED  BY <2>1, <2>2, <2>3, PlainIsMethod
<1>13. CASE ResolveSecurityGroups
  <2>1. Calls("resolveSecurityGroups")
    BY <1>13 DEF ResolveSecurityGroups
  <2>2. Fits("resolveSecurityGroups", {}, {"securityGroup"})
    BY <2>1, FunctionIs DEF Fits, FunctionSetAt, Rank
  <2>3. Plain({}, {"securityGroup"})
    BY <1>13, ChildReads, CreatesPlain, StillPlain DEF ResolveSecurityGroups
  <2> QED  BY <2>1, <2>2, <2>3, PlainIsMethod
<1>14. CASE CreateIamUserForLambdaFunction
  <2>1. Calls("createIamUserForLambdaFunction")
    BY <1>14 DEF CreateIamUserForLambdaFunction
  <2>2. Fits("createIamUserForLambdaFunction", {"function"},
             {"user", "accessKey", "invokes"})
    BY <2>1, FunctionIs
    DEF Fits, FunctionSetAt, Rank, Defaulted, TakingDefaults, FunctionFields,
        IamAccessFields
  <2>3. ReadsOnly(
         Child(<<"lambda-user">>, {})
           \union Child(<<"lambda-user-policy">>, {"function"})
           \union When(props.aliases # <<>>,
                       Child(<<"alias-user-policy">>, {"function"}))
           \union Child(<<"access-key", props.stage>>, {}), {"function"})
    BY ChildReads, LessReads, WhenReads, UnionReads
  <2>4. Plain({"function"}, {"user", "accessKey", "invokes"})
    BY <1>14, <2>3, CreatesPlain, StillPlain DEF CreateIamUserForLambdaFunction
  <2> QED  BY <2>1, <2>2, <2>4, PlainIsMethod DEF DefaultResponses
<1>15. CASE CreateIamSecretForLambdaFunction
  <2>1. Calls("createIamSecretForLambdaFunction")
    BY <1>15 DEF CreateIamSecretForLambdaFunction
  <2>2. Fits("createIamSecretForLambdaFunction", {"accessKey"}, {"secret"})
    BY <2>1, FunctionIs
    DEF Fits, FunctionSetAt, Rank, Defaulted, TakingDefaults, FunctionFields,
        IamAccessFields
  <2>3. Plain({"accessKey"}, {"secret"})
    BY <1>15, ChildReads, CreatesPlain, StillPlain
    DEF CreateIamSecretForLambdaFunction, Secret
  <2> QED  BY <2>1, <2>2, <2>3, PlainIsMethod DEF DefaultResponses
<1> QED  BY <1>1, <1>2, <1>3, <1>4, <1>5, <1>6, <1>7, <1>8, <1>9, <1>10, <1>11,
             <1>12, <1>13, <1>14, <1>15
          DEF LambdaConstructsStep
-----------------------------------------------------------------------------
(* ApplicationConfiguration *)

LEMMA ConfigurationIs ==
    ASSUME BuiltInv, NEW m \in DOMAIN Rank, Rank[m] \in 91..97, Calls(m)
    PROVE  SetAt = ConfigurationSetAt /\ FieldsOf(this.class) = ConfigurationFields
BY WhoCalls, FieldsAre DEF Belongs, SetAtOf, FunctionClasses

LEMMA ConfigurationMethod ==
    ASSUME BuiltInv, ApplicationConfigurationStep
    PROVE  AMethod
<1>1. CASE CreateAppConfigApplication
  <2>1. Calls("createAppConfigApplication")
    BY <1>1 DEF CreateAppConfigApplication
  <2>2. Fits("createAppConfigApplication", {}, {"application"})
    BY <2>1, ConfigurationIs DEF Fits, ConfigurationSetAt, Rank
  <2>3. Plain({}, {"application"})
    BY <1>1, ChildReads, CreatesPlain, StillPlain DEF CreateAppConfigApplication
  <2> QED  BY <2>1, <2>2, <2>3, PlainIsMethod
<1>2. CASE CreateAppConfigEnvironment
  <2>1. Calls("createAppConfigEnvironment")
    BY <1>2 DEF CreateAppConfigEnvironment
  <2>2. Fits("createAppConfigEnvironment", {"application"},
             {"configEnvironment"})
    BY <2>1, ConfigurationIs
    DEF Fits, ConfigurationSetAt, Rank, Defaulted, TakingDefaults,
        ConfigurationFields
  <2>3. Plain({"application"}, {"configEnvironment"})
    BY <1>2, ChildReads, CreatesPlain, StillPlain DEF CreateAppConfigEnvironment
  <2> QED  BY <2>1, <2>2, <2>3, PlainIsMethod DEF DefaultResponses
<1>3. CASE CreateAppConfigProfile
  <2>1. Calls("createAppConfigProfile")
    BY <1>3 DEF CreateAppConfigProfile
  <2>2. Fits("createAppConfigProfile", {"application"}, {"profile"})
    BY <2>1, ConfigurationIs
    DEF Fits, ConfigurationSetAt, Rank, Defaulted, TakingDefaults,
        ConfigurationFields
  <2>3. Plain({"application"}, {"profile"})
    BY <1>3, ChildReads, CreatesPlain, StillPlain DEF CreateAppConfigProfile
  <2> QED  BY <2>1, <2>2, <2>3, PlainIsMethod DEF DefaultResponses
<1>4. CASE CreateAppConfigVersion
  <2>1. Calls("createAppConfigVersion")
    BY <1>4 DEF CreateAppConfigVersion
  <2>2. Fits("createAppConfigVersion", {"application", "profile"}, {"version"})
    BY <2>1, ConfigurationIs
    DEF Fits, ConfigurationSetAt, Rank, Defaulted, TakingDefaults,
        ConfigurationFields
  <2>3. Plain({"application", "profile"}, {"version"})
    BY <1>4, ChildReads, CreatesPlain, StillPlain DEF CreateAppConfigVersion
  <2> QED  BY <2>1, <2>2, <2>3, PlainIsMethod DEF DefaultResponses
<1>5. CASE CreateAppConfigDeploymentStrategy
  <2>1. Calls("createAppConfigDeploymentStrategy")
    BY <1>5 DEF CreateAppConfigDeploymentStrategy
  <2>2. Fits("createAppConfigDeploymentStrategy", {}, {"deploymentStrategy"})
    BY <2>1, ConfigurationIs DEF Fits, ConfigurationSetAt, Rank
  <2>3. Plain({}, {"deploymentStrategy"})
    BY <1>5, ChildReads, CreatesPlain, StillPlain
    DEF CreateAppConfigDeploymentStrategy
  <2> QED  BY <2>1, <2>2, <2>3, PlainIsMethod
<1>6. CASE CreateAppConfigDeployment
  <2>1. Calls("createAppConfigDeployment")
    BY <1>6 DEF CreateAppConfigDeployment
  <2>2. Fits("createAppConfigDeployment",
             {"application", "configEnvironment", "profile", "version",
              "deploymentStrategy"}, {})
    BY <2>1, ConfigurationIs
    DEF Fits, ConfigurationSetAt, Rank, Defaulted, TakingDefaults,
        ConfigurationFields
  <2>3. Plain({"application", "configEnvironment", "profile", "version", "deploymentStrategy"},
              {})
    BY <1>6, ChildReads, CreatesPlain, StillPlain
    DEF CreateAppConfigDeployment, DeploymentNeeds, None
  <2> QED  BY <2>1, <2>2, <2>3, PlainIsMethod DEF DefaultResponses
<1>7. CASE ResolveEnvironmentVariables
  <2>1. Calls("resolveEnvironmentVariables")
    BY <1>7 DEF ResolveEnvironmentVariables
  <2>2. Fits("resolveEnvironmentVariables", {}, {"variables"})
    BY <2>1, ConfigurationIs DEF Fits, ConfigurationSetAt, Rank
  <2>3. Plain({}, {"variables"})
    BY <1>7, SetsPlain, StillPlain DEF ResolveEnvironmentVariables
  <2> QED  BY <2>1, <2>2, <2>3, PlainIsMethod
<1> QED  BY <1>1, <1>2, <1>3, <1>4, <1>5, <1>6, <1>7
          DEF ApplicationConfigurationStep
-----------------------------------------------------------------------------
(* Services with a role of their own *)

LEMMA ServiceIs ==
    ASSUME BuiltInv, NEW m \in DOMAIN Rank, Rank[m] \in 151..155, Calls(m)
    PROVE  SetAt = ServiceSetAt
BY WhoCalls
DEF Belongs, SetAtOf, ServiceClasses, FunctionClasses, SiteClasses, BackendClasses

LEMMA ServiceMethod ==
    ASSUME BuiltInv, ServiceStep
    PROVE  AMethod
<1>1. CASE CreateSqsToSfnCfnPipe
  <2>1. Calls("createSqsToSfnCfnPipe")
    BY <1>1 DEF CreateSqsToSfnCfnPipe
  <2>2. Fits("createSqsToSfnCfnPipe", {}, {"actsAs", "work"})
    BY <2>1, ServiceIs DEF Fits, ServiceSetAt, Rank
  <2>3. Plain({}, {"actsAs", "work"})
    BY <1>1, ChildReads, UnionReads, CreatesPlain, StillPlain
    DEF CreateSqsToSfnCfnPipe, Acts
  <2> QED  BY <2>1, <2>2, <2>3, PlainIsMethod
<1>2. CASE CreateSqsToLambdaCfnPipe
  <2>1. Calls("createSqsToLambdaCfnPipe")
    BY <1>2 DEF CreateSqsToLambdaCfnPipe
  <2>2. Fits("createSqsToLambdaCfnPipe", {}, {"actsAs", "work"})
    BY <2>1, ServiceIs DEF Fits, ServiceSetAt, Rank
  <2>3. Plain({}, {"actsAs", "work"})
    BY <1>2, ChildReads, UnionReads, CreatesPlain, StillPlain
    DEF CreateSqsToLambdaCfnPipe, Acts
  <2> QED  BY <2>1, <2>2, <2>3, PlainIsMethod
<1>3. CASE CreateDynamoDbToLambdaCfnPipe
  <2>1. Calls("createDynamoDbToLambdaCfnPipe")
    BY <1>3 DEF CreateDynamoDbToLambdaCfnPipe
  <2>2. Fits("createDynamoDbToLambdaCfnPipe", {}, {"actsAs", "work"})
    BY <2>1, ServiceIs DEF Fits, ServiceSetAt, Rank
  <2>3. Plain({}, {"actsAs", "work"})
    BY <1>3, ChildReads, UnionReads, CreatesPlain, StillPlain
    DEF CreateDynamoDbToLambdaCfnPipe, Acts
  <2> QED  BY <2>1, <2>2, <2>3, PlainIsMethod
<1>4. CASE CreateCloudTrail
  <2>1. Calls("createCloudTrail")
    BY <1>4 DEF CreateCloudTrail
  <2>2. Fits("createCloudTrail", {}, {"actsAs", "work"})
    BY <2>1, ServiceIs DEF Fits, ServiceSetAt, Rank
  <2>3. Plain({}, {"actsAs", "work"})
    BY <1>4, ChildReads, UnionReads, CreatesPlain, StillPlain
    DEF CreateCloudTrail, Acts
  <2> QED  BY <2>1, <2>2, <2>3, PlainIsMethod
<1>5. CASE CreateProjectForCloudfrontInvalidation
  <2>1. Calls("createProjectForCloudfrontInvalidation")
    BY <1>5 DEF CreateProjectForCloudfrontInvalidation
  <2>2. Fits("createProjectForCloudfrontInvalidation", {}, {"actsAs", "work"})
    BY <2>1, ServiceIs DEF Fits, ServiceSetAt, Rank
  <2>3. ReadsOnly(Child(<<"install-deps-project">>, {})
                   \union LogGroup(ProjectLogs, {})
                   \union Child(<<"role">>, {}), {})
    BY ChildReads, UnionReads DEF LogGroup
  <2>4. Plain({}, {"actsAs", "work"})
    BY <1>5, <2>3, CreatesPlain, StillPlain
    DEF CreateProjectForCloudfrontInvalidation, Acts
  <2> QED  BY <2>1, <2>2, <2>4, PlainIsMethod
<1> QED  BY <1>1, <1>2, <1>3, <1>4, <1>5 DEF ServiceStep
-----------------------------------------------------------------------------
(* SiteWithEcsBackend, SiteWithLambdaBackend and StaticSite *)

LEMMA SiteIs ==
    ASSUME BuiltInv, NEW m \in DOMAIN Rank, Rank[m] \in 101..136, Calls(m)
    PROVE  /\ SetAt = SiteSetAt
           /\ StaticSiteFields \ {"siteBucket"} \subseteq FieldsOf(this.class)
           /\ Rank[m] \in (101..104) \union (115..117) \union {127, 131, 133}
                => SiteFields \subseteq FieldsOf(this.class)
           /\ Rank[m] \in 106..114 => FieldsOf(this.class) = EcsSiteFields
           /\ Rank[m] \in 118..125 => FieldsOf(this.class) = LambdaSiteFields
           /\ Rank[m] \in {126, 130, 132, 134, 135}
                => FieldsOf(this.class) = StaticSiteFields
<1>1. /\ Belongs(this.class, Rank[m]) /\ SetAt = SetAtOf(this.class)
  BY WhoCalls
<1>2. /\ this.class \in SiteClasses
      /\ Rank[m] \in (101..104) \union (115..117) \union {127, 131, 133}
           => this.class \in BackendClasses
      /\ Rank[m] \in 106..114 => this.class = "SiteWithEcsBackend"
      /\ Rank[m] \in 118..125 => this.class = "SiteWithLambdaBackend"
      /\ Rank[m] \in {126, 130, 132, 134, 135} => this.class = "StaticSite"
  BY <1>1 DEF Belongs, SiteClasses, BackendClasses
<1>3. SetAt = SiteSetAt
  BY <1>1, <1>2 DEF SetAtOf, SiteClasses, BackendClasses, FunctionClasses
<1>4. /\ this.class \in BackendClasses => SiteFields \subseteq FieldsOf(this.class)
      /\ StaticSiteFields \ {"siteBucket"} \subseteq FieldsOf(this.class)
  BY <1>2, FieldsAre
  DEF SiteClasses, BackendClasses, SiteFields, EcsSiteFields, LambdaSiteFields,
      StaticSiteFields
<1> QED  BY <1>2, <1>3, <1>4, FieldsAre

LEMMA SiteMethod ==
    ASSUME BuiltInv, AwsSiteStep
    PROVE  AMethod
<1>1. CASE ResolveGlobalCertificate
  <2>1. Calls("resolveGlobalCertificate")
    BY <1>1 DEF ResolveGlobalCertificate
  <2>2. Fits("resolveGlobalCertificate", {}, {"certificate"})
    BY <2>1, SiteIs DEF Fits, SiteSetAt, Rank
  <2> DEFINE parameter == props.useExistingCertificate
                             /\ props.certificateInParameter
             arn == IF parameter THEN "parameter" ELSE props.certificateArn
             resources == Child(<<"certificate">>, {}) \union When(parameter,
                            ParameterReader(<<"certificate-parameter">>))
             values == [certificate |-> ResolvedCertificate(arn)]
  <2>3. ReadsOnly(resources, {}) /\ DOMAIN values \subseteq {"certificate"}
    BY ChildReads, WhenReads, UnionReads DEF ParameterReader
  <2>4. arn \in {NotSet, "callers", "callersAbroad", "parameter"}
    BY DEF BuiltInv, PropsInv
  <2>5. /\ props' = [props EXCEPT !.certificateArn = arn]
        /\ Builds({}, resources, values)
    BY <1>1 DEF ResolveGlobalCertificate
  <2> HIDE DEF arn, resources, values
  <2>6. Plain({}, {"certificate"})
    BY <2>3, <2>4, <2>5, BuildsPlain DEF ChangedProps
  <2> QED  BY <2>1, <2>2, <2>6, PlainIsMethod
<1>2. CASE ResolveRegionalCertificate
  <2>1. Calls("resolveRegionalCertificate")
    BY <1>2 DEF ResolveRegionalCertificate
  <2>2. Fits("resolveRegionalCertificate", {"hostedZone"},
             {"regionalCertificate"})
    BY <2>1, SiteIs
    DEF Fits, SiteSetAt, Rank, Defaulted, TakingDefaults, SiteFields
  <2> DEFINE given == props.regionalCertificate
             parameter == given.existing /\ given.inParameter
             arn == IF parameter THEN "parameter" ELSE given.arn
             resources == Child(<<"regional-certificate">>, {"hostedZone"})
                            \union When(parameter, ParameterReader(
                                          <<"regional-certificate-parameter">>))
             values == [regionalCertificate |->
                          IF ~given.existing THEN "created"
                          ELSE IF arn # NotSet THEN arn ELSE "byId"]
  <2>3. /\ ReadsOnly(resources, {"hostedZone"})
        /\ DOMAIN values \subseteq {"regionalCertificate"}
    BY ChildReads, LessReads, WhenReads, UnionReads DEF ParameterReader
  <2>4. /\ props' = [props EXCEPT !.regionalCertificate = [given EXCEPT !.arn = arn]]
        /\ Builds({"hostedZone"}, resources, values)
    BY <1>2 DEF ResolveRegionalCertificate
  <2> HIDE DEF given, arn, resources, values
  <2>5. Plain({"hostedZone"}, {"regionalCertificate"})
    BY <2>3, <2>4, BuildsPlain DEF ChangedProps
  <2> QED  BY <2>1, <2>2, <2>5, PlainIsMethod DEF DefaultResponses
<1>3. CASE ResolveSiteSecrets
  <2>1. Calls("resolveSiteSecrets")
    BY <1>3 DEF ResolveSiteSecrets
  <2>2. Fits("resolveSiteSecrets", {}, {})
    BY <2>1, SiteIs DEF Fits, SiteSetAt, Rank
  <2>3. Plain({}, {})
    BY <1>3, StillPlain DEF ResolveSiteSecrets
  <2> QED  BY <2>1, <2>2, <2>3, PlainIsMethod
<1>4. CASE ResolveSiteDomainNames
  <2>1. Calls("resolveSiteDomainNames")
    BY <1>4 DEF ResolveSiteDomainNames
  <2>2. Fits("resolveSiteDomainNames", {},
             {"internalDomainName", "externalDomainName"})
    BY <2>1, SiteIs DEF Fits, SiteSetAt, Rank
  <2>3. Plain({}, {"internalDomainName", "externalDomainName"})
    BY <1>4, SetsPlain, StillPlain DEF ResolveSiteDomainNames
  <2> QED  BY <2>1, <2>2, <2>3, PlainIsMethod
<1>5. CASE CreateSiteLogBucket
  <2>1. Calls("createSiteLogBucket")
    BY <1>5 DEF CreateSiteLogBucket
  <2>2. Fits("createSiteLogBucket", {}, {"logBucket"})
    BY <2>1, SiteIs DEF Fits, SiteSetAt, Rank
  <2>3. Plain({}, {"logBucket"})
    BY <1>5, ManagersRead, CreatesPlain, StillPlain DEF CreateSiteLogBucket
  <2> QED  BY <2>1, <2>2, <2>3, PlainIsMethod
<1>6. CASE CreateSiteOriginCachePolicy
  <2>1. Calls("createSiteOriginCachePolicy")
    BY <1>6 DEF CreateSiteOriginCachePolicy
  <2>2. Fits("createSiteOriginCachePolicy", {}, {"cachePolicy"})
    BY <2>1, SiteIs DEF Fits, SiteSetAt, Rank
  <2>3. Plain({}, {"cachePolicy"})
    BY <1>6, PolicyPlain DEF CreateSiteOriginCachePolicy
  <2> QED  BY <2>1, <2>2, <2>3, PlainIsMethod
<1>7. CASE CreateSiteOriginRequestPolicy
  <2>1. Calls("createSiteOriginRequestPolicy")
    BY <1>7 DEF CreateSiteOriginRequestPolicy
  <2>2. Fits("createSiteOriginRequestPolicy", {}, {"requestPolicy"})
    BY <2>1, SiteIs DEF Fits, SiteSetAt, Rank
  <2>3. Plain({}, {"requestPolicy"})
    BY <1>7, PolicyPlain DEF CreateSiteOriginRequestPolicy
  <2> QED  BY <2>1, <2>2, <2>3, PlainIsMethod
<1>8. CASE CreateSiteOriginResponseHeadersPolicy
  <2>1. Calls("createSiteOriginResponseHeadersPolicy")
    BY <1>8 DEF CreateSiteOriginResponseHeadersPolicy
  <2>2. Fits("createSiteOriginResponseHeadersPolicy", {}, {"headersPolicy"})
    BY <2>1, SiteIs DEF Fits, SiteSetAt, Rank
  <2>3. Plain({}, {"headersPolicy"})
    BY <1>8, PolicyPlain DEF CreateSiteOriginResponseHeadersPolicy
  <2> QED  BY <2>1, <2>2, <2>3, PlainIsMethod
<1>9. CASE CreateSiteOrigin
  <2>1. Calls("createSiteOrigin")
    BY <1>9 DEF CreateSiteOrigin
  <2>2. Fits("createSiteOrigin", {}, {"origin"})
    BY <2>1, SiteIs DEF Fits, SiteSetAt, Rank
  <2>3. Plain({}, {"origin"})
    BY <1>9, NothingReads, SetsPlain, CreatesPlain DEF CreateSiteOrigin
  <2> QED  BY <2>1, <2>2, <2>3, PlainIsMethod
<1>10. CASE CreateSiteCloudfrontFunction
  <2>1. Calls("createSiteCloudfrontFunction")
    BY <1>10 DEF CreateSiteCloudfrontFunction
  <2>2. Fits("createSiteCloudfrontFunction", {}, {"cloudfrontFunction"})
    BY <2>1, SiteIs DEF Fits, SiteSetAt, Rank
  <2>3. Plain({}, {"cloudfrontFunction"})
    BY <1>10, ChildReads, CreatesPlain, StillPlain
    DEF CreateSiteCloudfrontFunction
  <2> QED  BY <2>1, <2>2, <2>3, PlainIsMethod
<1>11. CASE ResolveSiteFunctionAssociations
  <2>1. Calls("resolveSiteFunctionAssociations")
    BY <1>11 DEF ResolveSiteFunctionAssociations
  <2>2. Fits("resolveSiteFunctionAssociations", {}, {"associations"})
    BY <2>1, SiteIs DEF Fits, SiteSetAt, Rank
  <2>3. Plain({}, {"associations"})
    BY <1>11, SetsPlain, StillPlain DEF ResolveSiteFunctionAssociations
  <2> QED  BY <2>1, <2>2, <2>3, PlainIsMethod
<1>12. CASE CreateDistribution
  <2>1. Calls("createDistribution")
    BY <1>12 DEF CreateDistribution
  <2>2. Fits("createDistribution",
             {"origin", "externalDomainName", "certificate", "logBucket",
              "associations", "cachePolicy", "requestPolicy", "headersPolicy"},
             {"distribution"})
    BY <2>1, SiteIs
    DEF Fits, SiteSetAt, Rank, Defaulted, TakingDefaults, SiteFields
  <2>3. {"origin", "externalDomainName"} \union (DistributionReads \union
         {"cachePolicy", "requestPolicy", "headersPolicy"})
         = {"origin", "externalDomainName", "certificate", "logBucket",
            "associations", "cachePolicy", "requestPolicy", "headersPolicy"}
    BY DEF DistributionReads
  <2>4. Plain({"origin", "externalDomainName", "certificate", "logBucket",
              "associations", "cachePolicy", "requestPolicy", "headersPolicy"},
              {"distribution"})
    BY <1>12, <2>3, ChildReads, CreatesPlain, StillPlain
    DEF CreateDistribution, CreatesDistribution
  <2> QED  BY <2>1, <2>2, <2>4, PlainIsMethod DEF DefaultResponses
<1>13. CASE CreateNetworkMappings
  <2>1. Calls("createNetworkMappings")
    BY <1>13 DEF CreateNetworkMappings
  <2>2. Fits("createNetworkMappings", {"distribution", "hostedZone"}, {"record"})
    BY <2>1, SiteIs
    DEF Fits, SiteSetAt, Rank, Defaulted, TakingDefaults, SiteFields
  <2>3. Plain({"distribution", "hostedZone"}, {"record"})
    BY <1>13, ChildReads, CreatesPlain, StillPlain
    DEF CreateNetworkMappings, RecordOf
  <2> QED  BY <2>1, <2>2, <2>3, PlainIsMethod DEF DefaultResponses
<1>14. CASE InvalidateDistributionCache
  <2>1. Calls("invalidateDistributionCache")
    BY <1>14 DEF InvalidateDistributionCache
  <2>2. Fits("invalidateDistributionCache", {"distribution"}, {})
    BY <2>1, SiteIs
    DEF Fits, SiteSetAt, Rank, Defaulted, TakingDefaults, StaticSiteFields
  <2>3. ReadsOnly(Child(<<"cache-invalidation">>, {"distribution"})
                   \union Suffixed(<<"cache-invalidation">>,
                                  "trigger-codebuild", {}), {"distribution"})
    BY ChildReads, LessReads, UnionReads
  <2>4. Plain({"distribution"}, {})
    BY <1>14, <2>3, CreatesPlain, StillPlain
    DEF InvalidateDistributionCache, None
  <2> QED  BY <2>1, <2>2, <2>4, PlainIsMethod DEF DefaultResponses
<1> QED  BY <1>1, <1>2, <1>3, <1>4, <1>5, <1>6, <1>7, <1>8, <1>9, <1>10, <1>11,
             <1>12, <1>13, <1>14
          DEF AwsSiteStep

LEMMA EcsBackendMethod ==
    ASSUME BuiltInv, EcsBackendStep
    PROVE  AMethod
<1>1. CASE CreateVpc
  <2>1. Calls("createVpc")
    BY <1>1 DEF CreateVpc
  <2>2. Fits("createVpc", {}, {"siteVpc"})
    BY <2>1, SiteIs DEF Fits, SiteSetAt, Rank
  <2>3. Plain({}, {"siteVpc"})
    BY <1>1, ChildReads, CreatesPlain, StillPlain DEF CreateVpc, CommonVpc
  <2> QED  BY <2>1, <2>2, <2>3, PlainIsMethod
<1>2. CASE CreateEcsPolicy
  <2>1. Calls("createEcsPolicy")
    BY <1>2 DEF CreateEcsPolicy
  <2>2. Fits("createEcsPolicy", {}, {"ecsPolicy"})
    BY <2>1, SiteIs DEF Fits, SiteSetAt, Rank
  <2>3. Plain({}, {"ecsPolicy"})
    BY <1>2, SetsPlain, StillPlain DEF CreateEcsPolicy
  <2> QED  BY <2>1, <2>2, <2>3, PlainIsMethod
<1>3. CASE CreateEcsRole
  <2>1. Calls("createEcsRole")
    BY <1>3 DEF CreateEcsRole
  <2>2. Fits("createEcsRole", {"ecsPolicy"}, {"actsAs"})
    BY <2>1, SiteIs
    DEF Fits, SiteSetAt, Rank, Defaulted, TakingDefaults, EcsSiteFields,
        SiteFields
  <2>3. ReadsOnly(Child(<<"ecs-role">>, {"ecsPolicy"})
                   \union Suffixed(<<"ecs-role">>,
                          "AmazonECSTaskExecutionRolePolicy", {}), {"ecsPolicy"})
    BY ChildReads, LessReads, UnionReads
  <2>4. Plain({"ecsPolicy"}, {"actsAs"})
    BY <1>3, <2>3, CreatesPlain DEF CreateEcsRole
  <2> QED  BY <2>1, <2>2, <2>4, PlainIsMethod DEF DefaultResponses
<1>4. CASE CreateEcsEnvironment
  <2>1. Calls("createEcsEnvironment")
    BY <1>4 DEF CreateEcsEnvironment
  <2>2. Fits("createEcsEnvironment", {}, {"ecsEnvironment"})
    BY <2>1, SiteIs DEF Fits, SiteSetAt, Rank
  <2>3. Plain({}, {"ecsEnvironment"})
    BY <1>4, SetsPlain, StillPlain DEF CreateEcsEnvironment
  <2> QED  BY <2>1, <2>2, <2>3, PlainIsMethod
<1>5. CASE CreateEcsCluster
  <2>1. Calls("createEcsCluster")
    BY <1>5 DEF CreateEcsCluster
  <2>2. Fits("createEcsCluster", {"siteVpc"}, {"cluster"})
    BY <2>1, SiteIs
    DEF Fits, SiteSetAt, Rank, Defaulted, TakingDefaults, EcsSiteFields,
        SiteFields
  <2>3. Plain({"siteVpc"}, {"cluster"})
    BY <1>5, ChildReads, CreatesPlain, StillPlain DEF CreateEcsCluster
  <2> QED  BY <2>1, <2>2, <2>3, PlainIsMethod DEF DefaultResponses
<1>6. CASE CreateEcsLogGroup
  <2>1. Calls("createEcsLogGroup")
    BY <1>6 DEF CreateEcsLogGroup
  <2>2. Fits("createEcsLogGroup", {}, {"logGroup"})
    BY <2>1, SiteIs DEF Fits, SiteSetAt, Rank
  <2>3. Plain({}, {"logGroup"})
    BY <1>6, ChildReads, CreatesPlain, StillPlain
    DEF CreateEcsLogGroup, LogGroup
  <2> QED  BY <2>1, <2>2, <2>3, PlainIsMethod
<1>7. CASE CreateEcsBuildArgs
  <2>1. Calls("createEcsBuildArgs")
    BY <1>7 DEF CreateEcsBuildArgs
  <2>2. Fits("createEcsBuildArgs", {}, {"buildArgs"})
    BY <2>1, SiteIs DEF Fits, SiteSetAt, Rank
  <2>3. Plain({}, {"buildArgs"})
    BY <1>7, SetsPlain, StillPlain DEF CreateEcsBuildArgs
  <2> QED  BY <2>1, <2>2, <2>3, PlainIsMethod
<1>8. CASE CreateEcsContainerImage
  <2>1. Calls("createEcsContainerImage")
    BY <1>8 DEF CreateEcsContainerImage
  <2>2. Fits("createEcsContainerImage", {}, {"image"})
    BY <2>1, SiteIs DEF Fits, SiteSetAt, Rank
  <2>3. Plain({}, {"image"})
    BY <1>8, SetsPlain, StillPlain DEF CreateEcsContainerImage
  <2> QED  BY <2>1, <2>2, <2>3, PlainIsMethod
<1>9. CASE CreateEcsService
  <2>1. Calls("createEcsService")
    BY <1>9 DEF CreateEcsService
  <2> DEFINE reads == ServiceReads \union {"siteVpc"}
             sets == {"service", "work", "actsAs", "fileSystem", "mounts"}
             resources == Child(<<"ecs-service">>, ServiceReads)
                            \union Scaling \union FileSystem
  <2>2. Fits("createEcsService", reads, sets)
    BY <2>1, SiteIs
    DEF Fits, SiteSetAt, Rank, Defaulted, TakingDefaults, EcsSiteFields,
        SiteFields, ServiceReads
  <2>3. \A id : /\ ReadsOnly(Child(id, ServiceReads), reads)
                /\ ReadsOnly(Child(id, {"siteVpc"}), reads)
                /\ ReadsOnly(Child(id, {}), reads)
    BY LessReads
  <2> HIDE DEF reads
  <2>4. ReadsOnly(Scaling, reads)
    BY <2>3 DEF Scaling, ReadsOnly
  <2>5. ReadsOnly(FileSystem, reads)
    BY <2>3 DEF FileSystem, ReadsOnly, When
  <2>6. ReadsOnly(resources, reads)
    BY <2>3, <2>4, <2>5, UnionReads
  <2>7. Plain(reads, sets)
    BY <1>9, <2>6, CreatesPlain, StillPlain DEF CreateEcsService
  <2> QED  BY <2>1, <2>2, <2>7, PlainIsMethod
           DEF DefaultResponses, reads, ServiceReads
<1> QED  BY <1>1, <1>2, <1>3, <1>4, <1>5, <1>6, <1>7, <1>8, <1>9
          DEF EcsBackendStep

LEMMA LambdaBackendMethod ==
    ASSUME BuiltInv, LambdaBackendStep
    PROVE  AMethod
<1>1. CASE CreateSiteStaticAssetDeployment
  <2>1. Calls("createSiteStaticAssetDeployment")
    BY <1>1 DEF CreateSiteStaticAssetDeployment
  <2>2. Fits("createSiteStaticAssetDeployment", {}, {})
    BY <2>1, SiteIs DEF Fits, SiteSetAt, Rank
  <2>3. Plain({}, {})
    BY <1>1, StillPlain DEF CreateSiteStaticAssetDeployment
  <2> QED  BY <2>1, <2>2, <2>3, PlainIsMethod
<1>2. CASE CreateSiteLambdaPolicy
  <2>1. Calls("createSiteLambdaPolicy")
    BY <1>2 DEF CreateSiteLambdaPolicy
  <2>2. Fits("createSiteLambdaPolicy", {}, {"lambdaPolicy"})
    BY <2>1, SiteIs DEF Fits, SiteSetAt, Rank
  <2>3. Plain({}, {"lambdaPolicy"})
    BY <1>2, SetsPlain, StillPlain DEF CreateSiteLambdaPolicy
  <2> QED  BY <2>1, <2>2, <2>3, PlainIsMethod
<1>3. CASE CreateSiteLambdaRole
  <2>1. Calls("createSiteLambdaRole")
    BY <1>3 DEF CreateSiteLambdaRole
  <2>2. Fits("createSiteLambdaRole", {"lambdaPolicy"}, {"lambdaRole"})
    BY <2>1, SiteIs
    DEF Fits, SiteSetAt, Rank, Defaulted, TakingDefaults, LambdaSiteFields
  <2>3. Plain({"lambdaPolicy"}, {"lambdaRole"})
    BY <1>3, ChildReads, ManagersRead, CreatesPlain, StillPlain
    DEF CreateSiteLambdaRole
  <2> QED  BY <2>1, <2>2, <2>3, PlainIsMethod DEF DefaultResponses
<1>4. CASE CreateSiteLambdaEnvironment
  <2>1. Calls("createSiteLambdaEnvironment")
    BY <1>4 DEF CreateSiteLambdaEnvironment
  <2>2. Fits("createSiteLambdaEnvironment", {}, {"environment"})
    BY <2>1, SiteIs DEF Fits, SiteSetAt, Rank
  <2>3. Plain({}, {"environment"})
    BY <1>4, SetsPlain, StillPlain DEF CreateSiteLambdaEnvironment
  <2> QED  BY <2>1, <2>2, <2>3, PlainIsMethod
<1>5. CASE CreateSiteLambdaLayers
  <2>1. Calls("createSiteLambdaLayers")
    BY <1>5 DEF CreateSiteLambdaLayers
  <2>2. Fits("createSiteLambdaLayers", {}, {"layers"})
    BY <2>1, SiteIs DEF Fits, SiteSetAt, Rank
  <2> DEFINE resources == Child(<<"web-adapter", "x86_64">>, {})
                            \union Child(<<"web-adapter", "arm64">>, {})
             values == [layers |-> "web adapter"]
  <2>3. ReadsOnly(resources, {}) /\ DOMAIN values \subseteq {"layers"}
    BY ChildReads DEF ReadsOnly
  <2>4. Creates({}, resources, values)
    BY <1>5 DEF CreateSiteLambdaLayers
  <2> HIDE DEF resources, values
  <2>5. Plain({}, {"layers"})
    BY <2>3, <2>4, CreatesPlain
  <2> QED  BY <2>1, <2>2, <2>5, PlainIsMethod
<1>6. CASE CreateSiteLambdaApplication
  <2>1. Calls("createSiteLambdaApplication")
    BY <1>6 DEF CreateSiteLambdaApplication
  <2>2. Fits("createSiteLambdaApplication", {}, {})
    BY <2>1, SiteIs DEF Fits, SiteSetAt, Rank
  <2>3. Plain({}, {})
    BY <1>6, StillPlain DEF CreateSiteLambdaApplication
  <2> QED  BY <2>1, <2>2, <2>3, PlainIsMethod
<1>7. CASE CreateSiteLambda
  <2>1. Calls("createSiteLambda")
    BY <1>7 DEF CreateSiteLambda
  <2>2. Fits("createSiteLambda", {"lambdaRole", "layers", "environment"},
             {"function", "versionCapacity"})
    BY <2>1, SiteIs
    DEF Fits, SiteSetAt, Rank, Defaulted, TakingDefaults, LambdaSiteFields
  <2>3. Plain({"lambdaRole", "layers", "environment"},
              {"function", "versionCapacity"})
    BY <1>7, ChildReads, ManagersRead, CreatesPlain, StillPlain
    DEF CreateSiteLambda
  <2> QED  BY <2>1, <2>2, <2>3, PlainIsMethod DEF DefaultResponses
<1>8. CASE CreateSiteLambdaUrl
  <2>1. Calls("createSiteLambdaUrl")
    BY <1>8 DEF CreateSiteLambdaUrl
  <2>2. Fits("createSiteLambdaUrl", {"function"}, {"url"})
    BY <2>1, SiteIs
    DEF Fits, SiteSetAt, Rank, Defaulted, TakingDefaults, LambdaSiteFields
  <2>3. Plain({"function"}, {"url"})
    BY <1>8, ChildReads, CreatesPlain, StillPlain DEF CreateSiteLambdaUrl
  <2> QED  BY <2>1, <2>2, <2>3, PlainIsMethod DEF DefaultResponses
<1> QED  BY <1>1, <1>2, <1>3, <1>4, <1>5, <1>6, <1>7, <1>8 DEF LambdaBackendStep

LEMMA AssetsIs ==
    ASSUME BuiltInv, NEW m \in DOMAIN Rank, Rank[m] \in 141..143, Calls(m)
    PROVE  SetAt = AssetSetAt /\ FieldsOf(this.class) = AssetFields
BY WhoCalls, FieldsAre
DEF Belongs, SetAtOf, FunctionClasses, SiteClasses, BackendClasses

LEMMA StaticSiteMethod ==
    ASSUME BuiltInv, StaticSiteStep
    PROVE  AMethod
<1>1. CASE CreateSiteBucket
  <2>1. Calls("createSiteBucket")
    BY <1>1 DEF CreateSiteBucket
  <2>2. Fits("createSiteBucket", {"logBucket"}, {"siteBucket"})
    BY <2>1, SiteIs
    DEF Fits, SiteSetAt, Rank, Defaulted, TakingDefaults, StaticSiteFields
  <2>3. Plain({"logBucket"}, {"siteBucket"})
    BY <1>1, ManagersRead, CreatesPlain DEF CreateSiteBucket
  <2> QED  BY <2>1, <2>2, <2>3, PlainIsMethod DEF DefaultResponses
<1>2. CASE CreateSiteOriginAccessIdentity
  <2>1. Calls("createSiteOriginAccessIdentity")
    BY <1>2 DEF CreateSiteOriginAccessIdentity
  <2>2. Fits("createSiteOriginAccessIdentity", {}, {})
    BY <2>1, SiteIs DEF Fits, SiteSetAt, Rank
  <2>3. Plain({}, {})
    BY <1>2, StillPlain DEF CreateSiteOriginAccessIdentity
  <2> QED  BY <2>1, <2>2, <2>3, PlainIsMethod
<1>3. CASE CreateSiteDistribution
  <2>1. Calls("createSiteDistribution")
    BY <1>3 DEF CreateSiteDistribution
  <2>2. Fits("createSiteDistribution",
             {"siteBucket", "certificate", "logBucket", "associations"},
             {"distribution"})
    BY <2>1, SiteIs
    DEF Fits, SiteSetAt, Rank, Defaulted, TakingDefaults, StaticSiteFields
  <2>3. {"siteBucket"} \union DistributionReads
         = {"siteBucket", "certificate", "logBucket", "associations"}
    BY DEF DistributionReads
  <2>4. Plain({"siteBucket", "certificate", "logBucket", "associations"},
              {"distribution"})
    BY <1>3, <2>3, ChildReads, CreatesPlain, StillPlain
    DEF CreateSiteDistribution, CreatesDistribution
  <2> QED  BY <2>1, <2>2, <2>4, PlainIsMethod DEF DefaultResponses
<1>4. CASE CreateSiteRouteAssets
  <2>1. Calls("createSiteRouteAssets")
    BY <1>4 DEF CreateSiteRouteAssets
  <2>2. Fits("createSiteRouteAssets", {"distribution", "hostedZone"}, {"record"})
    BY <2>1, SiteIs
    DEF Fits, SiteSetAt, Rank, Defaulted, TakingDefaults, StaticSiteFields
  <2>3. Plain({"distribution", "hostedZone"}, {"record"})
    BY <1>4, ChildReads, CreatesPlain, StillPlain
    DEF CreateSiteRouteAssets, RecordOf
  <2> QED  BY <2>1, <2>2, <2>3, PlainIsMethod DEF DefaultResponses
<1>5. CASE DeploySite
  <2>1. Calls("deploySite")
    BY <1>5 DEF DeploySite
  <2>2. Fits("deploySite", {"siteBucket", "distribution"}, {})
    BY <2>1, SiteIs
    DEF Fits, SiteSetAt, Rank, Defaulted, TakingDefaults, StaticSiteFields
  <2>3. Plain({"siteBucket", "distribution"}, {})
    BY <1>5, ChildReads, CreatesPlain, StillPlain DEF DeploySite, None
  <2> QED  BY <2>1, <2>2, <2>3, PlainIsMethod DEF DefaultResponses
<1>6. CASE CreateAssetBucket
  <2>1. Calls("createAssetBucket")
    BY <1>6 DEF CreateAssetBucket
  <2>2. Fits("createAssetBucket", {}, {"assetBucket"})
    BY <2>1, AssetsIs DEF Fits, AssetSetAt, Rank
  <2>3. Plain({}, {"assetBucket"})
    BY <1>6, ManagersRead, CreatesPlain, StillPlain DEF CreateAssetBucket
  <2> QED  BY <2>1, <2>2, <2>3, PlainIsMethod
<1>7. CASE ResolveDistribution
  <2>1. Calls("resolveDistribution")
    BY <1>7 DEF ResolveDistribution
  <2>2. Fits("resolveDistribution", {}, {"distribution"})
    BY <2>1, AssetsIs DEF Fits, AssetSetAt, Rank
  <2>3. Plain({}, {"distribution"})
    BY <1>7, ChildReads, CreatesPlain, StillPlain DEF ResolveDistribution
  <2> QED  BY <2>1, <2>2, <2>3, PlainIsMethod
<1>8. CASE DeployStaticAssets
  <2>1. Calls("deployStaticAssets")
    BY <1>8 DEF DeployStaticAssets
  <2>2. Fits("deployStaticAssets", {"assetBucket", "distribution"}, {})
    BY <2>1, AssetsIs
    DEF Fits, AssetSetAt, Rank, Defaulted, TakingDefaults, AssetFields
  <2>3. Plain({"assetBucket", "distribution"}, {})
    BY <1>8, ChildReads, CreatesPlain, StillPlain DEF DeployStaticAssets, None
  <2> QED  BY <2>1, <2>2, <2>3, PlainIsMethod DEF DefaultResponses
<1> QED  BY <1>1, <1>2, <1>3, <1>4, <1>5, <1>6, <1>7, <1>8 DEF StaticSiteStep
-----------------------------------------------------------------------------
(* The stack *)

LEMMA NextConstructKeeps ==
    ASSUME BuiltInv, NextConstruct(InitResources(plan[2]))
    PROVE  BuiltInv'
<1>1. /\ plan \in Seq(Constructs) /\ Len(plan) > 1 /\ plan' = Tail(plan)
      /\ todo' = InitResources(plan[2]) /\ todo = <<>> /\ status = "synth"
      /\ UNCHANGED <<props, fields, template, status>>
  BY DEF NextConstruct, BuiltInv, PlanInv
<1>2. /\ plan' \in Seq(Constructs) /\ plan' # <<>>
      /\ DOMAIN plan' = 1..(Len(plan) - 1) /\ DOMAIN plan = 1..Len(plan)
      /\ \A i \in DOMAIN plan' : i + 1 \in DOMAIN plan /\ plan'[i] = plan[i + 1]
      /\ this = plan[1] /\ this' = plan[2] /\ Len(plan) \in Nat
  BY <1>1 DEF this
<1>3. this'.class \in DOMAIN Classes /\ this'.id \in DOMAIN fields
      /\ DOMAIN fields[this'.id] = FieldsOf(this'.class)
      /\ this'.id # this.id
  BY <1>1, <1>2 DEF BuiltInv, PlanInv
<1>4. /\ Ordered(InitResources(plan[2]), this'.class)
      /\ InitResources(plan[2]) \in Seq(DOMAIN Rank)
  BY <1>2, <1>3, AllAreOrdered DEF InitResources, MethodsOf
<1>5. PlanInv'
  <2>1. \E n \in 0..Len(InitResources(this)') :
           todo' = SubSeq(InitResources(this)', n + 1, Len(InitResources(this)'))
    <3>1. InitResources(this)' = InitResources(plan[2])
      BY <1>2 DEF InitResources
    <3>2. InitResources(plan[2])
             = SubSeq(InitResources(plan[2]), 0 + 1, Len(InitResources(plan[2])))
      BY <1>4
    <3>3. 0 \in 0..Len(InitResources(plan[2]))
      BY <1>4
    <3> QED  BY <1>1, <3>1, <3>2, <3>3
  <2>2. /\ Ordered(todo, this.class)' /\ (todo \in Seq(DOMAIN Rank))'
    BY <1>1, <1>4 DEF Ordered
  <2>3. \A i \in DOMAIN plan' :
           /\ plan'[i].class \in DOMAIN Classes
           /\ plan'[i].id \in DOMAIN fields'
           /\ DOMAIN fields'[plan'[i].id] = FieldsOf(plan'[i].class)
    BY <1>1, <1>2 DEF BuiltInv, PlanInv
  <2>4. \A i, j \in DOMAIN plan' : i # j => plan'[i].id # plan'[j].id
    <3> SUFFICES ASSUME NEW i \in DOMAIN plan', NEW j \in DOMAIN plan', i # j
                 PROVE  plan'[i].id # plan'[j].id
      OBVIOUS
    <3>1. i + 1 # j + 1
      BY <1>2
    <3> QED  BY <1>2, <3>1 DEF BuiltInv, PlanInv
  <2>5. status' = "synth"
    BY <1>1
  <2> QED  BY <1>2, <2>1, <2>2, <2>3, <2>4, <2>5 DEF PlanInv
<1>6. PropsInv'
  BY <1>1 DEF BuiltInv, PropsInv
<1>7. FieldsInv'
  <2>1. fields[this'.id] = [f \in FieldsOf(this'.class) |-> NotSet]
    BY <1>1, <1>2 DEF BuiltInv, FieldsInv
  <2>2. \A f \in DOMAIN fields'[this'.id] : ~IsSet(f)'
    BY <1>1, <2>1 DEF IsSet, Field
  <2>3. \A i \in DOMAIN plan' : i # 1 =>
           fields'[plan'[i].id] = [f \in FieldsOf(plan'[i].class) |-> NotSet]
    <3> SUFFICES ASSUME NEW i \in DOMAIN plan', i # 1
                 PROVE  fields'[plan'[i].id] = [f \in FieldsOf(plan'[i].class) |-> NotSet]
      OBVIOUS
    <3>1. i + 1 # 1
      BY <1>2
    <3> QED  BY <1>1, <1>2, <3>1 DEF BuiltInv, FieldsInv
  <2>4. \A id \in DOMAIN fields' : \E class \in DOMAIN Classes :
           DOMAIN fields'[id] = FieldsOf(class)
    BY <1>1 DEF BuiltInv, FieldsInv
  <2> QED  BY <2>2, <2>3, <2>4 DEF FieldsInv
<1>8. TemplateInv'
  <2> SUFFICES ASSUME NEW r \in template
               PROVE  /\ r.of \in DOMAIN fields
                      /\ \A i \in DOMAIN plan' : r.of = plan'[i].id => i = 1
                      /\ DOMAIN r.reads \subseteq DOMAIN fields[r.of]
                      /\ \A f \in DOMAIN r.reads :
                           IF f \in DefaultResponses /\ TakesDefaults(r)
                           THEN r.reads[f] = NotSet
                           ELSE /\ r.reads[f] = fields[r.of][f]
                                /\ r.of = this'.id => Settled(f)'
    BY <1>1 DEF TemplateInv, TakesDefaults, IsOf
  <2>1. /\ r.of \in DOMAIN fields
        /\ \A i \in DOMAIN plan : r.of = plan[i].id => i = 1
        /\ DOMAIN r.reads \subseteq DOMAIN fields[r.of]
        /\ \A f \in DOMAIN r.reads :
             IF f \in DefaultResponses /\ TakesDefaults(r) THEN r.reads[f] = NotSet
             ELSE r.reads[f] = fields[r.of][f]
    BY DEF BuiltInv, TemplateInv
  <2>2. \A i \in DOMAIN plan' : r.of # plan'[i].id
    <3> SUFFICES ASSUME NEW i \in DOMAIN plan' PROVE r.of # plan'[i].id
      OBVIOUS
    <3>1. i + 1 # 1 /\ i + 1 \in DOMAIN plan
      BY <1>2
    <3> QED  BY <1>2, <2>1, <3>1
  <2>3. 1 \in DOMAIN plan' /\ plan'[1] = plan[2]
    BY <1>1, <1>2
  <2>4. r.of # plan[2].id
    BY <2>2, <2>3
  <2>5. r.of # this'.id
    BY <1>2, <2>4
  <2> QED  BY <2>1, <2>2, <2>5
<1> QED  BY <1>5, <1>6, <1>7, <1>8 DEF BuiltInv

LEMMA FinishKeeps ==
    ASSUME BuiltInv, Finish
    PROVE  BuiltInv'
<1>1. /\ UNCHANGED <<props, plan, todo, fields, template>>
      /\ todo = <<>> /\ Len(plan) = 1 /\ status' = "done"
  BY DEF Finish
<1>2. PlanInv'
  BY <1>1 DEF BuiltInv, PlanInv, this, Ordered, InitResources
<1>3. PropsInv' /\ FieldsInv'
  BY <1>1
  DEF BuiltInv, PropsInv, FieldsInv, Settled, Left, SetAt, this, IsSet, Field
<1>4. TemplateInv'
  BY <1>1
  DEF BuiltInv, TemplateInv, Settled, Left, SetAt, this, TakesDefaults, IsOf
<1> QED  BY <1>2, <1>3, <1>4 DEF BuiltInv

LEMMA StillKeeps ==
    ASSUME BuiltInv, UNCHANGED synthVars
    PROVE  BuiltInv'
<1>1. UNCHANGED <<props, plan, todo, fields, template, status>>
  BY DEF synthVars
<1>2. PlanInv'
  BY <1>1 DEF BuiltInv, PlanInv, this, Ordered, InitResources
<1>3. PropsInv' /\ FieldsInv'
  BY <1>1
  DEF BuiltInv, PropsInv, FieldsInv, Settled, Left, SetAt, this, IsSet, Field
<1>4. TemplateInv'
  BY <1>1
  DEF BuiltInv, TemplateInv, Settled, Left, SetAt, this, TakesDefaults, IsOf
<1> QED  BY <1>2, <1>3, <1>4 DEF BuiltInv

LEMMA ChosenPlan ==
    ASSUME NEW c \in Choices
    PROVE  /\ c.plan \in Seq(Constructs) /\ c.plan # <<>> /\ 1 \in DOMAIN c.plan
           /\ Head(c.plan) = c.plan[1] /\ c.plan[1].class \in DOMAIN Classes
<1>1. c.plan \in Seq(Constructs) /\ c.plan # <<>>
  BY ChoicesAssumption
<1>2. 1 \in DOMAIN c.plan /\ Head(c.plan) = c.plan[1]
  BY <1>1
<1>3. c.plan[1].class \in DOMAIN Classes
  BY <1>2, ChoicesAssumption
<1> QED  BY <1>1, <1>2, <1>3

LEMMA NewFieldsAre ==
    ASSUME NEW c \in Choices
    PROVE  /\ \A i \in DOMAIN c.plan :
                /\ c.plan[i].id \in DOMAIN NewFields(c.plan)
                /\ NewFields(c.plan)[c.plan[i].id]
                     = [f \in FieldsOf(c.plan[i].class) |-> NotSet]
           /\ \A id \in DOMAIN NewFields(c.plan) :
                \E class \in DOMAIN Classes :
                  DOMAIN NewFields(c.plan)[id] = FieldsOf(class)
<1>1. ASSUME NEW i \in DOMAIN c.plan
      PROVE  (CHOOSE j \in DOMAIN c.plan : c.plan[j].id = c.plan[i].id) = i
  <2>1. \E j \in DOMAIN c.plan : c.plan[j].id = c.plan[i].id
    OBVIOUS
  <2> DEFINE j == CHOOSE j \in DOMAIN c.plan : c.plan[j].id = c.plan[i].id
  <2>2. j \in DOMAIN c.plan /\ c.plan[j].id = c.plan[i].id
    BY <2>1
  <2> QED  BY <2>2, ChoicesAssumption
<1>2. \A i \in DOMAIN c.plan :
         /\ c.plan[i].id \in DOMAIN NewFields(c.plan)
         /\ NewFields(c.plan)[c.plan[i].id]
              = [f \in FieldsOf(c.plan[i].class) |-> NotSet]
  BY <1>1 DEF NewFields, FieldsOf
<1>3. \A id \in DOMAIN NewFields(c.plan) :
         \E i \in DOMAIN c.plan : id = c.plan[i].id
  BY DEF NewFields
<1>4. \A i \in DOMAIN c.plan : c.plan[i].class \in DOMAIN Classes
  BY ChoicesAssumption
<1> QED  BY <1>2, <1>3, <1>4

LEMMA InitBuilt == Init => BuiltInv
<1> SUFFICES ASSUME NEW c \in Choices,
                    props = c.props,
                    StartsWith(c.plan, InitResources(c.plan[1])),
                    fields = NewFields(c.plan)
             PROVE  BuiltInv
  BY DEF Init
<1>1. /\ plan = c.plan /\ todo = InitResources(c.plan[1])
      /\ template = {} /\ status = "synth"
  BY DEF StartsWith
<1>2. /\ plan \in Seq(Constructs) /\ plan # <<>> /\ 1 \in DOMAIN plan
      /\ this = plan[1] /\ this.class \in DOMAIN Classes
  BY <1>1, ChosenPlan DEF this
<1>3. /\ Ordered(todo, this.class) /\ todo \in Seq(DOMAIN Rank)
      /\ todo = InitResources(this)
  BY <1>1, <1>2, AllAreOrdered DEF InitResources, MethodsOf
<1>4. PlanInv
  <2>1. 0 \in 0..Len(InitResources(this))
        /\ todo = SubSeq(InitResources(this), 0 + 1, Len(InitResources(this)))
    BY <1>3
  <2>2. \A i \in DOMAIN plan :
           /\ plan[i].class \in DOMAIN Classes
           /\ plan[i].id \in DOMAIN fields
           /\ DOMAIN fields[plan[i].id] = FieldsOf(plan[i].class)
    <3> SUFFICES ASSUME NEW i \in DOMAIN c.plan
                 PROVE  /\ c.plan[i].class \in DOMAIN Classes
                        /\ c.plan[i].id \in DOMAIN fields
                        /\ DOMAIN fields[c.plan[i].id] = FieldsOf(c.plan[i].class)
      BY <1>1
    <3>1. fields[c.plan[i].id] = [f \in FieldsOf(c.plan[i].class) |-> NotSet]
          /\ c.plan[i].id \in DOMAIN fields
      BY NewFieldsAre
    <3>2. c.plan[i].class \in DOMAIN Classes
      BY ChoicesAssumption
    <3> QED  BY <3>1, <3>2
  <2>3. \A i, j \in DOMAIN plan : i # j => plan[i].id # plan[j].id
    BY <1>1, ChoicesAssumption
  <2>4. \E n \in 0..Len(InitResources(this)) :
           todo = SubSeq(InitResources(this), n + 1, Len(InitResources(this)))
    BY <2>1
  <2> QED  BY <1>1, <1>2, <1>3, <2>2, <2>3, <2>4 DEF PlanInv
<1>5. PropsInv
  <2>1. /\ ChangedProps \subseteq DOMAIN c.props
        /\ TellsCallersApart(c.props, {c.plan[i].id : i \in DOMAIN c.plan})
    BY ChoicesAssumption
  <2> QED  BY <2>1 DEF PropsInv, TellsCallersApart
<1>6. FieldsInv
  <2>1. /\ \A i \in DOMAIN plan :
             fields[plan[i].id] = [f \in FieldsOf(plan[i].class) |-> NotSet]
        /\ \A id \in DOMAIN fields : \E class \in DOMAIN Classes :
             DOMAIN fields[id] = FieldsOf(class)
    BY <1>1, NewFieldsAre
  <2>2. \A f \in DOMAIN fields[this.id] : ~IsSet(f)
    BY <1>2, <2>1 DEF IsSet, Field
  <2> QED  BY <2>1, <2>2 DEF FieldsInv
<1>7. TemplateInv
  BY <1>1 DEF TemplateInv
<1> QED  BY <1>4, <1>5, <1>6, <1>7 DEF BuiltInv

ConstructStep ==
    \/ SharedApiStep \/ ApiToEventBridgeTargetStep \/ WithSnsStep
    \/ ApiToLambdaTargetStep \/ ApiToAnyTargetStep \/ LambdaConstructsStep
    \/ ApplicationConfigurationStep \/ ServiceStep
    \/ AwsSiteStep \/ EcsBackendStep \/ LambdaBackendStep \/ StaticSiteStep

LEMMA EveryStepIsAMethod ==
    ASSUME BuiltInv, ConstructStep
    PROVE  AMethod
<1>1. CASE SharedApiStep \/ ApiToEventBridgeTargetStep \/ WithSnsStep
  BY <1>1, SharedApiMethod, EventBridgeTargetMethod, WithSnsMethod
<1>2. CASE ApiToLambdaTargetStep \/ ApiToAnyTargetStep \/ LambdaConstructsStep
  BY <1>2, LambdaTargetMethod, AnyTargetMethod, FunctionMethod
<1>3. CASE ApplicationConfigurationStep \/ ServiceStep
  BY <1>3, ConfigurationMethod, ServiceMethod
<1>4. CASE AwsSiteStep \/ EcsBackendStep
  BY <1>4, SiteMethod, EcsBackendMethod
<1>5. CASE LambdaBackendStep \/ StaticSiteStep
  BY <1>5, LambdaBackendMethod, StaticSiteMethod
<1> QED  BY <1>1, <1>2, <1>3, <1>4, <1>5 DEF ConstructStep

LEMMA NextBuilt == BuiltInv /\ [Next]_synthVars => BuiltInv'
<1> SUFFICES ASSUME BuiltInv, [Next]_synthVars PROVE BuiltInv'
  OBVIOUS
<1>1. CASE ConstructStep
  BY <1>1, EveryStepIsAMethod, MethodKeeps DEF AMethod
<1>2. CASE NextConstruct(InitResources(plan[2])) \/ Finish
  BY <1>2, NextConstructKeeps, FinishKeeps
<1>3. CASE UNCHANGED synthVars
  BY <1>3, StillKeeps
<1> QED  BY <1>1, <1>2, <1>3 DEF Next, ConstructStep

LEMMA BuiltWell == BuiltInv => WellBuilt
<1> SUFFICES ASSUME BuiltInv PROVE WellBuilt
  OBVIOUS
<1>1. TypeOK
  BY DEF BuiltInv, PlanInv, PropsInv, FieldsInv, TemplateInv, TypeOK, FieldsOf
<1>2. ReadsAreFinal
  BY DEF BuiltInv, TemplateInv, ReadsAreFinal
<1> QED  BY <1>1, <1>2 DEF WellBuilt

(* Whatever the props of a stack of AWS constructs and in whatever order   *)
(* it creates them: what a resource was built from is what its construct   *)
(* has in the end, so that no method reads a field before another sets it, *)
(* and none sets again what was read.  The default method responses of an  *)
(* API with events are the exception: it always takes none of them.        *)
THEOREM SpecWellBuilt == Spec => []WellBuilt
<1>1. Spec => []BuiltInv
  BY InitBuilt, NextBuilt, PTL DEF Spec
<1> QED  BY <1>1, BuiltWell, PTL
-----------------------------------------------------------------------------
(* Each action is the method of its name.                                  *)

LEMMA SharedApiCalls ==
    /\ ResolveSecrets => Head(todo) = "resolveSecrets"
    /\ ResolveHostedZone => Head(todo) = "resolveHostedZone"
    /\ ResolveCertificate => Head(todo) = "resolveCertificate"
    /\ CreateApiDomain => Head(todo) = "createApiDomain"
    /\ CreateApiBasePathMapping => Head(todo) = "createApiBasePathMapping"
    /\ CreateApiRouteAssets => Head(todo) = "createApiRouteAssets"
BY DEF Calls, ResolveSecrets, ResolveHostedZone, ResolveCertificate,
   CreateApiDomain, CreateApiBasePathMapping, CreateApiRouteAssets

LEMMA ApiToEventBridgeTargetCalls ==
    /\ CreateApiToEventBridgeTargetEventBus
         => Head(todo) = "createApiToEventBridgeTargetEventBus"
    /\ CreateApiToEventBridgeTargetLogGroup
         => Head(todo) = "createApiToEventBridgeTargetLogGroup"
    /\ CreateApiToEventBridgeTargetRule
         => Head(todo) = "createApiToEventBridgeTargetRule"
    /\ CreateApiToEventBridgeTargetPolicy
         => Head(todo) = "createApiToEventBridgeTargetPolicy"
    /\ CreateApiToEventBridgeTargetRole
         => Head(todo) = "createApiToEventBridgeTargetRole"
    /\ CreateApiToEventBridgeTargetIntegrationRequestParameters
         => Head(todo) = "createApiToEventBridgeTargetIntegrationRequestParameters"
    /\ CreateApiToEventBridgeTargetIntegrationRequestTemplates
         => Head(todo) = "createApiToEventBridgeTargetIntegrationRequestTemplates"
    /\ CreateApiToEventBridgeTargetIntegrationResponse
         => Head(todo) = "createApiToEventBridgeTargetIntegrationResponse"
    /\ CreateApiToEventBridgeTargetIntegrationErrorResponse
         => Head(todo) = "createApiToEventBridgeTargetIntegrationErrorResponse"
    /\ CreateApiToEventBridgeTargetIntegration
         => Head(todo) = "createApiToEventBridgeTargetIntegration"
    /\ CreateApiToEventBridgeTargetRestApi
         => Head(todo) = "createApiToEventBridgeTargetRestApi"
    /\ CreateApiToEventBridgeTargetResource
         => Head(todo) = "createApiToEventBridgeTargetResource"
    /\ CreateApiToEventBridgeTargetResponseModel
         => Head(todo) = "createApiToEventBridgeTargetResponseModel"
    /\ CreateApiToEventBridgeTargetErrorResponseModel
         => Head(todo) = "createApiToEventBridgeTargetErrorResponseModel"
    /\ CreateApiToEventBridgeTargetMethodResponse
         => Head(todo) = "createApiToEventBridgeTargetMethodResponse"
    /\ CreateApiToEventBridgeTargetMethodErrorResponse
         => Head(todo) = "createApiToEventBridgeTargetMethodErrorResponse"
    /\ CreateApiToEventBridgeTargetResourceMethod
         => Head(todo) = "createApiToEventBridgeTargetResourceMethod"
BY DEF Calls, CreateApiToEventBridgeTargetEventBus,
   CreateApiToEventBridgeTargetLogGroup, CreateApiToEventBridgeTargetRule,
   CreateApiToEventBridgeTargetPolicy, CreateApiToEventBridgeTargetRole,
   CreateApiToEventBridgeTargetIntegrationRequestParameters,
   CreateApiToEventBridgeTargetIntegrationRequestTemplates,
   CreateApiToEventBridgeTargetIntegrationResponse,
   CreateApiToEventBridgeTargetIntegrationErrorResponse,
   CreateApiToEventBridgeTargetIntegration, CreateApiToEventBridgeTargetRestApi,
   CreateApiToEventBridgeTargetResource,
   CreateApiToEventBridgeTargetResponseModel,
   CreateApiToEventBridgeTargetErrorResponseModel,
   CreateApiToEventBridgeTargetMethodResponse,
   CreateApiToEventBridgeTargetMethodErrorResponse,
   CreateApiToEventBridgeTargetResourceMethod

LEMMA WithSnsCalls ==
    /\ CreateApiDestinedEventBus
         => Head(todo) = "createApiDestinedEventBus"
    /\ CreateApiDestinedLambdaPolicy
         => Head(todo) = "createApiDestinedLambdaPolicy"
    /\ CreateApiDestinedLambdaRole
         => Head(todo) = "createApiDestinedLambdaRole"
    /\ CreateApiDestinedLambdaEnvironment
         => Head(todo) = "createApiDestinedLambdaEnvironment"
    /\ CreateApiDestinedLambdaLayers
         => Head(todo) = "createApiDestinedLambdaLayers"
    /\ CreateApiDestinedLambdaDestinations
         => Head(todo) = "createApiDestinedLambdaDestinations"
    /\ CreateApiDestinedLambdaFunction
         => Head(todo) = "createApiDestinedLambdaFunction"
    /\ CreateApiDestinationLogGroupSuccess
         => Head(todo) = "createApiDestinationLogGroupSuccess"
    /\ CreateApiDestinationRuleSuccess
         => Head(todo) = "createApiDestinationRuleSuccess"
    /\ CreateApiDestinationLogGroupFailure
         => Head(todo) = "createApiDestinationLogGroupFailure"
    /\ CreateApiDestinationRuleFailure
         => Head(todo) = "createApiDestinationRuleFailure"
    /\ CreateApiDestinedTopicRole
         => Head(todo) = "createApiDestinedTopicRole"
    /\ CreateApiDestinedTopic => Head(todo) = "createApiDestinedTopic"
    /\ CreateApiDestinedIntegrationRequestParameters
         => Head(todo) = "createApiDestinedIntegrationRequestParameters"
    /\ CreateApiDestinedIntegrationRequestTemplates
         => Head(todo) = "createApiDestinedIntegrationRequestTemplates"
    /\ CreateApiDestinedIntegrationResponse
         => Head(todo) = "createApiDestinedIntegrationResponse"
    /\ CreateApiDestinedIntegrationErrorResponse
         => Head(todo) = "createApiDestinedIntegrationErrorResponse"
    /\ CreateApiDestinedIntegration
         => Head(todo) = "createApiDestinedIntegration"
    /\ CreateApiDestinedRestApi => Head(todo) = "createApiDestinedRestApi"
    /\ CreateApiDestinedResource
         => Head(todo) = "createApiDestinedResource"
    /\ CreateApiDestinedResponseModel
         => Head(todo) = "createApiDestinedResponseModel"
    /\ CreateApiDestinedErrorResponseModel
         => Head(todo) = "createApiDestinedErrorResponseModel"
    /\ CreateApiDestinedMethodResponse
         => Head(todo) = "createApiDestinedMethodResponse"
    /\ CreateApiDestinedMethodErrorResponse
         => Head(todo) = "createApiDestinedMethodErrorResponse"
    /\ CreateApiDestinedResourceMethod
         => Head(todo) = "createApiDestinedResourceMethod"
BY DEF Calls, CreateApiDestinedEventBus, CreateApiDestinedLambdaPolicy,
   CreateApiDestinedLambdaRole, CreateApiDestinedLambdaEnvironment,
   CreateApiDestinedLambdaLayers, CreateApiDestinedLambdaDestinations,
   CreateApiDestinedLambdaFunction, CreateApiDestinationLogGroupSuccess,
   CreateApiDestinationRuleSuccess, CreateApiDestinationLogGroupFailure,
   CreateApiDestinationRuleFailure, CreateApiDestinedTopicRole,
   CreateApiDestinedTopic, CreateApiDestinedIntegrationRequestParameters,
   CreateApiDestinedIntegrationRequestTemplates,
   CreateApiDestinedIntegrationResponse,
   CreateApiDestinedIntegrationErrorResponse, CreateApiDestinedIntegration,
   CreateApiDestinedRestApi, CreateApiDestinedResource,
   CreateApiDestinedResponseModel, CreateApiDestinedErrorResponseModel,
   CreateApiDestinedMethodResponse, CreateApiDestinedMethodErrorResponse,
   CreateApiDestinedResourceMethod

LEMMA ApiToLambdaTargetCalls ==
    /\ CreateApiToLambdaTargetMethodResponse
         => Head(todo) = "createApiToLambdaTargetMethodResponse"
    /\ CreateApiToLambdaTargetMethodErrorResponse
         => Head(todo) = "createApiToLambdaTargetMethodErrorResponse"
    /\ ResolveApiToLambdaTargetFunction
         => Head(todo) = "resolveApiToLambdaTargetFunction"
    /\ CreateApiToLambdaTargetRestApi
         => Head(todo) = "createApiToLambdaTargetRestApi"
    /\ CreateApiToLambdaTargetResource
         => Head(todo) = "createApiToLambdaTargetResource"
    /\ CreateApiToLambdaTargetPolicy
         => Head(todo) = "createApiToLambdaTargetPolicy"
    /\ CreateApiToLambdaTargetRole
         => Head(todo) = "createApiToLambdaTargetRole"
    /\ CreateApiToLambdaTargetIntegration
         => Head(todo) = "createApiToLambdaTargetIntegration"
    /\ CreateApiToLambdaTargetResourceMethod
         => Head(todo) = "createApiToLambdaTargetResourceMethod"
BY DEF Calls, CreateApiToLambdaTargetMethodResponse,
   CreateApiToLambdaTargetMethodErrorResponse, ResolveApiToLambdaTargetFunction,
   CreateApiToLambdaTargetRestApi, CreateApiToLambdaTargetResource,
   CreateApiToLambdaTargetPolicy, CreateApiToLambdaTargetRole,
   CreateApiToLambdaTargetIntegration, CreateApiToLambdaTargetResourceMethod

LEMMA ApiToAnyTargetCalls ==
    /\ CreateApiToAnyTargetRestApi
         => Head(todo) = "createApiToAnyTargetRestApi"
    /\ CreateApiToAnyTargetResource
         => Head(todo) = "createApiToAnyTargetResource"
BY DEF Calls, CreateApiToAnyTargetRestApi, CreateApiToAnyTargetResource

LEMMA LambdaConstructsCalls ==
    /\ CreateLambdaPolicy => Head(todo) = "createLambdaPolicy"
    /\ CreateLambdaRole => Head(todo) = "createLambdaRole"
    /\ CreateLambdaEnvironment => Head(todo) = "createLambdaEnvironment"
    /\ CreateLambdaLayers => Head(todo) = "createLambdaLayers"
    /\ CreateLambdaFunction => Head(todo) = "createLambdaFunction"
    /\ CreateRestApi => Head(todo) = "createRestApi"
    /\ CreateRestApiResources => Head(todo) = "createRestApiResources"
    /\ CreateApiRootPathMapping => Head(todo) = "createApiRootPathMapping"
    /\ ResolveVpc => Head(todo) = "resolveVpc"
    /\ ResolveSecurityGroup => Head(todo) = "resolveSecurityGroup"
    /\ CreateElastiCache => Head(todo) = "createElastiCache"
    /\ ResolveLambdaVpc => Head(todo) = "resolveLambdaVpc"
    /\ ResolveSecurityGroups => Head(todo) = "resolveSecurityGroups"
    /\ CreateIamUserForLambdaFunction
         => Head(todo) = "createIamUserForLambdaFunction"
    /\ CreateIamSecretForLambdaFunction
         => Head(todo) = "createIamSecretForLambdaFunction"
BY DEF Calls, CreateLambdaPolicy, CreateLambdaRole, CreateLambdaEnvironment,
   CreateLambdaLayers, CreateLambdaFunction, CreateRestApi,
   CreateRestApiResources, CreateApiRootPathMapping, ResolveVpc,
   ResolveSecurityGroup, CreateElastiCache, ResolveLambdaVpc,
   ResolveSecurityGroups, CreateIamUserForLambdaFunction,
   CreateIamSecretForLambdaFunction

LEMMA ApplicationConfigurationCalls ==
    /\ CreateAppConfigApplication
         => Head(todo) = "createAppConfigApplication"
    /\ CreateAppConfigEnvironment
         => Head(todo) = "createAppConfigEnvironment"
    /\ CreateAppConfigProfile => Head(todo) = "createAppConfigProfile"
    /\ CreateAppConfigVersion => Head(todo) = "createAppConfigVersion"
    /\ CreateAppConfigDeploymentStrategy
         => Head(todo) = "createAppConfigDeploymentStrategy"
    /\ CreateAppConfigDeployment
         => Head(todo) = "createAppConfigDeployment"
    /\ ResolveEnvironmentVariables
         => Head(todo) = "resolveEnvironmentVariables"
BY DEF Calls, CreateAppConfigApplication, CreateAppConfigEnvironment,
   CreateAppConfigProfile, CreateAppConfigVersion,
   CreateAppConfigDeploymentStrategy, CreateAppConfigDeployment,
   ResolveEnvironmentVariables

LEMMA ServiceCalls ==
    /\ CreateSqsToSfnCfnPipe => Head(todo) = "createSqsToSfnCfnPipe"
    /\ CreateSqsToLambdaCfnPipe => Head(todo) = "createSqsToLambdaCfnPipe"
    /\ CreateDynamoDbToLambdaCfnPipe
         => Head(todo) = "createDynamoDbToLambdaCfnPipe"
    /\ CreateCloudTrail => Head(todo) = "createCloudTrail"
    /\ CreateProjectForCloudfrontInvalidation
         => Head(todo) = "createProjectForCloudfrontInvalidation"
BY DEF Calls, CreateSqsToSfnCfnPipe, CreateSqsToLambdaCfnPipe,
   CreateDynamoDbToLambdaCfnPipe, CreateCloudTrail,
   CreateProjectForCloudfrontInvalidation

LEMMA AwsSiteCalls ==
    /\ ResolveGlobalCertificate => Head(todo) = "resolveGlobalCertificate"
    /\ ResolveRegionalCertificate
         => Head(todo) = "resolveRegionalCertificate"
    /\ ResolveSiteSecrets => Head(todo) = "resolveSiteSecrets"
    /\ ResolveSiteDomainNames => Head(todo) = "resolveSiteDomainNames"
    /\ CreateSiteLogBucket => Head(todo) = "createSiteLogBucket"
    /\ CreateSiteOriginCachePolicy
         => Head(todo) = "createSiteOriginCachePolicy"
    /\ CreateSiteOriginRequestPolicy
         => Head(todo) = "createSiteOriginRequestPolicy"
    /\ CreateSiteOriginResponseHeadersPolicy
         => Head(todo) = "createSiteOriginResponseHeadersPolicy"
    /\ CreateSiteOrigin => Head(todo) = "createSiteOrigin"
    /\ CreateSiteCloudfrontFunction
         => Head(todo) = "createSiteCloudfrontFunction"
    /\ ResolveSiteFunctionAssociations
         => Head(todo) = "resolveSiteFunctionAssociations"
    /\ CreateDistribution => Head(todo) = "createDistribution"
    /\ CreateNetworkMappings => Head(todo) = "createNetworkMappings"
    /\ InvalidateDistributionCache
         => Head(todo) = "invalidateDistributionCache"
BY DEF Calls, ResolveGlobalCertificate, ResolveRegionalCertificate,
   ResolveSiteSecrets, ResolveSiteDomainNames, CreateSiteLogBucket,
   CreateSiteOriginCachePolicy, CreateSiteOriginRequestPolicy,
   CreateSiteOriginResponseHeadersPolicy, CreateSiteOrigin,
   CreateSiteCloudfrontFunction, ResolveSiteFunctionAssociations,
   CreateDistribution, CreateNetworkMappings, InvalidateDistributionCache

LEMMA EcsBackendCalls ==
    /\ CreateVpc => Head(todo) = "createVpc"
    /\ CreateEcsPolicy => Head(todo) = "createEcsPolicy"
    /\ CreateEcsRole => Head(todo) = "createEcsRole"
    /\ CreateEcsEnvironment => Head(todo) = "createEcsEnvironment"
    /\ CreateEcsCluster => Head(todo) = "createEcsCluster"
    /\ CreateEcsLogGroup => Head(todo) = "createEcsLogGroup"
    /\ CreateEcsBuildArgs => Head(todo) = "createEcsBuildArgs"
    /\ CreateEcsContainerImage => Head(todo) = "createEcsContainerImage"
    /\ CreateEcsService => Head(todo) = "createEcsService"
BY DEF Calls, CreateVpc, CreateEcsPolicy, CreateEcsRole, CreateEcsEnvironment,
   CreateEcsCluster, CreateEcsLogGroup, CreateEcsBuildArgs,
   CreateEcsContainerImage, CreateEcsService

LEMMA LambdaBackendCalls ==
    /\ CreateSiteStaticAssetDeployment
         => Head(todo) = "createSiteStaticAssetDeployment"
    /\ CreateSiteLambdaPolicy => Head(todo) = "createSiteLambdaPolicy"
    /\ CreateSiteLambdaRole => Head(todo) = "createSiteLambdaRole"
    /\ CreateSiteLambdaEnvironment
         => Head(todo) = "createSiteLambdaEnvironment"
    /\ CreateSiteLambdaLayers => Head(todo) = "createSiteLambdaLayers"
    /\ CreateSiteLambdaApplication
         => Head(todo) = "createSiteLambdaApplication"
    /\ CreateSiteLambda => Head(todo) = "createSiteLambda"
    /\ CreateSiteLambdaUrl => Head(todo) = "createSiteLambdaUrl"
BY DEF Calls, CreateSiteStaticAssetDeployment, CreateSiteLambdaPolicy,
   CreateSiteLambdaRole, CreateSiteLambdaEnvironment, CreateSiteLambdaLayers,
   CreateSiteLambdaApplication, CreateSiteLambda, CreateSiteLambdaUrl

LEMMA StaticSiteCalls ==
    /\ CreateSiteBucket => Head(todo) = "createSiteBucket"
    /\ CreateSiteOriginAccessIdentity
         => Head(todo) = "createSiteOriginAccessIdentity"
    /\ CreateSiteDistribution => Head(todo) = "createSiteDistribution"
    /\ CreateSiteRouteAssets => Head(todo) = "createSiteRouteAssets"
    /\ DeploySite => Head(todo) = "deploySite"
    /\ CreateAssetBucket => Head(todo) = "createAssetBucket"
    /\ ResolveDistribution => Head(todo) = "resolveDistribution"
    /\ DeployStaticAssets => Head(todo) = "deployStaticAssets"
BY DEF Calls, CreateSiteBucket, CreateSiteOriginAccessIdentity,
   CreateSiteDistribution, CreateSiteRouteAssets, DeploySite, CreateAssetBucket,
   ResolveDistribution, DeployStaticAssets

(* What is called is what is done.                                         *)
LEMMA DoesWhatIsCalled ==
    ASSUME ConstructStep
    PROVE
      /\ Head(todo) = "createApiToEventBridgeTargetEventBus"
           => CreateApiToEventBridgeTargetEventBus
      /\ Head(todo) = "createApiToEventBridgeTargetPolicy"
           => CreateApiToEventBridgeTargetPolicy
      /\ Head(todo) = "createApiToEventBridgeTargetRole"
           => CreateApiToEventBridgeTargetRole
      /\ Head(todo) = "createApiToEventBridgeTargetIntegrationRequestTemplates"
           => CreateApiToEventBridgeTargetIntegrationRequestTemplates
      /\ Head(todo) = "createApiToEventBridgeTargetIntegration"
           => CreateApiToEventBridgeTargetIntegration
      /\ Head(todo) = "createApiDestinedEventBus"
           => CreateApiDestinedEventBus
      /\ Head(todo) = "createApiDestinedLambdaPolicy"
           => CreateApiDestinedLambdaPolicy
      /\ Head(todo) = "createApiDestinedLambdaRole"
           => CreateApiDestinedLambdaRole
      /\ Head(todo) = "createApiDestinedLambdaDestinations"
           => CreateApiDestinedLambdaDestinations
      /\ Head(todo) = "createApiDestinedTopicRole"
           => CreateApiDestinedTopicRole
      /\ Head(todo) = "createApiDestinedTopic" => CreateApiDestinedTopic
      /\ Head(todo) = "createApiDestinedIntegrationRequestTemplates"
           => CreateApiDestinedIntegrationRequestTemplates
      /\ Head(todo) = "createApiDestinedIntegration"
           => CreateApiDestinedIntegration
      /\ Head(todo) = "resolveApiToLambdaTargetFunction"
           => ResolveApiToLambdaTargetFunction
      /\ Head(todo) = "createApiToLambdaTargetPolicy"
           => CreateApiToLambdaTargetPolicy
      /\ Head(todo) = "createApiToLambdaTargetRole"
           => CreateApiToLambdaTargetRole
      /\ Head(todo) = "createApiToLambdaTargetIntegration"
           => CreateApiToLambdaTargetIntegration
      /\ Head(todo) = "createLambdaPolicy" => CreateLambdaPolicy
      /\ Head(todo) = "createLambdaRole" => CreateLambdaRole
      /\ Head(todo) = "createLambdaLayers" => CreateLambdaLayers
      /\ Head(todo) = "resolveVpc" => ResolveVpc
      /\ Head(todo) = "resolveSecurityGroup" => ResolveSecurityGroup
      /\ Head(todo) = "createElastiCache" => CreateElastiCache
      /\ Head(todo) = "resolveLambdaVpc" => ResolveLambdaVpc
      /\ Head(todo) = "createSqsToSfnCfnPipe" => CreateSqsToSfnCfnPipe
      /\ Head(todo) = "createSqsToLambdaCfnPipe"
           => CreateSqsToLambdaCfnPipe
      /\ Head(todo) = "createDynamoDbToLambdaCfnPipe"
           => CreateDynamoDbToLambdaCfnPipe
      /\ Head(todo) = "createCloudTrail" => CreateCloudTrail
      /\ Head(todo) = "createProjectForCloudfrontInvalidation"
           => CreateProjectForCloudfrontInvalidation
      /\ Head(todo) = "createEcsPolicy" => CreateEcsPolicy
      /\ Head(todo) = "createEcsRole" => CreateEcsRole
      /\ Head(todo) = "createEcsService" => CreateEcsService
      /\ Head(todo) = "createApiDestinedLambdaEnvironment"
           => CreateApiDestinedLambdaEnvironment
      /\ Head(todo) = "createApiDestinationRuleSuccess"
           => CreateApiDestinationRuleSuccess
      /\ Head(todo) = "createApiDestinationRuleFailure"
           => CreateApiDestinationRuleFailure
      /\ Head(todo) = "createLambdaFunction" => CreateLambdaFunction
      /\ Head(todo) = "createSiteLambda" => CreateSiteLambda
      /\ Head(todo) = "resolveCertificate" => ResolveCertificate
      /\ Head(todo) = "resolveGlobalCertificate" => ResolveGlobalCertificate
      /\ Head(todo) = "resolveRegionalCertificate"
           => ResolveRegionalCertificate
      /\ Head(todo) = "resolveSiteDomainNames" => ResolveSiteDomainNames
      /\ Head(todo) = "createSiteOriginCachePolicy"
           => CreateSiteOriginCachePolicy
      /\ Head(todo) = "createSiteOriginRequestPolicy"
           => CreateSiteOriginRequestPolicy
      /\ Head(todo) = "createSiteOriginResponseHeadersPolicy"
           => CreateSiteOriginResponseHeadersPolicy
      /\ Head(todo) = "createDistribution" => CreateDistribution
      /\ Head(todo) = "createNetworkMappings" => CreateNetworkMappings
      /\ Head(todo) = "createSiteDistribution" => CreateSiteDistribution
<1>1. CASE SharedApiStep \/ ApiToEventBridgeTargetStep
  BY <1>1, SharedApiCalls, ApiToEventBridgeTargetCalls
  DEF SharedApiStep, ApiToEventBridgeTargetStep
<1>2. CASE WithSnsStep \/ ApiToLambdaTargetStep
  BY <1>2, WithSnsCalls, ApiToLambdaTargetCalls
  DEF WithSnsStep, ApiToLambdaTargetStep
<1>3. CASE ApiToAnyTargetStep \/ LambdaConstructsStep
  BY <1>3, ApiToAnyTargetCalls, LambdaConstructsCalls
  DEF ApiToAnyTargetStep, LambdaConstructsStep
<1>4. CASE ApplicationConfigurationStep \/ ServiceStep
  BY <1>4, ApplicationConfigurationCalls, ServiceCalls
  DEF ApplicationConfigurationStep, ServiceStep
<1>5. CASE AwsSiteStep \/ EcsBackendStep
  BY <1>5, AwsSiteCalls, EcsBackendCalls
  DEF AwsSiteStep, EcsBackendStep
<1>6. CASE LambdaBackendStep \/ StaticSiteStep
  BY <1>6, LambdaBackendCalls, StaticSiteCalls
  DEF LambdaBackendStep, StaticSiteStep
<1> QED  BY <1>1, <1>2, <1>3, <1>4, <1>5, <1>6 DEF ConstructStep
-----------------------------------------------------------------------------
(* What acts finds what it acts on *)

Ran(m) == m \notin Left

(* The fields that no method of the class sets after this one, or at all.  *)
SetBy(m) ==
    {f \in DOMAIN SetAt :
       \A r \in SetAt[f] : Belongs(this.class, r) => r =< Rank[m]}

NeverSet == {f \in DOMAIN SetAt : \A r \in SetAt[f] : ~Belongs(this.class, r)}

IsMethodOf(m, class) ==
    \E k \in DOMAIN MethodsOf(class) : MethodsOf(class)[k] = m

KeepsNamed ==
    NamedProps \subseteq DOMAIN props' /\ \A p \in NamedProps : props'[p] = props[p]

LEMMA NamedAreKept ==
    ASSUME KeepsProps, NamedProps \subseteq DOMAIN props
    PROVE  KeepsNamed
BY DEF KeepsProps, KeepsNamed, NamedProps, ChangedProps

(* Once a method has run, those left come after it.                        *)
LEMMA RanBefore ==
    ASSUME PlanInv, NEW m, IsMethodOf(m, this.class), Ran(m)
    PROVE  m \in DOMAIN Rank /\ \A s \in Left : Rank[m] < Rank[s]
<1> DEFINE M == InitResources(this)
<1>1. M = MethodsOf(this.class) /\ this.class \in DOMAIN Classes
  BY ThisIs DEF InitResources, MethodsOf
<1>2. M \in Seq(DOMAIN Rank) /\ Ordered(M, this.class)
  BY <1>1, AllAreOrdered
<1>3. PICK n \in 0..Len(M) : todo = SubSeq(M, n + 1, Len(M))
  BY DEF PlanInv
<1>4. PICK k \in DOMAIN M : M[k] = m
  BY <1>1 DEF IsMethodOf
<1> HIDE DEF M
<1>5. /\ Len(M) \in Nat /\ n \in Nat /\ n =< Len(M) /\ DOMAIN M = 1..Len(M)
      /\ DOMAIN todo = 1..(Len(M) - n)
      /\ \A j \in DOMAIN todo : todo[j] = M[n + j] /\ n + j \in DOMAIN M
  BY <1>2, <1>3
<1>6. k =< n
  <2> SUFFICES ASSUME n < k PROVE FALSE
    BY <1>4, <1>5
  <2>1. k - n \in DOMAIN todo /\ n + (k - n) = k
    BY <1>4, <1>5
  <2> QED  BY <1>4, <1>5, <2>1 DEF Ran, Left
<1>7. ASSUME NEW j \in DOMAIN todo
      PROVE  Rank[m] < Rank[todo[j]]
  <2>1. k < n + j
    BY <1>4, <1>5, <1>6
  <2> QED  BY <1>2, <1>4, <1>5, <2>1 DEF Ordered
<1> QED  BY <1>2, <1>4, <1>7 DEF Left, Ordered

(* What was set for good, other methods leave as it is.                    *)
LEMMA OthersKeep ==
    ASSUME BuiltInv, ConstructStep, NEW m, IsMethodOf(m, this.class),
           Head(todo) # m, Ran(m)'
    PROVE  /\ Ran(m)
           /\ \A f \in SetBy(m) \intersect DOMAIN fields[this.id] :
                fields'[this.id][f] = Field(f)
<1>1. PICK n, reads, sets : Method(n, reads, sets)
  BY EveryStepIsAMethod DEF AMethod
<1>2. Calls(n) /\ Changes(reads, sets) /\ Fits(n, reads, sets) /\ PlanInv
  BY <1>1 DEF Method, BuiltInv
<1>3. /\ n = Head(todo) /\ n \in Left /\ \A s \in Left : s = n \/ s \in Left'
      /\ Belongs(this.class, Rank[n])
  BY <1>2, WhenCalled DEF Calls
<1>4. Ran(m)
  BY <1>3 DEF Ran
<1>5. /\ Rank[m] \in Nat /\ Rank[n] \in Nat /\ Rank[m] < Rank[n]
      /\ \A f \in DOMAIN SetAt : SetAt[f] \subseteq Nat
  BY <1>2, <1>3, <1>4, RanBefore, RanksAreNumbers, WhenCalled DEF SetAt
<1>6. ASSUME NEW f \in SetBy(m) PROVE f \notin sets
  BY <1>2, <1>3, <1>5 DEF SetBy, Fits
<1> QED  BY <1>2, <1>4, <1>6 DEF Changes

LEMMA AllKeep ==
    ASSUME BuiltInv, ConstructStep
    PROVE  \A f \in NeverSet \intersect DOMAIN fields[this.id] :
             fields'[this.id][f] = Field(f)
<1>1. PICK n, reads, sets : Method(n, reads, sets)
  BY EveryStepIsAMethod DEF AMethod
<1>2. Calls(n) /\ Changes(reads, sets) /\ Fits(n, reads, sets) /\ PlanInv
  BY <1>1 DEF Method, BuiltInv
<1>3. Belongs(this.class, Rank[n])
  BY <1>2, WhenCalled
<1>4. ASSUME NEW f \in NeverSet PROVE f \notin sets
  BY <1>2, <1>3 DEF NeverSet, Fits
<1> QED  BY <1>2, <1>4 DEF Changes

(* What its own methods have not set yet, is not set.                      *)
LEMMA NotSetYet ==
    ASSUME BuiltInv, NEW m \in Left, NEW f \in DOMAIN fields[this.id],
           f \in DOMAIN SetAt => \A r \in SetAt[f] : Rank[m] =< r
    PROVE  ~IsSet(f)
<1>1. m \in DOMAIN Rank
  BY DEF BuiltInv, PlanInv, Left
<1>2. Rank[m] \in Nat /\ \A g \in DOMAIN SetAt : SetAt[g] \subseteq Nat
  BY <1>1, RanksAreNumbers DEF SetAt
<1>3. ASSUME f \in DOMAIN SetAt, NEW r \in SetAt[f], Rank[m] > r
      PROVE  FALSE
  <2>1. r \in Nat /\ Rank[m] =< r
    BY <1>2, <1>3
  <2> QED  BY <1>2, <1>3, <2>1
<1>4. IsSet(f) => f \in DOMAIN SetAt /\ \E r \in SetAt[f] : Rank[m] > r
  BY DEF BuiltInv, FieldsInv
<1> QED  BY <1>3, <1>4

LEMMA BuildsSets ==
    ASSUME PlanInv, NEW needs, NEW resources, NEW values,
           Builds(needs, resources, values), status' # "thrown"
    PROVE  /\ \A f \in needs : IsSet(f)
           /\ \A f \in DOMAIN fields[this.id] :
                fields'[this.id][f] = IF f \in DOMAIN values THEN values[f]
                                      ELSE Field(f)
BY ThisIs DEF Builds, With, Field, Lacks

LEMMA CreatesSets ==
    ASSUME PlanInv, NEW needs, NEW resources, NEW values,
           Creates(needs, resources, values), status' # "thrown"
    PROVE  /\ \A f \in needs : IsSet(f)
           /\ \A f \in DOMAIN fields[this.id] :
                fields'[this.id][f] = IF f \in DOMAIN values THEN values[f]
                                      ELSE Field(f)
BY BuildsSets DEF Creates

LEMMA SetsSets ==
    ASSUME PlanInv, NEW values, Sets(values), status' # "thrown"
    PROVE  \A f \in DOMAIN fields[this.id] :
             fields'[this.id][f] = IF f \in DOMAIN values THEN values[f]
                                   ELSE Field(f)
BY CreatesSets DEF Sets

(* What all steps have in common.                                          *)
LEMMA EveryStep ==
    ASSUME BuiltInv, ConstructStep, NamedProps \subseteq DOMAIN props
    PROVE  /\ plan' = plan /\ this' = this /\ KeepsNamed
           /\ Head(todo) \in Left /\ Head(todo) \notin Left'
           /\ \A s \in Left' : Rank[Head(todo)] < Rank[s]
           /\ DOMAIN fields' = DOMAIN fields
           /\ \A id \in DOMAIN fields :
                /\ DOMAIN fields'[id] = DOMAIN fields[id]
                /\ id # this.id => fields'[id] = fields[id]
<1>1. PICK n, reads, sets : Method(n, reads, sets)
  BY EveryStepIsAMethod DEF AMethod
<1>2. Calls(n) /\ Changes(reads, sets) /\ KeepsProps /\ PlanInv
  BY <1>1 DEF Method, BuiltInv
<1>3. /\ n = Head(todo) /\ n \in Left /\ plan' = plan /\ n \in DOMAIN Rank
      /\ Left' \subseteq DOMAIN Rank /\ \A s \in Left' : Rank[n] < Rank[s]
  BY <1>2, WhenCalled DEF Calls
<1>4. n \notin Left'
  BY <1>3, RanksAreNumbers
<1>5. KeepsNamed
  BY <1>2, NamedAreKept
<1> QED  BY <1>2, <1>3, <1>4, <1>5 DEF this, Changes

(* What comes earlier in a class than the method that is called, has run.  *)
LEMMA EarlierRan ==
    ASSUME PlanInv, todo # <<>>, NEW m \in DOMAIN Rank, Rank[m] < Rank[Head(todo)]
    PROVE  Ran(m)
<1>1. todo \in Seq(DOMAIN Rank) /\ Ordered(todo, this.class)
  BY DEF PlanInv
<1>2. /\ DOMAIN todo = 1..Len(todo) /\ Len(todo) \in Nat /\ 1 \in DOMAIN todo
      /\ Head(todo) = todo[1]
  BY <1>1
<1>3. ASSUME NEW j \in DOMAIN todo PROVE todo[j] # m
  <2>1. j = 1 \/ 1 < j
    BY <1>2
  <2>2. Rank[m] \in Nat /\ Rank[todo[1]] \in Nat /\ Rank[todo[j]] \in Nat
    BY <1>1, <1>2, RanksAreNumbers DEF Ordered
  <2>3. Rank[todo[1]] =< Rank[todo[j]]
    BY <1>1, <1>2, <2>1, <2>2 DEF Ordered
  <2> QED  BY <1>2, <2>2, <2>3
<1> QED  BY <1>3 DEF Ran, Left
-----------------------------------------------------------------------------
(* The API of events: the statement, the role, the request are of one bus. *)
EventsFound ==
    /\ Ran("createApiToEventBridgeTargetEventBus") =>
         Field("eventBus") = ExistingEventBus
    /\ Ran("createApiToEventBridgeTargetPolicy") =>
         Field("policy") = {StatementForPutEvents({Field("eventBus")})}
    /\ Ran("createApiToEventBridgeTargetRole") =>
         Field("role") = NewRole("apigateway", Field("policy"), {})
    /\ Ran("createApiToEventBridgeTargetIntegrationRequestTemplates")
         /\ props.withResource =>
         Field("integrationRequestTemplates")
           = [action |-> "events:PutEvents", to |-> Field("eventBus")]
    /\ Ran("createApiToEventBridgeTargetIntegration") /\ IsSet("integration") =>
         /\ props.withResource
         /\ Field("integration")
              = [uses |-> Field("role"),
                 sends |-> Field("integrationRequestTemplates")]

LEMMA EventsAre ==
    ASSUME this.class = "ApiToEventBridgeTarget", BuiltInv
    PROVE  /\ SetAt = EventSetAt /\ DOMAIN fields[this.id] = EventBridgeTargetFields
           /\ {"eventBus", "policy", "role", "integrationRequestTemplates",
               "integration"} \subseteq DOMAIN fields[this.id]
           /\ \A m \in {"createApiToEventBridgeTargetEventBus",
                        "createApiToEventBridgeTargetPolicy",
                        "createApiToEventBridgeTargetRole",
                        "createApiToEventBridgeTargetIntegrationRequestTemplates",
                        "createApiToEventBridgeTargetIntegration"} :
                IsMethodOf(m, this.class)
           /\ "eventBus" \in SetBy("createApiToEventBridgeTargetEventBus")
           /\ {"eventBus", "policy"}
                \subseteq SetBy("createApiToEventBridgeTargetPolicy")
           /\ {"policy", "role"}
                \subseteq SetBy("createApiToEventBridgeTargetRole")
           /\ {"eventBus", "integrationRequestTemplates"} \subseteq
                SetBy("createApiToEventBridgeTargetIntegrationRequestTemplates")
           /\ {"role", "integrationRequestTemplates", "integration"} \subseteq
                SetBy("createApiToEventBridgeTargetIntegration")
<1>1. SetAt = EventSetAt /\ DOMAIN fields[this.id] = EventBridgeTargetFields
  BY ThisIs, FieldsAre DEF SetAt, SetAtOf, BuiltInv
<1>2. {"eventBus", "policy", "role", "integrationRequestTemplates",
       "integration"} \subseteq DOMAIN fields[this.id]
  BY <1>1 DEF EventBridgeTargetFields, EventApiFields, ApiFields
<1>3. MethodsOf(this.class) = EventBridgeTargetMethods
  BY DEF MethodsOf, Classes
<1>4. /\ DOMAIN EventBridgeTargetMethods = 1..23
      /\ EventBridgeTargetMethods[4] = "createApiToEventBridgeTargetEventBus"
      /\ EventBridgeTargetMethods[7] = "createApiToEventBridgeTargetPolicy"
      /\ EventBridgeTargetMethods[8] = "createApiToEventBridgeTargetRole"
      /\ EventBridgeTargetMethods[10]
           = "createApiToEventBridgeTargetIntegrationRequestTemplates"
      /\ EventBridgeTargetMethods[13] = "createApiToEventBridgeTargetIntegration"
  BY DEF EventBridgeTargetMethods
<1>5. \A m \in {"createApiToEventBridgeTargetEventBus",
                "createApiToEventBridgeTargetPolicy",
                "createApiToEventBridgeTargetRole",
                "createApiToEventBridgeTargetIntegrationRequestTemplates",
                "createApiToEventBridgeTargetIntegration"} :
         IsMethodOf(m, this.class)
  BY <1>3, <1>4 DEF IsMethodOf
<1> QED  BY <1>1, <1>2, <1>5 DEF SetBy, EventSetAt, Rank

(* The API sends what its templates say, under its role, or nothing.       *)
IsIntegrated ==
    IsSet("integration")' =>
      /\ props.withResource
      /\ Field("integration")'
           = [uses |-> Field("role")', sends |-> Field("integrationRequestTemplates")']

LEMMA IntegratesSets ==
    ASSUME BuiltInv, NEW m \in Left, Integrates, status' # "thrown", this' = this,
           {"role", "integration", "integrationRequestTemplates"}
             \subseteq DOMAIN fields[this.id],
           \A r \in SetAt["integration"] : Rank[m] =< r
    PROVE  IsIntegrated
<1>1. CASE props.withResource
  <2> DEFINE values == [integration |->
                         [uses |-> Field("role"),
                          sends |-> Field("integrationRequestTemplates")]]
  <2>1. Sets(values) /\ values["integration"] = [uses |-> Field("role"),
                          sends |-> Field("integrationRequestTemplates")]
        /\ DOMAIN values = {"integration"}
    BY <1>1 DEF Integrates, IfWithResource
  <2> HIDE DEF values
  <2> QED  BY <1>1, <2>1, SetsSets DEF IsIntegrated, Field, BuiltInv
<1>2. CASE ~props.withResource
  <2>1. fields' = fields
    BY <1>2 DEF Integrates, IfWithResource, Returns
  <2>2. ~IsSet("integration")
    BY NotSetYet
  <2> QED  BY <2>1, <2>2 DEF IsIntegrated, IsSet, Field
<1> QED  BY <1>1, <1>2

LEMMA EventsStayFound ==
    ASSUME BuiltInv, EventsFound, this.class = "ApiToEventBridgeTarget",
           NamedProps \subseteq DOMAIN props, ConstructStep, status' # "thrown"
    PROVE  EventsFound'
<1>1. /\ this' = this /\ Head(todo) \in Left /\ PlanInv
      /\ \A p \in {"withResource", "eventBusName", "prefix", "suffix", "stage"} :
           props'[p] = props[p]
  BY EveryStep DEF KeepsNamed, NamedProps, BuiltInv
<1>2. ExistingEventBus' = ExistingEventBus
  BY <1>1 DEF ExistingEventBus, Format, EventBusName
<1> DEFINE bus == "createApiToEventBridgeTargetEventBus"
           policy == "createApiToEventBridgeTargetPolicy"
           role == "createApiToEventBridgeTargetRole"
           request == "createApiToEventBridgeTargetIntegrationRequestTemplates"
           integration == "createApiToEventBridgeTargetIntegration"
<1>3. Ran(bus)' => Field("eventBus")' = ExistingEventBus
  <2>1. CASE Head(todo) = bus
    <3>1. CreateApiToEventBridgeTargetEventBus
      BY <2>1, DoesWhatIsCalled
    <3>2. \E values : /\ Creates({}, EventBus(<<"event-bus">>), values)
                      /\ values = [eventBus |-> ExistingEventBus]
      BY <3>1
      DEF CreateApiToEventBridgeTargetEventBus, ExistingEventBus, Throws
    <3> QED  BY <1>1, <3>2, CreatesSets, EventsAre DEF Field
  <2>2. CASE Head(todo) # bus
    BY <1>1, <2>2, OthersKeep, EventsAre DEF EventsFound, Field
  <2> QED  BY <2>1, <2>2
<1>4. Ran(policy)' =>
        Field("policy")' = {StatementForPutEvents({Field("eventBus")'})}
  <2>1. CASE Head(todo) = policy
    <3>1. CreateApiToEventBridgeTargetPolicy
      BY <2>1, DoesWhatIsCalled
    <3>2. \E values :
            /\ Sets(values)
            /\ values = [policy |-> {StatementForPutEvents({Field("eventBus")})}]
      BY <3>1 DEF CreateApiToEventBridgeTargetPolicy, Throws
    <3> QED  BY <1>1, <3>2, SetsSets, EventsAre DEF Field
  <2>2. CASE Head(todo) # policy
    BY <1>1, <2>2, OthersKeep, EventsAre DEF EventsFound, Field
  <2> QED  BY <2>1, <2>2
<1>5. Ran(role)' => Field("role")' = NewRole("apigateway", Field("policy")', {})
  <2>1. CASE Head(todo) = role
    <3>1. CreateApiToEventBridgeTargetRole
      BY <2>1, DoesWhatIsCalled
    <3>2. \E values :
            /\ Creates({"policy"}, Child(<<"rest-api-role">>, {"policy"}), values)
            /\ values = [role |-> NewRole("apigateway", Field("policy"), {})]
      BY <3>1 DEF CreateApiToEventBridgeTargetRole
    <3> QED  BY <1>1, <3>2, CreatesSets, EventsAre DEF Field
  <2>2. CASE Head(todo) # role
    BY <1>1, <2>2, OthersKeep, EventsAre DEF EventsFound, Field
  <2> QED  BY <2>1, <2>2
<1>6. Ran(request)' /\ props.withResource =>
        Field("integrationRequestTemplates")'
          = [action |-> "events:PutEvents", to |-> Field("eventBus")']
  <2>1. CASE Head(todo) = request /\ props.withResource
    <3>1. CreateApiToEventBridgeTargetIntegrationRequestTemplates
      BY <2>1, DoesWhatIsCalled
    <3>2. \E values :
            /\ Sets(values)
            /\ values = [integrationRequestTemplates |->
                           [action |-> "events:PutEvents", to |-> Field("eventBus")]]
      BY <2>1, <3>1
      DEF CreateApiToEventBridgeTargetIntegrationRequestTemplates, IfWithResource
    <3> QED  BY <1>1, <3>2, SetsSets, EventsAre DEF Field
  <2>2. CASE Head(todo) # request
    BY <1>1, <2>2, OthersKeep, EventsAre DEF EventsFound, Field
  <2> QED  BY <2>1, <2>2
<1>7. Ran(integration)' /\ IsSet("integration")' =>
        /\ props.withResource
        /\ Field("integration")'
             = [uses |-> Field("role")',
                sends |-> Field("integrationRequestTemplates")']
  <2>1. CASE Head(todo) = integration
    <3>1. CreateApiToEventBridgeTargetIntegration
      BY <2>1, DoesWhatIsCalled
    <3>2. IsIntegrated
      BY <1>1, <2>1, <3>1, IntegratesSets, EventsAre
      DEF CreateApiToEventBridgeTargetIntegration, EventSetAt, Rank
    <3> QED  BY <3>2 DEF IsIntegrated
  <2>2. CASE Head(todo) # integration
    BY <1>1, <2>2, OthersKeep, EventsAre DEF EventsFound, Field, IsSet
  <2> QED  BY <2>1, <2>2
<1> QED  BY <1>1, <1>2, <1>3, <1>4, <1>5, <1>6, <1>7 DEF EventsFound
-----------------------------------------------------------------------------
(* The API of a topic: the function reports to the bus its role names, the *)
(* request is to the topic that the API was granted.                       *)
DestinedBus ==
    IF props.useExisting THEN ExistingDestinedBus ELSE Format(DestinedBusName)

Publisher == NewRole("apigateway", {Allow({"sns:Publish"}, {TopicName})}, {})

TopicFound ==
    /\ Ran("createApiDestinedEventBus") => Field("eventBus") = DestinedBus
    /\ Ran("createApiDestinedLambdaPolicy") /\ ~props.useExisting =>
         Field("lambdaPolicy") = {StatementForPutEvents({Field("eventBus")})}
    /\ Ran("createApiDestinedLambdaRole") /\ ~props.useExisting =>
         Field("lambdaRole") = RoleForLambda(Field("lambdaPolicy"))
    /\ Ran("createApiDestinedLambdaDestinations") /\ ~props.useExisting =>
         Field("destinationSuccess") = Field("eventBus")
    /\ Ran("createApiDestinedTopicRole") /\ ~Ran("createApiDestinedTopic") =>
         Field("role") = NewRole("apigateway", {}, {})
    /\ Ran("createApiDestinedTopic") /\ props.withResource =>
         Field("topic") = TopicName /\ Field("role") = Publisher
    /\ Ran("createApiDestinedIntegrationRequestTemplates")
         /\ props.withResource =>
         Field("integrationRequestTemplates")
           = [action |-> "sns:Publish", to |-> Field("topic")]
    /\ Ran("createApiDestinedIntegration") /\ IsSet("integration") =>
         /\ props.withResource
         /\ Field("integration")
              = [uses |-> Field("role"),
                 sends |-> Field("integrationRequestTemplates")]

LEMMA TopicIs ==
    ASSUME this.class = "ApiToEventBridgeTargetWithSns", BuiltInv
    PROVE  /\ SetAt = WithSnsSetAt /\ DOMAIN fields[this.id] = WithSnsFields
           /\ {"destinationSuccess", "eventBus", "integration",
               "integrationRequestTemplates", "lambdaPolicy", "lambdaRole",
               "role", "topic"}
                \subseteq DOMAIN fields[this.id]
           /\ \A m \in {"createApiDestinedEventBus",
                        "createApiDestinedLambdaPolicy",
                        "createApiDestinedLambdaRole",
                        "createApiDestinedLambdaDestinations",
                        "createApiDestinedTopicRole",
                        "createApiDestinedTopic",
                        "createApiDestinedIntegrationRequestTemplates",
                        "createApiDestinedIntegration"} :
                IsMethodOf(m, this.class)
           /\ {"eventBus"}
                \subseteq SetBy("createApiDestinedEventBus")
           /\ {"eventBus", "lambdaPolicy"}
                \subseteq SetBy("createApiDestinedLambdaPolicy")
           /\ {"lambdaPolicy", "lambdaRole"}
                \subseteq SetBy("createApiDestinedLambdaRole")
           /\ {"eventBus", "destinationSuccess"}
                \subseteq SetBy("createApiDestinedLambdaDestinations")
           /\ {"role", "topic"}
                \subseteq SetBy("createApiDestinedTopic")
           /\ {"topic", "integrationRequestTemplates"}
                \subseteq SetBy("createApiDestinedIntegrationRequestTemplates")
           /\ {"role", "integrationRequestTemplates", "integration"}
                \subseteq SetBy("createApiDestinedIntegration")
<1>1. SetAt = WithSnsSetAt /\ DOMAIN fields[this.id] = WithSnsFields
  BY ThisIs, FieldsAre DEF SetAt, SetAtOf, BuiltInv
<1>2. {"destinationSuccess", "eventBus", "integration",
       "integrationRequestTemplates", "lambdaPolicy", "lambdaRole", "role",
       "topic"} \subseteq DOMAIN fields[this.id]
  BY <1>1 DEF WithSnsFields, EventApiFields, ApiFields
<1>3. MethodsOf(this.class) = WithSnsMethods
  BY DEF MethodsOf, Classes
<1>4. /\ DOMAIN WithSnsMethods = 1..31
      /\ WithSnsMethods[4] = "createApiDestinedEventBus"
      /\ WithSnsMethods[5] = "createApiDestinedLambdaPolicy"
      /\ WithSnsMethods[6] = "createApiDestinedLambdaRole"
      /\ WithSnsMethods[9] = "createApiDestinedLambdaDestinations"
      /\ WithSnsMethods[15] = "createApiDestinedTopicRole"
      /\ WithSnsMethods[16] = "createApiDestinedTopic"
      /\ WithSnsMethods[18] = "createApiDestinedIntegrationRequestTemplates"
      /\ WithSnsMethods[21] = "createApiDestinedIntegration"
  BY DEF WithSnsMethods
<1>5. \A m \in {"createApiDestinedEventBus", "createApiDestinedLambdaPolicy",
                "createApiDestinedLambdaRole",
                "createApiDestinedLambdaDestinations",
                "createApiDestinedTopicRole", "createApiDestinedTopic",
                "createApiDestinedIntegrationRequestTemplates",
                "createApiDestinedIntegration"} :
         IsMethodOf(m, this.class)
  BY <1>3, <1>4 DEF IsMethodOf
<1> QED  BY <1>1, <1>2, <1>5 DEF SetBy, WithSnsSetAt, Rank

LEMMA TopicStaysFound ==
    ASSUME BuiltInv, TopicFound, this.class = "ApiToEventBridgeTargetWithSns",
           NamedProps \subseteq DOMAIN props, ConstructStep, status' # "thrown"
    PROVE  TopicFound'
<1>1. /\ this' = this /\ Head(todo) \in Left /\ PlanInv
      /\ \A s \in Left' : Rank[Head(todo)] < Rank[s]
      /\ \A p \in {"useExisting", "withResource", "eventBusName", "prefix",
                   "suffix", "stage"} : props'[p] = props[p]
  BY EveryStep DEF KeepsNamed, NamedProps, BuiltInv
<1>2. DestinedBus' = DestinedBus /\ TopicName' = TopicName /\ Publisher' = Publisher
  BY <1>1 DEF DestinedBus, ExistingDestinedBus, DestinedBusName, Format,
              TopicName, Publisher
<1> DEFINE
      bus == "createApiDestinedEventBus"
      lambdaPolicy == "createApiDestinedLambdaPolicy"
      lambdaRole == "createApiDestinedLambdaRole"
      destinations == "createApiDestinedLambdaDestinations"
      topicRole == "createApiDestinedTopicRole"
      topic == "createApiDestinedTopic"
      request == "createApiDestinedIntegrationRequestTemplates"
      integration == "createApiDestinedIntegration"
<1>3. Ran(bus)' => Field("eventBus")' = DestinedBus
  <2>1. CASE Head(todo) = bus
    <3>1. CreateApiDestinedEventBus
      BY <2>1, DoesWhatIsCalled
    <3>2. \E values :
            /\ Creates({}, EventBus(<<"destined-event-bus">>), values)
            /\ values = [eventBus |-> DestinedBus]
      BY <2>1, <3>1 DEF CreateApiDestinedEventBus, DestinedBus, Throws
    <3> QED  BY <1>1, <3>2, CreatesSets, TopicIs DEF Field
  <2>2. CASE Head(todo) # bus
    BY <1>1, <1>2, <2>2, OthersKeep, TopicIs DEF TopicFound, Field, IsSet
  <2> QED  BY <2>1, <2>2
<1>4. Ran(lambdaPolicy)' /\ ~props.useExisting =>
        Field("lambdaPolicy")' = {StatementForPutEvents({Field("eventBus")'})}
  <2>1. CASE Head(todo) = lambdaPolicy /\ ~props.useExisting
    <3>1. CreateApiDestinedLambdaPolicy
      BY <2>1, DoesWhatIsCalled
    <3>2. \E values :
            /\ Sets(values)
            /\ values = [lambdaPolicy |->
                           {StatementForPutEvents({Field("eventBus")})}]
      BY <2>1, <3>1 DEF CreateApiDestinedLambdaPolicy, IfOwned
    <3> QED  BY <1>1, <3>2, SetsSets, TopicIs DEF Field
  <2>2. CASE Head(todo) # lambdaPolicy
    BY <1>1, <1>2, <2>2, OthersKeep, TopicIs DEF TopicFound, Field, IsSet
  <2> QED  BY <2>1, <2>2
<1>5. Ran(lambdaRole)' /\ ~props.useExisting =>
        Field("lambdaRole")' = RoleForLambda(Field("lambdaPolicy")')
  <2>1. CASE Head(todo) = lambdaRole /\ ~props.useExisting
    <3>1. CreateApiDestinedLambdaRole
      BY <2>1, DoesWhatIsCalled
    <3>2. \E values :
            /\ Creates({"lambdaPolicy"},
                       RoleForLambdaResources(<<"lambda-destined-role">>,
                                              {"lambdaPolicy"}), values)
            /\ values = [lambdaRole |-> RoleForLambda(Field("lambdaPolicy"))]
      BY <2>1, <3>1 DEF CreateApiDestinedLambdaRole, IfOwned
    <3> QED  BY <1>1, <3>2, CreatesSets, TopicIs DEF Field
  <2>2. CASE Head(todo) # lambdaRole
    BY <1>1, <1>2, <2>2, OthersKeep, TopicIs DEF TopicFound, Field, IsSet
  <2> QED  BY <2>1, <2>2
<1>6. Ran(destinations)' /\ ~props.useExisting =>
        Field("destinationSuccess")' = Field("eventBus")'
  <2>1. CASE Head(todo) = destinations /\ ~props.useExisting
    <3>1. CreateApiDestinedLambdaDestinations
      BY <2>1, DoesWhatIsCalled
    <3>2. \E values :
            /\ Sets(values)
            /\ values = [destinationSuccess |-> Field("eventBus"),
                         destinationFailure |-> Field("eventBus")]
      BY <2>1, <3>1 DEF CreateApiDestinedLambdaDestinations, IfOwned, Throws
    <3> QED  BY <1>1, <3>2, SetsSets, TopicIs DEF Field
  <2>2. CASE Head(todo) # destinations
    BY <1>1, <1>2, <2>2, OthersKeep, TopicIs DEF TopicFound, Field, IsSet
  <2> QED  BY <2>1, <2>2
<1>7. Ran(topicRole)' /\ ~Ran(topic)' =>
        Field("role")' = NewRole("apigateway", {}, {})
  <2>1. CASE Head(todo) = topicRole
    <3>1. CreateApiDestinedTopicRole
      BY <2>1, DoesWhatIsCalled
    <3>2. \E values :
            /\ Creates({}, Child(<<"sns-rest-api-role">>, {}), values)
            /\ values = [role |-> NewRole("apigateway", {}, {})]
      BY <3>1 DEF CreateApiDestinedTopicRole
    <3> QED  BY <1>1, <3>2, CreatesSets, TopicIs DEF Field
  <2>2. ASSUME Head(todo) # topicRole, Ran(topicRole)', ~Ran(topic)'
        PROVE  FALSE
    <3>1. Ran(topicRole)
      BY <1>1, <2>2, OthersKeep, TopicIs
    <3>2. Rank[topicRole] < Rank[Head(todo)]
      BY <1>1, <3>1, TopicIs, RanBefore
    <3>3. topic \in Left'
      BY <2>2 DEF Ran
    <3>4. Rank[Head(todo)] < Rank[topic]
      BY <1>1, <3>3
    <3>5. Head(todo) \in DOMAIN Rank
      BY <1>1 DEF PlanInv, Left
    <3>6. Rank[Head(todo)] \in Nat
      BY <3>5, RanksAreNumbers
    <3>7. Rank[topicRole] = 42 /\ Rank[topic] = 43
      BY DEF Rank
    <3> QED  BY <3>2, <3>4, <3>6, <3>7
  <2> QED  BY <2>1, <2>2
<1>8. Ran(topic)' /\ props.withResource =>
        Field("topic")' = TopicName /\ Field("role")' = Publisher
  <2>1. CASE Head(todo) = topic /\ props.withResource
    <3>1. CreateApiDestinedTopic
      BY <2>1, DoesWhatIsCalled
    <3>2. \E values :
            /\ Creates({"function", "role"},
                       LambdaNotificationService(<<"destined-topic">>,
                                                 {"function"}), values)
            /\ values = [topic |-> TopicName, role |-> GrantPublish(TopicName)]
      BY <2>1, <3>1 DEF CreateApiDestinedTopic, IfWithResource
    <3>3. Field("role") = NewRole("apigateway", {}, {})
      <4>1. Rank[topicRole] < Rank[topic] /\ topicRole \in DOMAIN Rank
        BY DEF Rank
      <4>2. todo # <<>> /\ ~Ran(topic)
        BY <1>1, <2>1 DEF Left, Ran
      <4>3. Ran(topicRole)
        BY <1>1, <2>1, <4>1, <4>2, EarlierRan
      <4> QED  BY <4>2, <4>3 DEF TopicFound
    <3>4. GrantPublish(TopicName) = Publisher
      BY <3>3 DEF GrantPublish, Publisher, NewRole
    <3> QED  BY <1>1, <3>2, <3>4, CreatesSets, TopicIs DEF Field
  <2>2. CASE Head(todo) # topic
    BY <1>1, <1>2, <2>2, OthersKeep, TopicIs DEF TopicFound, Field, IsSet
  <2> QED  BY <2>1, <2>2
<1>9. Ran(request)' /\ props.withResource =>
        Field("integrationRequestTemplates")'
          = [action |-> "sns:Publish", to |-> Field("topic")']
  <2>1. CASE Head(todo) = request /\ props.withResource
    <3>1. CreateApiDestinedIntegrationRequestTemplates
      BY <2>1, DoesWhatIsCalled
    <3>2. \E values :
            /\ Sets(values)
            /\ values = [integrationRequestTemplates |->
                           [action |-> "sns:Publish", to |-> Field("topic")]]
      BY <2>1, <3>1 DEF CreateApiDestinedIntegrationRequestTemplates, IfWithResource,
          Throws
    <3> QED  BY <1>1, <3>2, SetsSets, TopicIs DEF Field
  <2>2. CASE Head(todo) # request
    BY <1>1, <1>2, <2>2, OthersKeep, TopicIs DEF TopicFound, Field, IsSet
  <2> QED  BY <2>1, <2>2
<1>10. Ran(integration)' /\ IsSet("integration")' =>
        /\ props.withResource
        /\ Field("integration")'
             = [uses |-> Field("role")',
                sends |-> Field("integrationRequestTemplates")']
  <2>1. CASE Head(todo) = integration
    <3>1. CreateApiDestinedIntegration
      BY <2>1, DoesWhatIsCalled
    <3>2. IsIntegrated
      BY <1>1, <2>1, <3>1, IntegratesSets, TopicIs
      DEF CreateApiDestinedIntegration, WithSnsSetAt, Rank
    <3> QED  BY <3>2 DEF IsIntegrated
  <2>2. CASE Head(todo) # integration
    BY <1>1, <2>2, OthersKeep, TopicIs DEF TopicFound, Field, IsSet
  <2> QED  BY <2>1, <2>2
<1> QED  BY <1>1, <1>2, <1>3, <1>4, <1>5, <1>6, <1>7, <1>8, <1>9, <1>10
         DEF TopicFound
-----------------------------------------------------------------------------
(* The API of a function: the role and the request are of that function.   *)
TargetFound ==
    /\ Ran("createApiToLambdaTargetPolicy") =>
         Field("policy") = {StatementForPutEvents({Any}),
                            StatementForInvokeLambda({Field("lambda")})}
    /\ Ran("createApiToLambdaTargetRole") =>
         Field("role") = NewRole("apigateway", Field("policy"), {})
    /\ Ran("createApiToLambdaTargetIntegration") =>
         Field("integration")
           = [uses |-> Field("role"),
              sends |-> [action |-> "lambda:InvokeFunction",
                         to |-> Field("lambda")]]

LEMMA TargetIs ==
    ASSUME this.class = "ApiToLambdaTarget", BuiltInv
    PROVE  /\ DOMAIN fields[this.id] = LambdaTargetFields
           /\ {"lambda", "policy", "role", "integration"}
                \subseteq DOMAIN fields[this.id]
           /\ \A m \in {"createApiToLambdaTargetPolicy",
                        "createApiToLambdaTargetRole",
                        "createApiToLambdaTargetIntegration"} :
                IsMethodOf(m, this.class)
           /\ {"lambda", "policy"} \subseteq SetBy("createApiToLambdaTargetPolicy")
           /\ {"policy", "role"} \subseteq SetBy("createApiToLambdaTargetRole")
           /\ {"lambda", "role", "integration"}
                \subseteq SetBy("createApiToLambdaTargetIntegration")
<1>1. SetAt = TargetSetAt /\ DOMAIN fields[this.id] = LambdaTargetFields
  BY ThisIs, FieldsAre DEF SetAt, SetAtOf, BuiltInv
<1>2. {"lambda", "policy", "role", "integration"} \subseteq DOMAIN fields[this.id]
  BY <1>1 DEF LambdaTargetFields, ApiFields
<1>3. MethodsOf(this.class) = LambdaTargetMethods
  BY DEF MethodsOf, Classes
<1>4. /\ DOMAIN LambdaTargetMethods = 1..15
      /\ LambdaTargetMethods[9] = "createApiToLambdaTargetPolicy"
      /\ LambdaTargetMethods[10] = "createApiToLambdaTargetRole"
      /\ LambdaTargetMethods[11] = "createApiToLambdaTargetIntegration"
  BY DEF LambdaTargetMethods
<1>5. \A m \in {"createApiToLambdaTargetPolicy", "createApiToLambdaTargetRole",
                "createApiToLambdaTargetIntegration"} :
         IsMethodOf(m, this.class)
  BY <1>3, <1>4 DEF IsMethodOf
<1> QED  BY <1>1, <1>2, <1>5 DEF SetBy, TargetSetAt, Rank

LEMMA TargetStaysFound ==
    ASSUME BuiltInv, TargetFound, this.class = "ApiToLambdaTarget",
           NamedProps \subseteq DOMAIN props, ConstructStep, status' # "thrown"
    PROVE  TargetFound'
<1>1. this' = this /\ Head(todo) \in Left /\ PlanInv
  BY EveryStep DEF BuiltInv
<1> DEFINE policy == "createApiToLambdaTargetPolicy"
           role == "createApiToLambdaTargetRole"
           integration == "createApiToLambdaTargetIntegration"
<1>2. Ran(policy)' =>
        Field("policy")' = {StatementForPutEvents({Any}),
                            StatementForInvokeLambda({Field("lambda")'})}
  <2>1. CASE Head(todo) = policy
    <3>1. CreateApiToLambdaTargetPolicy
      BY <2>1, DoesWhatIsCalled
    <3>2. \E values :
            /\ Sets(values)
            /\ values = [policy |-> {StatementForPutEvents({Any}),
                                     StatementForInvokeLambda({Field("lambda")})}]
      BY <3>1 DEF CreateApiToLambdaTargetPolicy
    <3> QED  BY <1>1, <3>2, SetsSets, TargetIs DEF Field
  <2>2. CASE Head(todo) # policy
    BY <1>1, <2>2, OthersKeep, TargetIs DEF TargetFound, Field
  <2> QED  BY <2>1, <2>2
<1>3. Ran(role)' => Field("role")' = NewRole("apigateway", Field("policy")', {})
  <2>1. CASE Head(todo) = role
    <3>1. CreateApiToLambdaTargetRole
      BY <2>1, DoesWhatIsCalled
    <3>2. \E values :
            /\ Creates({"policy"}, Child(<<"rest-api-role">>, {"policy"}), values)
            /\ values = [role |-> NewRole("apigateway", Field("policy"), {})]
      BY <3>1 DEF CreateApiToLambdaTargetRole
    <3> QED  BY <1>1, <3>2, CreatesSets, TargetIs DEF Field
  <2>2. CASE Head(todo) # role
    BY <1>1, <2>2, OthersKeep, TargetIs DEF TargetFound, Field
  <2> QED  BY <2>1, <2>2
<1>4. Ran(integration)' =>
        Field("integration")'
          = [uses |-> Field("role")',
             sends |-> [action |-> "lambda:InvokeFunction",
                        to |-> Field("lambda")']]
  <2>1. CASE Head(todo) = integration
    <3>1. CreateApiToLambdaTargetIntegration
      BY <2>1, DoesWhatIsCalled
    <3>2. \E values :
            /\ Sets(values)
            /\ values = [integration |->
                           [uses |-> Field("role"),
                            sends |-> [action |-> "lambda:InvokeFunction",
                                       to |-> Field("lambda")]]]
      BY <3>1 DEF CreateApiToLambdaTargetIntegration
    <3> QED  BY <1>1, <3>2, SetsSets, TargetIs DEF Field
  <2>2. CASE Head(todo) # integration
    BY <1>1, <2>2, OthersKeep, TargetIs DEF TargetFound, Field
  <2> QED  BY <2>1, <2>2
<1> QED  BY <1>2, <1>3, <1>4 DEF TargetFound
-----------------------------------------------------------------------------
(* A function: its role is for where it runs and for what it reads, its    *)
(* cache is in its group, which lets it in.                                *)
InItsVpc ==
    /\ this.class = "RestApiLambda" => ~IsSet("vpc")
    /\ this.class = "RestApiLambdaWithCache" /\ Ran("resolveVpc") => IsSet("vpc")
    /\ this.class = "LambdaWithIamAccess" /\ Ran("resolveLambdaVpc") =>
         (IsSet("vpc") <=> props.vpcName)

RoleFound ==
    /\ Ran("createLambdaPolicy") /\ this.class = "LambdaWithIamAccess" =>
         Field("lambdaPolicy") = IamAccessPolicy
    /\ Ran("createLambdaRole") =>
         /\ Field("lambdaRole").statements = Field("lambdaPolicy")
         /\ VpcAccess \subseteq Field("lambdaRole").managed <=> InVpc
    /\ Ran("createLambdaLayers") /\ this.class = "LambdaWithIamAccess" =>
         Field("layers").reads = props.configEnabled

CacheFound ==
    this.class = "RestApiLambdaWithCache" =>
      /\ Ran("resolveSecurityGroup") /\ Field("securityGroup") = "created" =>
           Field("ingress") = IngressRules
      /\ Ran("createElastiCache") /\ IsSet("cache") =>
           /\ props.restApiCache
           /\ Field("cache") = [group |-> Field("securityGroup"),
                                port |-> CachePort(props.cachePort)]

FunctionFound == InItsVpc /\ RoleFound /\ CacheFound

LEMMA FunctionsAre ==
    ASSUME this.class \in FunctionClasses, BuiltInv
    PROVE  /\ SetAt = FunctionSetAt
           /\ FunctionFields \subseteq DOMAIN fields[this.id]
           /\ this.class = "RestApiLambda" => "vpc" \in NeverSet
           /\ \A m \in {"createLambdaPolicy", "createLambdaRole",
                        "createLambdaLayers"} : IsMethodOf(m, this.class)
           /\ {"lambdaPolicy"} \subseteq SetBy("createLambdaPolicy")
           /\ {"lambdaPolicy", "lambdaRole"} \subseteq SetBy("createLambdaRole")
           /\ {"layers"} \subseteq SetBy("createLambdaLayers")
           /\ this.class = "RestApiLambdaWithCache" =>
                /\ DOMAIN fields[this.id] = WithCacheFields
                /\ \A m \in {"resolveVpc", "resolveSecurityGroup",
                             "createElastiCache"} : IsMethodOf(m, this.class)
                /\ {"vpc"} \subseteq SetBy("resolveVpc")
                /\ {"securityGroup", "ingress"} \subseteq SetBy("resolveSecurityGroup")
                /\ {"securityGroup", "cache"} \subseteq SetBy("createElastiCache")
           /\ this.class = "LambdaWithIamAccess" =>
                /\ IsMethodOf("resolveLambdaVpc", this.class)
                /\ {"vpc"} \subseteq SetBy("resolveLambdaVpc")
<1>1. /\ SetAt = FunctionSetAt
      /\ DOMAIN fields[this.id] = FieldsOf(this.class)
  BY ThisIs DEF SetAt, SetAtOf, FunctionClasses, BuiltInv
<1>2. /\ FunctionFields \subseteq DOMAIN fields[this.id]
      /\ this.class = "RestApiLambdaWithCache" =>
           DOMAIN fields[this.id] = WithCacheFields
  BY <1>1, FieldsAre
  DEF FunctionClasses, IamAccessFields, WithCacheFields, RestApiLambdaFields
<1>3. ASSUME this.class = "RestApiLambda"
      PROVE  /\ \A m \in {"createLambdaPolicy", "createLambdaRole",
                          "createLambdaLayers"} : IsMethodOf(m, this.class)
             /\ "vpc" \in NeverSet
  <2>1. MethodsOf(this.class) = RestApiLambdaMethods
    BY <1>3 DEF MethodsOf, Classes
  <2>2. /\ DOMAIN RestApiLambdaMethods = 1..13
        /\ RestApiLambdaMethods[4] = "createLambdaPolicy"
        /\ RestApiLambdaMethods[5] = "createLambdaRole"
        /\ RestApiLambdaMethods[7] = "createLambdaLayers"
    BY DEF RestApiLambdaMethods
  <2>3. "vpc" \in NeverSet
    BY <1>1, <1>3 DEF NeverSet, FunctionSetAt, Belongs
  <2> QED  BY <2>1, <2>2, <2>3 DEF IsMethodOf
<1>4. ASSUME this.class = "RestApiLambdaWithCache"
      PROVE  /\ \A m \in {"createLambdaPolicy", "createLambdaRole",
                          "createLambdaLayers", "resolveVpc",
                          "resolveSecurityGroup", "createElastiCache"} :
                  IsMethodOf(m, this.class)
             /\ {"vpc"} \subseteq SetBy("resolveVpc")
             /\ {"securityGroup", "ingress"} \subseteq SetBy("resolveSecurityGroup")
             /\ {"securityGroup", "cache"} \subseteq SetBy("createElastiCache")
  <2>1. MethodsOf(this.class) = RestApiLambdaWithCacheMethods
    BY <1>4 DEF MethodsOf, Classes
  <2>2. /\ DOMAIN RestApiLambdaWithCacheMethods = 1..16
        /\ RestApiLambdaWithCacheMethods[1] = "resolveVpc"
        /\ RestApiLambdaWithCacheMethods[2] = "resolveSecurityGroup"
        /\ RestApiLambdaWithCacheMethods[3] = "createElastiCache"
        /\ RestApiLambdaWithCacheMethods[7] = "createLambdaPolicy"
        /\ RestApiLambdaWithCacheMethods[8] = "createLambdaRole"
        /\ RestApiLambdaWithCacheMethods[10] = "createLambdaLayers"
    BY DEF RestApiLambdaWithCacheMethods, RestApiLambdaMethods
  <2>3. \A m \in {"createLambdaPolicy", "createLambdaRole",
                  "createLambdaLayers", "resolveVpc",
                  "resolveSecurityGroup", "createElastiCache"} :
           IsMethodOf(m, this.class)
    BY <2>1, <2>2 DEF IsMethodOf
  <2>4. /\ {"vpc"} \subseteq SetBy("resolveVpc")
        /\ {"securityGroup", "ingress"} \subseteq SetBy("resolveSecurityGroup")
        /\ {"securityGroup", "cache"} \subseteq SetBy("createElastiCache")
    BY <1>1, <1>4 DEF SetBy, FunctionSetAt, Belongs, Rank
  <2> QED  BY <2>3, <2>4
<1>5. ASSUME this.class = "LambdaWithIamAccess"
      PROVE  /\ \A m \in {"createLambdaPolicy", "createLambdaRole",
                          "createLambdaLayers", "resolveLambdaVpc"} :
                  IsMethodOf(m, this.class)
             /\ {"vpc"} \subseteq SetBy("resolveLambdaVpc")
  <2>1. MethodsOf(this.class) = LambdaWithIamAccessMethods
    BY <1>5 DEF MethodsOf, Classes
  <2>2. /\ DOMAIN LambdaWithIamAccessMethods = 1..9
        /\ LambdaWithIamAccessMethods[1] = "resolveLambdaVpc"
        /\ LambdaWithIamAccessMethods[3] = "createLambdaPolicy"
        /\ LambdaWithIamAccessMethods[4] = "createLambdaRole"
        /\ LambdaWithIamAccessMethods[6] = "createLambdaLayers"
    BY DEF LambdaWithIamAccessMethods
  <2>3. \A m \in {"createLambdaPolicy", "createLambdaRole",
                  "createLambdaLayers", "resolveLambdaVpc"} :
           IsMethodOf(m, this.class)
    BY <2>1, <2>2 DEF IsMethodOf
  <2>4. {"vpc"} \subseteq SetBy("resolveLambdaVpc")
    BY <1>1, <1>5 DEF SetBy, FunctionSetAt, Belongs, Rank
  <2> QED  BY <2>3, <2>4
<1>6. /\ {"lambdaPolicy"} \subseteq SetBy("createLambdaPolicy")
      /\ {"lambdaPolicy", "lambdaRole"} \subseteq SetBy("createLambdaRole")
      /\ {"layers"} \subseteq SetBy("createLambdaLayers")
  BY <1>1 DEF SetBy, FunctionSetAt, Rank
<1> QED  BY <1>1, <1>2, <1>3, <1>4, <1>5, <1>6 DEF FunctionClasses

LEMMA InItsVpcStays ==
    ASSUME BuiltInv, InItsVpc, this.class \in FunctionClasses,
           NamedProps \subseteq DOMAIN props, ConstructStep, status' # "thrown"
    PROVE  InItsVpc'
<1>1. /\ this' = this /\ Head(todo) \in Left /\ PlanInv
      /\ props'.vpcName = props.vpcName
      /\ "vpc" \in DOMAIN fields[this.id]
  BY EveryStep, FunctionsAre DEF KeepsNamed, NamedProps, BuiltInv, FunctionFields
<1>2. CASE this.class = "RestApiLambda"
  BY <1>1, <1>2, AllKeep, FunctionsAre DEF InItsVpc, IsSet, Field
<1>3. CASE this.class = "RestApiLambdaWithCache"
  <2>1. CASE Head(todo) = "resolveVpc"
    <3>1. \E values :
            /\ Creates({}, CommonVpc(<<"vpc">>), values)
            /\ values = [vpc |-> IF props.useExistingVpc THEN "existing"
                                 ELSE "created"]
      BY <2>1, DoesWhatIsCalled DEF ResolveVpc
    <3>2. Field("vpc")' \in {"existing", "created"}
      BY <1>1, <3>1, CreatesSets DEF Field
    <3> QED  BY <1>1, <1>3, <3>2, NotSetAssumption DEF InItsVpc, IsSet
  <2>2. CASE Head(todo) # "resolveVpc"
    BY <1>1, <1>3, <2>2, OthersKeep, FunctionsAre DEF InItsVpc, IsSet, Field
  <2> QED  BY <2>1, <2>2
<1>4. CASE this.class = "LambdaWithIamAccess"
  <2>1. CASE Head(todo) = "resolveLambdaVpc" /\ props.vpcName
    <3>1. \E values : /\ Creates({}, CommonVpc(<<"vpc">>), values)
                      /\ values = [vpc |-> "existing"]
      BY <2>1, DoesWhatIsCalled DEF ResolveLambdaVpc
    <3>2. Field("vpc")' = "existing"
      BY <1>1, <3>1, CreatesSets DEF Field
    <3> QED  BY <1>1, <1>4, <2>1, <3>2, NotSetAssumption DEF InItsVpc, IsSet
  <2>2. CASE Head(todo) = "resolveLambdaVpc" /\ ~props.vpcName
    <3>1. fields' = fields
      BY <2>2, DoesWhatIsCalled DEF ResolveLambdaVpc, Returns
    <3>2. ~IsSet("vpc")
      BY <1>1, <2>2, NotSetYet, FunctionsAre DEF FunctionSetAt, Rank
    <3> QED  BY <1>1, <1>4, <2>2, <3>1, <3>2 DEF InItsVpc, IsSet, Field
  <2>3. CASE Head(todo) # "resolveLambdaVpc"
    BY <1>1, <1>4, <2>3, OthersKeep, FunctionsAre DEF InItsVpc, IsSet, Field
  <2> QED  BY <2>1, <2>2, <2>3
<1> QED  BY <1>2, <1>3, <1>4 DEF FunctionClasses

LEMMA RoleStaysFound ==
    ASSUME BuiltInv, RoleFound, this.class \in FunctionClasses,
           NamedProps \subseteq DOMAIN props, ConstructStep, status' # "thrown"
    PROVE  RoleFound'
<1>1. /\ this' = this /\ Head(todo) \in Left /\ PlanInv
      /\ props'.vpcName = props.vpcName
      /\ props'.configEnabled = props.configEnabled
      /\ {"lambdaPolicy", "lambdaRole", "layers"} \subseteq DOMAIN fields[this.id]
  BY EveryStep, FunctionsAre DEF KeepsNamed, NamedProps, BuiltInv, FunctionFields
<1>2. /\ IamAccessPolicy' = IamAccessPolicy /\ InVpc' = InVpc
      /\ IsWithIamAccess <=> this.class = "LambdaWithIamAccess"
  BY <1>1 DEF IamAccessPolicy, InVpc, IsWithIamAccess, IsWithCache, When
<1>3. Ran("createLambdaPolicy")' /\ this.class = "LambdaWithIamAccess" =>
        Field("lambdaPolicy")' = IamAccessPolicy
  <2>1. CASE Head(todo) = "createLambdaPolicy" /\ this.class = "LambdaWithIamAccess"
    <3>1. \E values : Sets(values) /\ values = [lambdaPolicy |-> IamAccessPolicy]
      BY <1>2, <2>1, DoesWhatIsCalled DEF CreateLambdaPolicy
    <3> QED  BY <1>1, <3>1, SetsSets DEF Field
  <2>2. CASE Head(todo) # "createLambdaPolicy"
    BY <1>1, <2>2, OthersKeep, FunctionsAre DEF RoleFound, Field
  <2> QED  BY <2>1, <2>2
<1>4. Ran("createLambdaRole")' =>
        /\ Field("lambdaRole")'.statements = Field("lambdaPolicy")'
        /\ VpcAccess \subseteq Field("lambdaRole")'.managed <=> InVpc
  <2>1. CASE Head(todo) = "createLambdaRole"
    <3>1. PICK values, role :
            /\ Creates({"lambdaPolicy"},
                       RoleForLambdaResources(<<"lambda-role">>, {"lambdaPolicy"}),
                       values)
            /\ values = [lambdaRole |-> IF InVpc
                           THEN [role EXCEPT !.managed = @ \union VpcAccess]
                           ELSE role]
            /\ role = RoleForLambda(Field("lambdaPolicy"))
      BY <2>1, DoesWhatIsCalled DEF CreateLambdaRole
    <3>2. /\ Field("lambdaRole")' = IF InVpc
                THEN [role EXCEPT !.managed = @ \union VpcAccess] ELSE role
          /\ Field("lambdaPolicy")' = Field("lambdaPolicy")
      <4>1. \A f \in DOMAIN fields[this.id] :
               fields'[this.id][f] = IF f \in DOMAIN values THEN values[f]
                                     ELSE Field(f)
        BY <1>1, <3>1, CreatesSets
      <4> QED  BY <1>1, <3>1, <4>1 DEF Field
    <3>3. /\ role = [service |-> "lambda", statements |-> Field("lambdaPolicy"),
                     managed |-> {"AWSLambdaBasicExecutionRole"}]
          /\ VpcAccess = {"AWSLambdaVPCAccessExecutionRole"}
      BY <3>1 DEF RoleForLambda, NewRole, BasicExecution, VpcAccess
    <3> QED  BY <3>2, <3>3
  <2>2. CASE Head(todo) # "createLambdaRole"
    BY <1>1, <2>2, OthersKeep, FunctionsAre DEF RoleFound, Field
  <2> QED  BY <2>1, <2>2
<1>5. Ran("createLambdaLayers")' /\ this.class = "LambdaWithIamAccess" =>
        Field("layers")'.reads = props.configEnabled
  <2>1. CASE Head(todo) = "createLambdaLayers" /\ this.class = "LambdaWithIamAccess"
    <3>1. \E values, resources :
            /\ Creates({}, resources, values)
            /\ values = [layers |-> [own |-> Len(props.layerSources),
                                     reads |-> props.configEnabled]]
      BY <1>2, <2>1, DoesWhatIsCalled DEF CreateLambdaLayers
    <3> QED  BY <1>1, <3>1, CreatesSets DEF Field
  <2>2. CASE Head(todo) # "createLambdaLayers"
    BY <1>1, <2>2, OthersKeep, FunctionsAre DEF RoleFound, Field
  <2> QED  BY <2>1, <2>2
<1> QED  BY <1>1, <1>2, <1>3, <1>4, <1>5 DEF RoleFound

LEMMA CacheStaysFound ==
    ASSUME BuiltInv, CacheFound, this.class \in FunctionClasses,
           NamedProps \subseteq DOMAIN props, ConstructStep, status' # "thrown"
    PROVE  CacheFound'
<1>1. /\ this' = this /\ Head(todo) \in Left /\ PlanInv
      /\ \A p \in {"ingressRules", "restApiCache", "cachePort"} :
           props'[p] = props[p]
  BY EveryStep DEF KeepsNamed, NamedProps, BuiltInv
<1>2. SUFFICES ASSUME this.class = "RestApiLambdaWithCache"
               PROVE  CacheFound'
  BY <1>1 DEF CacheFound
<1>3. /\ IngressRules' = IngressRules
      /\ {"securityGroup", "ingress", "cache"} \subseteq DOMAIN fields[this.id]
  BY <1>1, <1>2, FunctionsAre
  DEF IngressRules, WithCacheFields, RestApiLambdaFields, FunctionFields
<1> DEFINE group == "resolveSecurityGroup"
           cache == "createElastiCache"
<1>4. Ran(group)' /\ Field("securityGroup")' = "created" =>
        Field("ingress")' = IngressRules
  <2>1. CASE Head(todo) = group /\ props.securityGroupExportName
    <3>1. \E values : /\ Creates({}, Child(<<"security-group">>, {}), values)
                      /\ values = [securityGroup |-> "existing"]
      BY <2>1, DoesWhatIsCalled DEF ResolveSecurityGroup
    <3>2. Field("securityGroup")' = "existing"
      BY <1>1, <1>3, <3>1, CreatesSets DEF Field
    <3> QED  BY <3>2
  <2>2. CASE Head(todo) = group /\ ~props.securityGroupExportName
    <3>1. \E values : /\ Creates({"vpc"}, Child(<<"security-group", props.stage>>,
                                                {"vpc"}), values)
                      /\ values = [securityGroup |-> "created",
                                   ingress |-> IngressRules]
      BY <2>2, DoesWhatIsCalled DEF ResolveSecurityGroup
    <3> QED  BY <1>1, <1>3, <3>1, CreatesSets DEF Field
  <2>3. CASE Head(todo) # group
    BY <1>1, <1>2, <1>3, <2>3, OthersKeep, FunctionsAre DEF CacheFound, Field
  <2> QED  BY <2>1, <2>2, <2>3
<1>5. Ran(cache)' /\ IsSet("cache")' =>
        /\ props.restApiCache
        /\ Field("cache")' = [group |-> Field("securityGroup")',
                              port |-> CachePort(props.cachePort)]
  <2>1. CASE Head(todo) = cache /\ props.restApiCache
    <3>1. \E values, resources :
            /\ Creates({"vpc", "securityGroup"}, resources, values)
            /\ values = [cache |-> [group |-> Field("securityGroup"),
                                    port |-> CachePort(props.cachePort)]]
      BY <2>1, DoesWhatIsCalled DEF CreateElastiCache
    <3> QED  BY <1>1, <1>3, <2>1, <3>1, CreatesSets DEF Field
  <2>2. CASE Head(todo) = cache /\ ~props.restApiCache
    <3>1. fields' = fields
      BY <2>2, DoesWhatIsCalled DEF CreateElastiCache, Returns
    <3>2. ~IsSet("cache")
      BY <1>1, <1>3, <2>2, NotSetYet, FunctionsAre DEF FunctionSetAt, Rank
    <3> QED  BY <1>1, <3>1, <3>2 DEF IsSet, Field
  <2>3. CASE Head(todo) # cache
    BY <1>1, <1>2, <1>3, <2>3, OthersKeep, FunctionsAre DEF CacheFound, Field, IsSet
  <2> QED  BY <2>1, <2>2, <2>3
<1> QED  BY <1>1, <1>3, <1>4, <1>5 DEF CacheFound, CachePort
-----------------------------------------------------------------------------
(* A service may do under its role what it is there to do, but for a trail *)
(* in another region than the one its role knows.                          *)
WorksAsAllowed(f) ==
    MayWork(f)
      <=> ~(f.actsAs.service = "cloudtrail" /\ props.region # "eu-west-1")

AllowsAll(role, work) == \A w \in work : Allows(role.statements, w[1], w[2])

LEMMA OnAllows ==
    ASSUME NEW role, NEW resource, NEW actions,
           \A a \in actions : Allows(role.statements, a, resource)
    PROVE  AllowsAll(role, On(resource, actions))
BY DEF AllowsAll, On

LEMMA BothAllow ==
    ASSUME NEW role, NEW work, NEW more, AllowsAll(role, work), AllowsAll(role, more)
    PROVE  AllowsAll(role, work \union more)
BY DEF AllowsAll

LEMMA SqsToSfnMayWork ==
    AllowsAll(RoleForSqsToSfnPipe(Queue, Machine),
              PollsQueue \union On(Machine, {"states:StartExecution"}))
<1> DEFINE role == RoleForSqsToSfnPipe(Queue, Machine)
<1>1. role.statements = {StatementForPollQueue({Queue}),
                         StatementForStartExecution({Machine})}
  BY DEF RoleForSqsToSfnPipe, NewRole
<1>2. \A a \in {"sqs:ReceiveMessage", "sqs:DeleteMessage",
                "sqs:GetQueueAttributes"} : Allows(role.statements, a, Queue)
  BY <1>1 DEF Allows, StatementForPollQueue, Allow
<1>3. Allows(role.statements, "states:StartExecution", Machine)
  BY <1>1 DEF Allows, StatementForStartExecution, Allow
<1> HIDE DEF role
<1>4. /\ AllowsAll(role, PollsQueue)
      /\ AllowsAll(role, On(Machine, {"states:StartExecution"}))
  BY <1>2, <1>3, OnAllows DEF PollsQueue
<1> QED  BY <1>4, BothAllow DEF role

LEMMA SqsToLambdaMayWork ==
    AllowsAll(RoleForSqsToLambdaPipe(Queue, Function),
              PollsQueue \union On(Function, {"lambda:InvokeFunction"}))
<1> DEFINE role == RoleForSqsToLambdaPipe(Queue, Function)
<1>1. role.statements = {StatementForPollQueue({Queue}),
                         StatementForInvokeLambda({Function})}
  BY DEF RoleForSqsToLambdaPipe, NewRole
<1>2. \A a \in {"sqs:ReceiveMessage", "sqs:DeleteMessage",
                "sqs:GetQueueAttributes"} : Allows(role.statements, a, Queue)
  BY <1>1 DEF Allows, StatementForPollQueue, Allow
<1>3. Allows(role.statements, "lambda:InvokeFunction", Function)
  BY <1>1 DEF Allows, StatementForInvokeLambda, Allow
<1> HIDE DEF role
<1>4. /\ AllowsAll(role, PollsQueue)
      /\ AllowsAll(role, On(Function, {"lambda:InvokeFunction"}))
  BY <1>2, <1>3, OnAllows DEF PollsQueue
<1> QED  BY <1>4, BothAllow DEF role

LEMMA DynamoDbToLambdaMayWork ==
    AllowsAll(RoleForDynamoDbToLambdaPipe(Stream, Function),
              ReadsStream \union On(Function, {"lambda:InvokeFunction"}))
<1> DEFINE role == RoleForDynamoDbToLambdaPipe(Stream, Function)
<1>1. role.statements = {StatementForDynamoDbStream({Stream}),
                         StatementForInvokeLambda({Function})}
  BY DEF RoleForDynamoDbToLambdaPipe, NewRole
<1>2. \A a \in {"dynamodb:DescribeStream", "dynamodb:GetRecords",
                "dynamodb:GetShardIterator", "dynamodb:ListStreams"} :
         Allows(role.statements, a, Stream)
  BY <1>1 DEF Allows, StatementForDynamoDbStream, Allow
<1>3. Allows(role.statements, "lambda:InvokeFunction", Function)
  BY <1>1 DEF Allows, StatementForInvokeLambda, Allow
<1> HIDE DEF role
<1>4. /\ AllowsAll(role, ReadsStream)
      /\ AllowsAll(role, On(Function, {"lambda:InvokeFunction"}))
  BY <1>2, <1>3, OnAllows DEF ReadsStream
<1> QED  BY <1>4, BothAllow DEF role

LEMMA BuildMayWork ==
    AllowsAll(RoleForCloudfrontInvalidation({Distribution}, {ProjectLogs}),
              On(Distribution, {"cloudfront:CreateInvalidation"})
                \union On(ProjectLogs, {"logs:CreateLogStream",
                                        "logs:PutLogEvents"}))
<1> DEFINE role == RoleForCloudfrontInvalidation({Distribution}, {ProjectLogs})
<1>1. {StatementForCreateAnyLogStream({ProjectLogs}),
       StatementForPutAnyLogEvent({ProjectLogs}),
       StatementForCloudfrontInvalidation({Distribution})} \subseteq role.statements
  BY DEF RoleForCloudfrontInvalidation, NewRole, CreatePolicyForCloudfrontInvalidation
<1>2. Allows(role.statements, "cloudfront:CreateInvalidation", Distribution)
  BY <1>1 DEF Allows, StatementForCloudfrontInvalidation, Allow
<1>3. /\ Allows(role.statements, "logs:CreateLogStream", ProjectLogs)
      /\ Allows(role.statements, "logs:PutLogEvents", ProjectLogs)
  BY <1>1 DEF Allows, StatementForCreateAnyLogStream, StatementForPutAnyLogEvent, Allow
<1> HIDE DEF role
<1>4. /\ AllowsAll(role, On(Distribution, {"cloudfront:CreateInvalidation"}))
      /\ AllowsAll(role, On(ProjectLogs, {"logs:CreateLogStream", "logs:PutLogEvents"}))
  BY <1>2, <1>3, OnAllows
<1> QED  BY <1>4, BothAllow DEF role

LEMMA TrailMayWork ==
    ASSUME NEW region
    PROVE  AllowsAll(RoleForCloudTrail,
                     On(TrailStreams(region),
                        {"logs:CreateLogStream", "logs:PutLogEvents"}))
             <=> region = "eu-west-1"
<1> DEFINE actions == {"logs:CreateLogStream", "logs:PutLogEvents"}
<1>1. RoleForCloudTrail.statements
        = {Allow({"logs:CreateLogStream"}, {TrailStreams("eu-west-1")}),
           Allow({"logs:PutLogEvents"}, {TrailStreams("eu-west-1")})}
  BY DEF RoleForCloudTrail, NewRole, StatementForCreateLogStream,
         StatementForPutLogEvent
<1>2. \A s \in RoleForCloudTrail.statements : s.on = {TrailStreams("eu-west-1")}
  BY <1>1 DEF Allow
<1>3. ASSUME region = "eu-west-1"
      PROVE  AllowsAll(RoleForCloudTrail, On(TrailStreams(region), actions))
  <2>1. \A a \in actions :
           Allows(RoleForCloudTrail.statements, a, TrailStreams(region))
    BY <1>1, <1>3 DEF Allows, Allow
  <2> QED  BY <2>1, OnAllows
<1>4. ASSUME AllowsAll(RoleForCloudTrail, On(TrailStreams(region), actions))
      PROVE  region = "eu-west-1"
  <2>1. Allows(RoleForCloudTrail.statements, "logs:PutLogEvents",
               TrailStreams(region))
    <3>1. <<"logs:PutLogEvents", TrailStreams(region)>>
            \in On(TrailStreams(region), actions)
      BY DEF On
    <3> QED  BY <1>4, <3>1 DEF AllowsAll
  <2>2. {TrailStreams("eu-west-1")} \intersect {TrailStreams(region), Any} # {}
    BY <1>2, <2>1 DEF Allows
  <2> QED  BY <2>2 DEF TrailStreams, Any
<1> QED  BY <1>3, <1>4

ServiceFound == Ran(this.class) => WorksAsAllowed(fields[this.id])

LEMMA ServicesAre ==
    ASSUME this.class \in ServiceClasses, BuiltInv
    PROVE  DOMAIN fields[this.id] = {"actsAs", "work"} /\ Left \subseteq {this.class}
<1>1. DOMAIN fields[this.id] = {"actsAs", "work"}
  BY ThisIs, FieldsAre DEF BuiltInv, ServiceFields
<1> DEFINE M == InitResources(this)
<1>2. M = <<this.class>>
  BY DEF InitResources, Classes, Service, ServiceMethods, ServiceClasses
<1>3. PICK n \in 0..Len(M) : todo = SubSeq(M, n + 1, Len(M))
  BY DEF BuiltInv, PlanInv
<1> HIDE DEF M
<1>4. /\ Len(M) = 1 /\ M \in Seq({this.class}) /\ n \in Nat
      /\ \A j \in DOMAIN todo : todo[j] = M[n + j] /\ n + j \in DOMAIN M
  BY <1>2, <1>3
<1>5. \A j \in DOMAIN M : M[j] = this.class
  BY <1>4
<1> QED  BY <1>1, <1>4, <1>5 DEF Left

LEMMA ActsSets ==
    ASSUME BuiltInv, this' = this, NEW resources, NEW role, NEW work,
           Acts(resources, role, work), status' # "thrown",
           {"actsAs", "work"} \subseteq DOMAIN fields[this.id]
    PROVE  Field("actsAs")' = role /\ Field("work")' = work
<1>1. \E values, all : /\ Creates({}, all, values)
                       /\ values = [actsAs |-> role, work |-> work]
  BY DEF Acts, Throws
<1> QED  BY <1>1, CreatesSets DEF Field, BuiltInv

LEMMA ServiceStaysFound ==
    ASSUME BuiltInv, this.class \in ServiceClasses,
           NamedProps \subseteq DOMAIN props, ConstructStep, status' # "thrown"
    PROVE  ServiceFound'
<1>1. /\ this' = this /\ Head(todo) \in Left /\ props'.region = props.region
      /\ DOMAIN fields[this.id] = {"actsAs", "work"} /\ Head(todo) = this.class
  BY EveryStep, ServicesAre DEF KeepsNamed, NamedProps
<1> SUFFICES WorksAsAllowed(fields[this.id])'
  BY DEF ServiceFound
<1> DEFINE role == Field("actsAs")'
           work == Field("work")'
<1>2. SUFFICES AllowsAll(role, work)
                 <=> ~(role.service = "cloudtrail" /\ props.region # "eu-west-1")
  BY <1>1 DEF WorksAsAllowed, MayWork, AllowsAll, Field
<1>3. CASE this.class = "createSqsToSfnCfnPipe"
  <2>1. /\ role = RoleForSqsToSfnPipe(Queue, Machine)
        /\ work = PollsQueue \union On(Machine, {"states:StartExecution"})
    BY <1>1, <1>3, DoesWhatIsCalled, ActsSets DEF CreateSqsToSfnCfnPipe
  <2>2. role.service = "pipes"
    BY <2>1 DEF RoleForSqsToSfnPipe, NewRole
  <2> HIDE DEF role, work
  <2> QED  BY <2>1, <2>2, SqsToSfnMayWork
<1>4. CASE this.class = "createSqsToLambdaCfnPipe"
  <2>1. /\ role = RoleForSqsToLambdaPipe(Queue, Function)
        /\ work = PollsQueue \union On(Function, {"lambda:InvokeFunction"})
    BY <1>1, <1>4, DoesWhatIsCalled, ActsSets DEF CreateSqsToLambdaCfnPipe
  <2>2. role.service = "pipes"
    BY <2>1 DEF RoleForSqsToLambdaPipe, NewRole
  <2> HIDE DEF role, work
  <2> QED  BY <2>1, <2>2, SqsToLambdaMayWork
<1>5. CASE this.class = "createDynamoDbToLambdaCfnPipe"
  <2>1. /\ role = RoleForDynamoDbToLambdaPipe(Stream, Function)
        /\ work = ReadsStream \union On(Function, {"lambda:InvokeFunction"})
    BY <1>1, <1>5, DoesWhatIsCalled, ActsSets DEF CreateDynamoDbToLambdaCfnPipe
  <2>2. role.service = "pipes"
    BY <2>1 DEF RoleForDynamoDbToLambdaPipe, NewRole
  <2> HIDE DEF role, work
  <2> QED  BY <2>1, <2>2, DynamoDbToLambdaMayWork
<1>6. CASE this.class = "createCloudTrail"
  <2>1. /\ role = RoleForCloudTrail
        /\ work = On(TrailStreams(props.region),
                     {"logs:CreateLogStream", "logs:PutLogEvents"})
    BY <1>1, <1>6, DoesWhatIsCalled, ActsSets DEF CreateCloudTrail
  <2>2. role.service = "cloudtrail"
    BY <2>1 DEF RoleForCloudTrail, NewRole
  <2> HIDE DEF role, work
  <2> QED  BY <2>1, <2>2, TrailMayWork
<1>7. CASE this.class = "createProjectForCloudfrontInvalidation"
  <2>1. /\ role = RoleForCloudfrontInvalidation({Distribution}, {ProjectLogs})
        /\ work = On(Distribution, {"cloudfront:CreateInvalidation"})
                    \union On(ProjectLogs, {"logs:CreateLogStream",
                                            "logs:PutLogEvents"})
    BY <1>1, <1>7, DoesWhatIsCalled, ActsSets
    DEF CreateProjectForCloudfrontInvalidation
  <2>2. role.service = "codebuild"
    BY <2>1 DEF RoleForCloudfrontInvalidation, NewRole
  <2> HIDE DEF role, work
  <2> QED  BY <2>1, <2>2, BuildMayWork
<1> QED  BY <1>3, <1>4, <1>5, <1>6, <1>7 DEF ServiceClasses
-----------------------------------------------------------------------------
(* The containers write logs and files under the role that starts them.    *)
TaskPolicy == {StatementForCreateAnyLogStream({Any})}

TaskFound ==
    /\ Ran("createEcsPolicy") => Field("ecsPolicy") = TaskPolicy
    /\ Ran("createEcsRole") /\ ~Ran("createEcsService") =>
         Field("actsAs") = RoleForEcsExecution(TaskPolicy)
    /\ Ran("createEcsService") =>
         Field("actsAs").service = "ecs-tasks"
           /\ AllowsAll(Field("actsAs"), Field("work"))

LEMMA TaskIs ==
    ASSUME this.class = "SiteWithEcsBackend", BuiltInv
    PROVE  /\ {"ecsPolicy", "actsAs", "work"} \subseteq DOMAIN fields[this.id]
           /\ \A m \in {"createEcsPolicy", "createEcsRole", "createEcsService"} :
                IsMethodOf(m, this.class)
           /\ "ecsPolicy" \in SetBy("createEcsPolicy")
           /\ {"actsAs", "work"} \subseteq SetBy("createEcsService")
<1>1. SetAt = SiteSetAt /\ DOMAIN fields[this.id] = EcsSiteFields
  BY ThisIs, FieldsAre
  DEF SetAt, SetAtOf, BuiltInv, SiteClasses, BackendClasses, FunctionClasses
<1>2. {"ecsPolicy", "actsAs", "work"} \subseteq DOMAIN fields[this.id]
  BY <1>1 DEF EcsSiteFields
<1>3. MethodsOf(this.class) = SiteWithEcsBackendMethods
  BY DEF MethodsOf, Classes
<1>4. /\ DOMAIN SiteWithEcsBackendMethods = 1..24
      /\ SiteWithEcsBackendMethods[8] = "createEcsPolicy"
      /\ SiteWithEcsBackendMethods[9] = "createEcsRole"
      /\ SiteWithEcsBackendMethods[15] = "createEcsService"
  BY DEF SiteWithEcsBackendMethods, BeforeBackend, BehindDistribution
<1>5. \A m \in {"createEcsPolicy", "createEcsRole", "createEcsService"} :
         IsMethodOf(m, this.class)
  BY <1>3, <1>4 DEF IsMethodOf
<1> QED  BY <1>1, <1>2, <1>5 DEF SetBy, SiteSetAt, Rank

(* For its files the role gets the statement that it needs.                *)
LEMMA TaskMayWork ==
    ASSUME NEW role,
           role.statements = TaskPolicy \union
             When(props.siteFileSystem # NotSet, {StatementForWriteEfs({<<"fs">>})})
    PROVE  AllowsAll(role, Work)
<1> DEFINE statements == role.statements
<1>1. Allows(statements, "logs:CreateLogStream", Field("logGroup"))
  <2>1. [actions |-> {"logs:CreateLogStream"}, on |-> {Any}] \in statements
    BY DEF TaskPolicy, StatementForCreateAnyLogStream, Allow
  <2>2. {Any} \intersect {Field("logGroup"), Any} # {}
    OBVIOUS
  <2> HIDE DEF statements
  <2> QED  BY <2>1, <2>2 DEF Allows
<1>2. ASSUME props.siteFileSystem # NotSet
      PROVE  Allows(statements, "elasticfilesystem:*", <<"fs">>)
  <2>1. [actions |-> {"elasticfilesystem:*"}, on |-> {<<"fs">>}] \in statements
    BY <1>2 DEF StatementForWriteEfs, Allow, When
  <2>2. {<<"fs">>} \intersect {<<"fs">>, Any} # {}
    OBVIOUS
  <2> HIDE DEF statements
  <2> QED  BY <2>1, <2>2 DEF Allows
<1> HIDE DEF statements
<1>3. \A w \in Work : Allows(statements, w[1], w[2])
  BY <1>1, <1>2 DEF Work, When
<1> QED  BY <1>3 DEF statements, AllowsAll

LEMMA TaskStaysFound ==
    ASSUME BuiltInv, TaskFound, this.class = "SiteWithEcsBackend",
           NamedProps \subseteq DOMAIN props, ConstructStep, status' # "thrown"
    PROVE  TaskFound'
<1>1. /\ this' = this /\ Head(todo) \in Left /\ PlanInv
      /\ \A s \in Left' : Rank[Head(todo)] < Rank[s]
  BY EveryStep DEF BuiltInv
<1> DEFINE policy == "createEcsPolicy"
           role == "createEcsRole"
           service == "createEcsService"
<1>2. /\ Rank[policy] = 107 /\ Rank[role] = 108 /\ Rank[service] = 114
      /\ {policy, role, service} \subseteq DOMAIN Rank
  BY DEF Rank
<1>3. /\ todo # <<>> /\ Head(todo) \in DOMAIN Rank /\ Rank[Head(todo)] \in Nat
      /\ ~Ran(Head(todo))
  BY <1>1, RanksAreNumbers DEF Left, Ran, PlanInv
<1>4. TaskPolicy' = TaskPolicy
  BY DEF TaskPolicy
<1>5. Ran(policy)' => Field("ecsPolicy")' = TaskPolicy
  <2>1. CASE Head(todo) = policy
    <3>1. \E values : Sets(values) /\ values = [ecsPolicy |-> TaskPolicy]
      BY <2>1, DoesWhatIsCalled DEF CreateEcsPolicy, TaskPolicy
    <3> QED  BY <1>1, <3>1, SetsSets, TaskIs DEF Field
  <2>2. CASE Head(todo) # policy
    BY <1>1, <2>2, OthersKeep, TaskIs DEF TaskFound, Field
  <2> QED  BY <2>1, <2>2
<1>6. Ran(role)' /\ ~Ran(service)' =>
        Field("actsAs")' = RoleForEcsExecution(TaskPolicy)
  <2>1. CASE Head(todo) = role
    <3>1. Ran(policy)
      BY <1>1, <1>2, <1>3, <2>1, EarlierRan
    <3>2. \E values, resources :
            /\ Creates({"ecsPolicy"}, resources, values)
            /\ values = [actsAs |-> RoleForEcsExecution(Field("ecsPolicy"))]
      BY <2>1, DoesWhatIsCalled DEF CreateEcsRole
    <3>3. Field("actsAs")' = RoleForEcsExecution(Field("ecsPolicy"))
      BY <1>1, <3>2, CreatesSets, TaskIs DEF Field
    <3> QED  BY <3>1, <3>3 DEF TaskFound
  <2>2. ASSUME Head(todo) # role, Ran(role)', ~Ran(service)'
        PROVE  Field("actsAs")' = RoleForEcsExecution(TaskPolicy)
    <3>1. Ran(role) /\ service \in Left'
      BY <1>1, <2>2, OthersKeep, TaskIs DEF Ran
    <3>2. Rank[Head(todo)] < Rank[service] /\ Rank[role] < Rank[Head(todo)]
      BY <1>1, <3>1, RanBefore, TaskIs
    <3>3. Rank[Head(todo)] \in 109..113
      BY <1>2, <1>3, <3>2
    <3>4. ~Ran(service)
      <4>1. ASSUME Ran(service) PROVE FALSE
        <5>1. Rank[service] < Rank[Head(todo)]
          BY <1>1, <4>1, RanBefore, TaskIs
        <5> QED  BY <1>2, <1>3, <3>3, <5>1
      <4> QED  BY <4>1
    <3>5. Field("actsAs")' = Field("actsAs")
      <4>1. PICK n, reads, sets : Method(n, reads, sets)
        BY EveryStepIsAMethod DEF AMethod
      <4>2. "actsAs" \notin sets
        <5>1. SetAt = SiteSetAt
          BY DEF SetAt, SetAtOf, SiteClasses, BackendClasses, FunctionClasses
        <5> QED  BY <3>3, <4>1, <5>1 DEF Method, Calls, Fits, SiteSetAt
      <4> QED  BY <1>1, <4>1, <4>2, TaskIs DEF Method, Changes, Field
    <3> QED  BY <3>1, <3>4, <3>5 DEF TaskFound
  <2> QED  BY <2>1, <2>2
<1>7. Ran(service)' =>
        Field("actsAs")'.service = "ecs-tasks"
          /\ AllowsAll(Field("actsAs")', Field("work")')
  <2>1. CASE Head(todo) = service
    <3>1. Ran(role) /\ ~Ran(service)
      BY <1>1, <1>2, <1>3, <2>1, EarlierRan
    <3>2. Field("actsAs") = RoleForEcsExecution(TaskPolicy)
      BY <3>1 DEF TaskFound
    <3>3. PICK values, resources :
            /\ Creates({"regionalCertificate", "cluster", "actsAs", "logGroup",
                        "image", "siteVpc", "logBucket"}, resources, values)
            /\ DOMAIN values = {"service", "work", "actsAs", "fileSystem", "mounts"}
            /\ values.work = Work
            /\ values.actsAs = WithFileSystem(Field("actsAs"))
      <4>1. \E values, resources :
              /\ Creates({"regionalCertificate", "cluster", "actsAs", "logGroup",
                          "image", "siteVpc", "logBucket"}, resources, values)
              /\ values = [service |-> "created", work |-> Work,
                           actsAs |-> WithFileSystem(Field("actsAs")),
                           fileSystem |-> props.siteFileSystem,
                           mounts |-> props.siteFileSystem # NotSet
                                        /\ props.mountPoints]
        BY <2>1, DoesWhatIsCalled DEF CreateEcsService, Throws
      <4> QED  BY <4>1
    <3>4. Field("actsAs")' = WithFileSystem(Field("actsAs")) /\ Field("work")' = Work
      <4>1. \A f \in DOMAIN fields[this.id] :
               fields'[this.id][f] = IF f \in DOMAIN values THEN values[f]
                                     ELSE Field(f)
        BY <1>1, <3>3, CreatesSets
      <4> QED  BY <1>1, <3>3, <4>1, TaskIs DEF Field
    <3>5. /\ Field("actsAs")'.service = "ecs-tasks"
          /\ Field("actsAs")'.statements = TaskPolicy \union
               When(props.siteFileSystem # NotSet, {StatementForWriteEfs({<<"fs">>})})
      BY <3>2, <3>4 DEF WithFileSystem, RoleForEcsExecution, NewRole
    <3>6. AllowsAll(Field("actsAs")', Work)
      BY <3>5, TaskMayWork
    <3> QED  BY <3>4, <3>5, <3>6
  <2>2. CASE Head(todo) # service
    BY <1>1, <2>2, OthersKeep, TaskIs DEF TaskFound, Field
  <2> QED  BY <2>1, <2>2
<1> QED  BY <1>1, <1>4, <1>5, <1>6, <1>7 DEF TaskFound
-----------------------------------------------------------------------------
(* A construct that is done reaches what it uses *)

LEMMA ClassHasFields ==
    ASSUME NEW class \in DOMAIN Classes
    PROVE  /\ "rule" \in FieldsOf(class) <=> class = "ApiToEventBridgeTarget"
           /\ "topic" \in FieldsOf(class) <=> class = "ApiToEventBridgeTargetWithSns"
           /\ "ingress" \in FieldsOf(class) <=> class = "RestApiLambdaWithCache"
           /\ "user" \in FieldsOf(class) <=> class = "LambdaWithIamAccess"
           /\ "vpc" \in FieldsOf(class) => class \in FunctionClasses
           /\ "integration" \in FieldsOf(class) => class \in ApiClasses
           /\ "work" \in FieldsOf(class) =>
                class \in ServiceClasses \union {"SiteWithEcsBackend"}
<1>1. CASE class \in {"ApiToEventBridgeTarget", "ApiToEventBridgeTargetWithSns",
                      "ApiToLambdaTarget", "ApiToAnyTarget"}
  BY <1>1, FieldsAre
  DEF EventBridgeTargetFields, WithSnsFields, LambdaTargetFields, AnyTargetFields,
      EventApiFields, ApiFields, ApiClasses
<1>2. CASE class \in FunctionClasses
  BY <1>2, FieldsAre
  DEF FunctionClasses, RestApiLambdaFields, WithCacheFields, IamAccessFields,
      FunctionFields, ApiFields, ApiClasses
<1>3. CASE class \in SiteClasses
  BY <1>3, FieldsAre
  DEF SiteClasses, BackendClasses, SiteFields, EcsSiteFields, LambdaSiteFields,
      StaticSiteFields
<1>4. CASE class \in ServiceClasses
  BY <1>4, FieldsAre DEF ServiceClasses, ServiceFields
<1>5. CASE class \in {"ApplicationConfiguration", "StaticAssetDeployment"}
  BY <1>5, FieldsAre DEF ConfigurationFields, AssetFields
<1> QED  BY <1>1, <1>2, <1>3, <1>4, <1>5, ClassesAre DEF ApiClasses, FunctionClasses

LEMMA ThisIsOf ==
    ASSUME BuiltInv
    PROVE  /\ DOMAIN fields[this.id] = FieldsOf(this.class)
           /\ this.class \in DOMAIN Classes /\ this.id \in DOMAIN fields
           /\ IsOf(this.id, "ApiToEventBridgeTarget")
                <=> this.class = "ApiToEventBridgeTarget"
           /\ IsOf(this.id, "ApiToEventBridgeTargetWithSns")
                <=> this.class = "ApiToEventBridgeTargetWithSns"
           /\ IsOf(this.id, "RestApiLambdaWithCache")
                <=> this.class = "RestApiLambdaWithCache"
           /\ IsOf(this.id, "LambdaWithIamAccess")
                <=> this.class = "LambdaWithIamAccess"
<1>1. /\ DOMAIN fields[this.id] = FieldsOf(this.class)
      /\ this.class \in DOMAIN Classes /\ this.id \in DOMAIN fields
  BY ThisIs DEF BuiltInv
<1>2. {"ApiToEventBridgeTarget", "ApiToEventBridgeTargetWithSns",
       "RestApiLambdaWithCache", "LambdaWithIamAccess"} \subseteq DOMAIN Classes
  BY ClassesAre DEF ApiClasses
<1>3. \A class : IsOf(this.id, class) <=> FieldsOf(this.class) = FieldsOf(class)
  BY <1>1 DEF IsOf, FieldsOf
<1> QED  BY <1>1, <1>2, <1>3, ClassHasFields

(* With affixes a name is another one.                                     *)
LEMMA AffixesTell ==
    ASSUME NEW T, NEW a \in Seq(T), NEW b \in Seq(T), NEW c \in Seq(T),
           NEW d \in Seq(T)
    PROVE  (a \o c \o b \o d = c \o d) <=> (a \o b = <<>>)
<1>1. ASSUME a \o c \o b \o d = c \o d PROVE a \o b = <<>>
  <2>1. /\ Len(a \o c \o b \o d) = Len(a) + Len(c) + Len(b) + Len(d)
        /\ Len(c \o d) = Len(c) + Len(d) /\ Len(a \o b) = Len(a) + Len(b)
        /\ Len(a) \in Nat /\ Len(b) \in Nat /\ Len(c) \in Nat /\ Len(d) \in Nat
    OBVIOUS
  <2>2. Len(a \o b) = 0 /\ a \o b \in Seq(T)
    BY <1>1, <2>1
  <2> QED  BY <2>2, EmptySeq
<1>2. ASSUME a \o b = <<>> PROVE a \o c \o b \o d = c \o d
  <2>1. a = <<>> /\ b = <<>>
    BY <1>2, ConcatEqualIffEmpty
  <2>2. a \o c = c /\ c \o b = c
    BY <2>1, ConcatEmptySeq
  <2> QED  BY <2>2
<1> QED  BY <1>1, <1>2

NamesInv ==
    /\ NamedProps \subseteq DOMAIN props
    /\ props.prefix \in Seq(STRING) /\ props.suffix \in Seq(STRING)
    /\ props.eventBusName = NotSet \/ props.eventBusName \in Seq(STRING)

LEMMA AffixesTellTheBus ==
    ASSUME NamesInv
    PROVE  (Format(DestinedBusName) = ExistingDestinedBus)
             <=> (props.prefix \o props.suffix = <<>>)
<1>1. PICK T, a, b, c, d :
        /\ a \in Seq(T) /\ b \in Seq(T) /\ c \in Seq(T) /\ d \in Seq(T)
        /\ a = props.prefix /\ b = props.suffix /\ c = DestinedBusName
        /\ d = <<props.stage>>
  <2> DEFINE T == STRING \union {"undefined", props.stage}
  <2>1. \A q \in Seq(STRING) : q \in Seq(T)
    BY SeqMonotonic
  <2>2. <<"undefined">> \in Seq(T) /\ <<props.stage>> \in Seq(T)
    BY DEF T
  <2>3. /\ props.prefix \in Seq(T) /\ props.suffix \in Seq(T)
        /\ DestinedBusName \in Seq(T)
    BY <2>1, <2>2 DEF NamesInv, DestinedBusName
  <2> HIDE DEF T
  <2> QED  BY <2>2, <2>3
<1>2. /\ Format(DestinedBusName) = a \o c \o b \o d
      /\ ExistingDestinedBus = c \o d
  BY <1>1 DEF Format, ExistingDestinedBus
<1>3. (a \o c \o b \o d = c \o d) <=> (a \o b = <<>>)
  <2>1. a \in Seq(T) /\ b \in Seq(T) /\ c \in Seq(T) /\ d \in Seq(T)
    BY <1>1
  <2> QED  BY ONLY <2>1, AffixesTell
<1> QED  BY <1>1, <1>2, <1>3

Found ==
    /\ this.class = "ApiToEventBridgeTarget" => EventsFound
    /\ this.class = "ApiToEventBridgeTargetWithSns" => TopicFound
    /\ this.class = "ApiToLambdaTarget" => TargetFound
    /\ this.class \in FunctionClasses => FunctionFound
    /\ this.class \in ServiceClasses => ServiceFound
    /\ this.class = "SiteWithEcsBackend" => TaskFound

(* Those without an integration have none in the end.                      *)
LEMMA NotIntegrated ==
    ASSUME BuiltInv, this.class \in FunctionClasses \union {"ApiToAnyTarget"}
    PROVE  ~Integrated(this.id)
<1>1. SetAt["integration"] = {}
  BY DEF SetAt, SetAtOf, FunctionClasses, FunctionSetAt, AnyTargetSetAt
<1>2. ~(\E r \in SetAt["integration"] : \A m \in Left : Rank[m] > r)
  BY <1>1
<1> QED  BY <1>2 DEF Integrated, IsSet, Field, BuiltInv, FieldsInv

LEMMA AllowedOn ==
    ASSUME NEW statements, NEW action, NEW resource,
           Allow({action}, {resource}) \in statements
    PROVE  Allows(statements, action, resource)
<1>1. Allow({action}, {resource}).actions = {action}
      /\ Allow({action}, {resource}).on = {resource}
  BY DEF Allow
<1>2. {resource} \intersect {resource, Any} # {}
  OBVIOUS
<1> QED  BY <1>1, <1>2 DEF Allows

LEMMA EventsReach ==
    ASSUME BuiltInv, EventsFound, todo = <<>>, this.class = "ApiToEventBridgeTarget"
    PROVE  Reaches(this.id)
<1>1. /\ IsOf(this.id, "ApiToEventBridgeTarget")
      /\ ~IsOf(this.id, "ApiToEventBridgeTargetWithSns")
      /\ ~IsOf(this.id, "LambdaWithIamAccess")
      /\ "work" \notin DOMAIN fields[this.id] /\ "vpc" \notin DOMAIN fields[this.id]
      /\ \A m : Ran(m)
  BY ThisIsOf, ClassHasFields DEF Ran, Left, FunctionClasses, ServiceClasses
<1>2. Field("eventBus") = ExistingEventBus
  BY <1>1 DEF EventsFound
<1>3. ASSUME Integrated(this.id)
      PROVE  LET i == fields[this.id].integration
             IN /\ i.uses.service = "apigateway"
                /\ Allows(i.uses.statements, i.sends.action, i.sends.to)
  <2>1. /\ fields[this.id].integration
             = [uses |-> Field("role"),
                sends |-> Field("integrationRequestTemplates")]
        /\ Field("role") = NewRole("apigateway", Field("policy"), {})
        /\ Field("policy") = {StatementForPutEvents({Field("eventBus")})}
        /\ Field("integrationRequestTemplates")
             = [action |-> "events:PutEvents", to |-> Field("eventBus")]
    BY <1>1, <1>3 DEF EventsFound, Integrated, IsSet, Field
  <2>2. Allow({"events:PutEvents"}, {Field("eventBus")}) \in Field("role").statements
    <3>1. Field("role").statements = Field("policy")
      BY <2>1 DEF NewRole
    <3>2. StatementForPutEvents({Field("eventBus")})
            = Allow({"events:PutEvents"}, {Field("eventBus")})
      BY DEF StatementForPutEvents
    <3>3. StatementForPutEvents({Field("eventBus")}) \in Field("policy")
      BY <2>1
    <3> QED  BY <3>1, <3>2, <3>3
  <2>3. Allows(Field("role").statements, "events:PutEvents", Field("eventBus"))
    BY <2>2, AllowedOn
  <2> QED  BY <2>1, <2>3 DEF NewRole
<1> QED  BY <1>1, <1>2, <1>3
         DEF Reaches, ImportedBusIsTheOneCreated, HoldersMayDoTheirWork,
             FunctionReachesItsCache, Field

LEMMA TopicReaches ==
    ASSUME BuiltInv, NamesInv, TopicFound, todo = <<>>,
           this.class = "ApiToEventBridgeTargetWithSns"
    PROVE  Reaches(this.id)
<1>1. /\ IsOf(this.id, "ApiToEventBridgeTargetWithSns")
      /\ ~IsOf(this.id, "ApiToEventBridgeTarget")
      /\ ~IsOf(this.id, "LambdaWithIamAccess")
      /\ "work" \notin DOMAIN fields[this.id] /\ "vpc" \notin DOMAIN fields[this.id]
      /\ \A m : Ran(m)
  BY ThisIsOf, ClassHasFields DEF Ran, Left, FunctionClasses, ServiceClasses
<1>2. ~props.useExisting =>
        ((Field("eventBus") = ExistingDestinedBus)
           <=> (props.prefix \o props.suffix = <<>>))
  BY <1>1, AffixesTellTheBus DEF TopicFound, DestinedBus
<1>3. ASSUME Integrated(this.id)
      PROVE  LET i == fields[this.id].integration
             IN /\ i.uses.service = "apigateway"
                /\ Allows(i.uses.statements, i.sends.action, i.sends.to)
  <2>1. /\ fields[this.id].integration
             = [uses |-> Field("role"),
                sends |-> Field("integrationRequestTemplates")]
        /\ Field("role") = Publisher /\ Field("topic") = TopicName
        /\ Field("integrationRequestTemplates")
             = [action |-> "sns:Publish", to |-> Field("topic")]
    BY <1>1, <1>3 DEF TopicFound, Integrated, IsSet, Field
  <2>2. Allow({"sns:Publish"}, {TopicName}) \in Publisher.statements
          /\ Publisher.service = "apigateway"
    BY DEF Publisher, NewRole
  <2>3. Allows(Publisher.statements, "sns:Publish", TopicName)
    BY <2>2, AllowedOn
  <2> QED  BY <2>1, <2>2, <2>3
<1>4. ~props.useExisting => MayReport(fields[this.id])
  <2>1. ~props.useExisting =>
          /\ Field("lambdaRole") = RoleForLambda(Field("lambdaPolicy"))
          /\ Field("lambdaPolicy") = {StatementForPutEvents({Field("eventBus")})}
          /\ Field("destinationSuccess") = Field("eventBus")
    BY <1>1 DEF TopicFound
  <2>2. ~props.useExisting =>
          Allow({"events:PutEvents"}, {Field("eventBus")})
            \in Field("lambdaRole").statements
    <3>1. ~props.useExisting => Field("lambdaRole").statements = Field("lambdaPolicy")
      BY <2>1 DEF RoleForLambda, NewRole
    <3>2. StatementForPutEvents({Field("eventBus")})
            = Allow({"events:PutEvents"}, {Field("eventBus")})
      BY DEF StatementForPutEvents
    <3>3. ~props.useExisting =>
            StatementForPutEvents({Field("eventBus")}) \in Field("lambdaPolicy")
      BY <2>1
    <3> QED  BY <3>1, <3>2, <3>3
  <2>3. ~props.useExisting =>
          Allows(Field("lambdaRole").statements, "events:PutEvents",
                 Field("eventBus"))
    BY <2>2, AllowedOn
  <2> QED  BY <2>1, <2>3 DEF MayReport, Field
<1> QED  BY <1>1, <1>2, <1>3, <1>4
         DEF Reaches, ImportedBusIsTheOneCreated, HoldersMayDoTheirWork,
             FunctionReachesItsCache, Field

LEMMA TargetReaches ==
    ASSUME BuiltInv, TargetFound, todo = <<>>, this.class = "ApiToLambdaTarget"
    PROVE  Reaches(this.id)
<1>1. /\ ~IsOf(this.id, "ApiToEventBridgeTargetWithSns")
      /\ ~IsOf(this.id, "ApiToEventBridgeTarget")
      /\ ~IsOf(this.id, "LambdaWithIamAccess")
      /\ "work" \notin DOMAIN fields[this.id] /\ "vpc" \notin DOMAIN fields[this.id]
      /\ \A m : Ran(m)
  BY ThisIsOf, ClassHasFields DEF Ran, Left, FunctionClasses, ServiceClasses
<1>2. LET i == fields[this.id].integration
      IN /\ i.uses.service = "apigateway"
         /\ Allows(i.uses.statements, i.sends.action, i.sends.to)
  <2>1. /\ fields[this.id].integration
             = [uses |-> Field("role"),
                sends |-> [action |-> "lambda:InvokeFunction",
                           to |-> Field("lambda")]]
        /\ Field("role") = NewRole("apigateway", Field("policy"), {})
        /\ StatementForInvokeLambda({Field("lambda")}) \in Field("policy")
    BY <1>1 DEF TargetFound, Field
  <2>2. Allow({"lambda:InvokeFunction"}, {Field("lambda")})
          \in Field("role").statements
    BY <2>1 DEF NewRole, StatementForInvokeLambda
  <2>3. Allows(Field("role").statements, "lambda:InvokeFunction", Field("lambda"))
    BY <2>2, AllowedOn
  <2> QED  BY <2>1, <2>3 DEF NewRole
<1> QED  BY <1>1, <1>2
         DEF Reaches, ImportedBusIsTheOneCreated, HoldersMayDoTheirWork,
             FunctionReachesItsCache

LEMMA FunctionReaches ==
    ASSUME BuiltInv, FunctionFound, todo = <<>>, this.class \in FunctionClasses
    PROVE  Reaches(this.id)
<1>1. /\ ~IsOf(this.id, "ApiToEventBridgeTargetWithSns")
      /\ ~IsOf(this.id, "ApiToEventBridgeTarget")
      /\ "work" \notin DOMAIN fields[this.id]
      /\ ~Integrated(this.id)
      /\ \A m : Ran(m)
  BY ThisIsOf, ClassHasFields, NotIntegrated
  DEF Ran, Left, FunctionClasses, ServiceClasses
<1>2. ASSUME this.class = "LambdaWithIamAccess", fields[this.id].layers.reads
      PROVE  MayReadConfiguration(fields[this.id])
  <2>1. StatementForAppConfigExecution({Any})
          \in fields[this.id].lambdaRole.statements
    BY <1>1, <1>2
    DEF FunctionFound, RoleFound, IamAccessPolicy, When, Field
  <2> QED  BY <2>1
           DEF MayReadConfiguration, Allows, StatementForAppConfigExecution, Allow
<1>3. (fields[this.id].vpc # NotSet)
        <=> (VpcAccess \subseteq fields[this.id].lambdaRole.managed)
  BY <1>1
  DEF FunctionFound, InItsVpc, RoleFound, InVpc, IsWithCache, IsWithIamAccess,
      IsSet, Field, FunctionClasses
<1>4. ASSUME this.class = "RestApiLambdaWithCache", fields[this.id].cache # NotSet
      PROVE  LET f == fields[this.id]
             IN /\ f.cache.group = f.securityGroup
                /\ (props.ingressRules = NotSet /\ f.securityGroup = "created"
                      => f.cache.port \in f.ingress)
  BY <1>1, <1>4
  DEF FunctionFound, CacheFound, IsSet, Field, IngressRules, OpenedPort, CachePort
<1> QED  BY <1>1, <1>2, <1>3, <1>4, ThisIsOf
         DEF Reaches, ImportedBusIsTheOneCreated, HoldersMayDoTheirWork,
             FunctionReachesItsCache

LEMMA FoundReaches ==
    ASSUME BuiltInv, NamesInv, Found, todo = <<>>
    PROVE  Reaches(this.id)
<1>1. CASE this.class \in {"ApiToEventBridgeTarget", "ApiToEventBridgeTargetWithSns",
                           "ApiToLambdaTarget"} \union FunctionClasses
  BY <1>1, EventsReach, TopicReaches, TargetReaches, FunctionReaches DEF Found
<1>2. ASSUME this.class \notin {"ApiToEventBridgeTarget",
               "ApiToEventBridgeTargetWithSns", "ApiToLambdaTarget"}
                 \union FunctionClasses
      PROVE  Reaches(this.id)
  <2>1. /\ ~IsOf(this.id, "ApiToEventBridgeTargetWithSns")
        /\ ~IsOf(this.id, "ApiToEventBridgeTarget")
        /\ ~IsOf(this.id, "LambdaWithIamAccess")
        /\ "vpc" \notin DOMAIN fields[this.id] /\ \A m : Ran(m)
    BY <1>2, ThisIsOf, ClassHasFields DEF Ran, Left, FunctionClasses
  <2>2. ~Integrated(this.id)
    BY <1>2, ThisIsOf, ClassHasFields, NotIntegrated
    DEF Integrated, ApiClasses, FunctionClasses
  <2>3. "work" \in DOMAIN fields[this.id] => WorksAsAllowed(fields[this.id])
    <3>1. CASE this.class \in ServiceClasses
      BY <2>1, <3>1 DEF Found, ServiceFound
    <3>2. CASE this.class = "SiteWithEcsBackend"
      BY <2>1, <3>2 DEF Found, TaskFound, WorksAsAllowed, MayWork, AllowsAll, Field
    <3> QED  BY <3>1, <3>2, ThisIsOf, ClassHasFields
  <2> QED  BY <2>1, <2>2, <2>3
           DEF Reaches, ImportedBusIsTheOneCreated, HoldersMayDoTheirWork,
               FunctionReachesItsCache, WorksAsAllowed
<1> QED  BY <1>1, <1>2

-----------------------------------------------------------------------------
(* What was found stays so, through the constructs that come after it *)

Untouched ==
    /\ BuiltInv /\ todo = InitResources(this)
    /\ \A f \in DOMAIN fields[this.id] : ~IsSet(f)

(* Of a construct that has run no method yet there is nothing to find.     *)
LEMMA NewIsFound == Untouched => Found
<1> SUFFICES ASSUME Untouched PROVE Found
  OBVIOUS
<1>1. BuiltInv /\ \A m : IsMethodOf(m, this.class) => ~Ran(m)
  BY DEF Untouched, IsMethodOf, Ran, Left, MethodsOf, InitResources
<1>2. this.class = "ApiToEventBridgeTarget" => EventsFound
  BY <1>1, EventsAre DEF EventsFound
<1>3. ASSUME this.class = "ApiToEventBridgeTargetWithSns" PROVE TopicFound
  BY <1>1, <1>3, TopicIs DEF TopicFound
<1>4. this.class = "ApiToLambdaTarget" => TargetFound
  BY <1>1, TargetIs DEF TargetFound
<1>5. ASSUME this.class \in FunctionClasses PROVE FunctionFound
  <2>1. "vpc" \in DOMAIN fields[this.id]
    BY <1>1, <1>5, FunctionsAre DEF FunctionFields
  <2>2. InItsVpc /\ RoleFound /\ CacheFound
    BY <1>1, <1>5, <2>1, FunctionsAre
    DEF InItsVpc, RoleFound, CacheFound, Untouched
  <2> QED  BY <2>2 DEF FunctionFound
<1>6. ASSUME this.class \in ServiceClasses PROVE ServiceFound
  <2>1. InitResources(this) = <<this.class>>
    BY <1>6 DEF InitResources, Classes, Service, ServiceMethods, ServiceClasses
  <2>2. this.class \in Left
    BY <2>1 DEF Untouched, Left
  <2> QED  BY <2>2 DEF ServiceFound, Ran
<1>7. this.class = "SiteWithEcsBackend" => TaskFound
  BY <1>1, TaskIs DEF TaskFound
<1> QED  BY <1>2, <1>3, <1>4, <1>5, <1>6, <1>7 DEF Found

LEMMA FoundStays ==
    ASSUME BuiltInv, Found, NamedProps \subseteq DOMAIN props, ConstructStep,
           status' # "thrown"
    PROVE  Found'
<1>1. this' = this
  BY EveryStep
<1> QED  BY <1>1, EventsStayFound, TopicStaysFound, TargetStaysFound,
            InItsVpcStays, RoleStaysFound, CacheStaysFound, ServiceStaysFound,
            TaskStaysFound
         DEF Found, FunctionFound

LEMMA ReachesStays ==
    ASSUME NEW id \in DOMAIN fields, fields'[id] = fields[id], KeepsNamed,
           Reaches(id)
    PROVE  Reaches(id)'
<1>1. \A p \in {"useExisting", "prefix", "suffix", "stage", "region",
                "eventBusName", "ingressRules"} : props'[p] = props[p]
  BY DEF KeepsNamed, NamedProps
<1>2. ExistingDestinedBus' = ExistingDestinedBus
      /\ ExistingEventBus' = ExistingEventBus
  BY <1>1 DEF ExistingDestinedBus, DestinedBusName, ExistingEventBus, EventBusName,
              Format
<1>3. ImportedBusIsTheOneCreated(id)'
  BY <1>1, <1>2 DEF Reaches, ImportedBusIsTheOneCreated, IsOf
<1>4. HoldersMayDoTheirWork(id)'
  BY <1>1 DEF Reaches, HoldersMayDoTheirWork, Integrated, IsOf, MayReport,
              MayReadConfiguration, MayWork
<1>5. FunctionReachesItsCache(id)'
  BY <1>1 DEF Reaches, FunctionReachesItsCache, IsOf
<1> QED  BY <1>3, <1>4, <1>5 DEF Reaches

LEMMA NamesStay ==
    ASSUME NamesInv, KeepsNamed
    PROVE  NamesInv'
BY DEF NamesInv, KeepsNamed, NamedProps

(* The constructs that the stack is through with, reach what they use; of  *)
(* the one it is at, what has been built so far is as that takes.          *)
Reached ==
    \A id \in DOMAIN fields : (\A i \in DOMAIN plan : plan[i].id # id) => Reaches(id)

ReachInv ==
    /\ BuiltInv /\ NamesInv
    /\ status # "thrown" => Found /\ Reached

LEMMA InitReaches == Init => ReachInv
<1> SUFFICES ASSUME NEW c \in Choices,
                    props = c.props,
                    StartsWith(c.plan, InitResources(c.plan[1])),
                    fields = NewFields(c.plan), BuiltInv
             PROVE  ReachInv
  BY InitBuilt DEF Init
<1>1. plan = c.plan /\ todo = InitResources(c.plan[1]) /\ this = c.plan[1]
      /\ 1 \in DOMAIN c.plan
  BY ChosenPlan DEF StartsWith, this
<1>2. NamesInv
  BY ChoicesAssumption DEF NamesInv
<1>3. \A f \in DOMAIN fields[this.id] : ~IsSet(f)
  BY <1>1, NewFieldsAre DEF IsSet, Field
<1>4. Untouched
  BY <1>1, <1>3 DEF Untouched
<1>5. Reached
  BY <1>1 DEF Reached, NewFields
<1> QED  BY <1>2, <1>4, <1>5, NewIsFound DEF ReachInv

LEMMA ConstructStepReaches ==
    ASSUME ReachInv, ConstructStep
    PROVE  ReachInv'
<1>1. /\ plan' = plan /\ this' = this /\ KeepsNamed
      /\ Head(todo) \in Left /\ DOMAIN fields' = DOMAIN fields
      /\ \A id \in DOMAIN fields : id # this.id => fields'[id] = fields[id]
  BY EveryStep DEF ReachInv, NamesInv
<1>2. status = "synth" /\ BuiltInv'
  <2>1. BuiltInv /\ PlanInv
    BY DEF ReachInv, BuiltInv
  <2>2. PICK n, reads, sets : Method(n, reads, sets)
    BY <2>1, EveryStepIsAMethod DEF AMethod
  <2>3. status = "synth"
    BY <2>1, <2>2, WhenCalled DEF Method
  <2>4. [Next]_synthVars
    BY DEF Next, ConstructStep
  <2> QED  BY <2>1, <2>3, <2>4, NextBuilt
<1>3. NamesInv'
  BY <1>1, NamesStay DEF ReachInv
<1>4. status' # "thrown" => Found'
  BY <1>2, FoundStays DEF ReachInv, NamesInv
<1>5. Reached'
  <2> SUFFICES ASSUME NEW id \in DOMAIN fields, \A i \in DOMAIN plan : plan[i].id # id
               PROVE  Reaches(id)'
    BY <1>1 DEF Reached
  <2>1. id # this.id
    BY DEF this, ReachInv, BuiltInv, PlanInv
  <2>2. Reaches(id)
    BY <1>2 DEF ReachInv, Reached
  <2> QED  BY <1>1, <2>1, <2>2, ReachesStays
<1> QED  BY <1>2, <1>3, <1>4, <1>5 DEF ReachInv

LEMMA NextConstructReaches ==
    ASSUME ReachInv, NextConstruct(InitResources(plan[2]))
    PROVE  ReachInv'
<1>1. /\ plan \in Seq(Constructs) /\ Len(plan) > 1 /\ plan' = Tail(plan)
      /\ todo' = InitResources(plan[2]) /\ todo = <<>> /\ status = "synth"
      /\ UNCHANGED <<props, fields, template, status>>
  BY DEF NextConstruct, ReachInv, BuiltInv, PlanInv
<1>2. /\ DOMAIN plan' = 1..(Len(plan) - 1) /\ DOMAIN plan = 1..Len(plan)
      /\ \A i \in DOMAIN plan' : plan'[i] = plan[i + 1]
      /\ this = plan[1] /\ this' = plan[2] /\ Len(plan) \in Nat /\ 2 \in DOMAIN plan
  BY <1>1 DEF this
<1>3. BuiltInv' /\ BuiltInv
  BY NextConstructKeeps DEF ReachInv
<1>4. NamesInv' /\ NamesInv /\ KeepsNamed
  BY <1>1 DEF ReachInv, NamesInv, KeepsNamed
<1>5. Found'
  <2>1. fields'[this'.id] = [f \in FieldsOf(this'.class) |-> NotSet]
    BY <1>1, <1>2, <1>3 DEF BuiltInv, FieldsInv
  <2>2. Untouched'
    BY <1>1, <1>2, <1>3, <2>1 DEF Untouched, IsSet, Field, InitResources
  <2>3. Untouched' => Found'
    BY NewIsFound, PTL
  <2> QED  BY <2>2, <2>3
<1>6. Reached'
  <2> SUFFICES ASSUME NEW id \in DOMAIN fields,
                      \A i \in DOMAIN plan' : plan'[i].id # id
               PROVE  Reaches(id)'
    BY <1>1 DEF Reached
  <2>1. CASE id = this.id
    BY <1>1, <1>3, <1>4, <2>1, FoundReaches, ReachesStays DEF ReachInv
  <2>2. CASE id # this.id
    <3>1. ASSUME NEW i \in DOMAIN plan PROVE plan[i].id # id
      <4>1. i = 1 \/ (i - 1 \in DOMAIN plan' /\ (i - 1) + 1 = i)
        BY <1>2
      <4> QED  BY <1>2, <2>2, <4>1
    <3> QED  BY <1>1, <1>4, <3>1, ReachesStays DEF ReachInv, Reached
  <2> QED  BY <2>1, <2>2
<1> QED  BY <1>3, <1>4, <1>5, <1>6 DEF ReachInv

LEMMA FoundIsKept ==
    ASSUME Found, UNCHANGED <<props, plan, todo, fields>>
    PROVE  Found'
<1>1. /\ this' = this /\ \A f : Field(f)' = Field(f)
      /\ \A m : Ran(m)' = Ran(m)
  BY DEF this, Field, Ran, Left
<1>2. EventsFound => EventsFound'
  BY <1>1 DEF EventsFound, IsSet, ExistingEventBus, EventBusName, Format
<1>3. TopicFound => TopicFound'
  BY <1>1 DEF TopicFound, IsSet, DestinedBus, ExistingDestinedBus, DestinedBusName,
              Format, TopicName, Publisher
<1>4. TargetFound => TargetFound'
  BY <1>1 DEF TargetFound
<1>5. FunctionFound => FunctionFound'
  BY <1>1
  DEF FunctionFound, InItsVpc, RoleFound, CacheFound, IsSet, InVpc, IsWithCache,
      IsWithIamAccess, IamAccessPolicy, IngressRules, OpenedPort
<1>6. ServiceFound => ServiceFound'
  BY <1>1 DEF ServiceFound, WorksAsAllowed, MayWork
<1>7. TaskFound => TaskFound'
  BY <1>1 DEF TaskFound, TaskPolicy, AllowsAll
<1> QED  BY <1>1, <1>2, <1>3, <1>4, <1>5, <1>6, <1>7 DEF Found

LEMMA NextReaches == ReachInv /\ [Next]_synthVars => ReachInv'
<1> SUFFICES ASSUME ReachInv, [Next]_synthVars PROVE ReachInv'
  OBVIOUS
<1>1. CASE ConstructStep
  BY <1>1, ConstructStepReaches
<1>2. CASE NextConstruct(InitResources(plan[2]))
  BY <1>2, NextConstructReaches
<1>3. CASE Finish \/ UNCHANGED synthVars
  <2>1. /\ UNCHANGED <<props, plan, todo, fields>> /\ BuiltInv'
        /\ status' # "thrown" => status # "thrown"
    BY <1>3, NextBuilt DEF Finish, synthVars, ReachInv
  <2>2. NamesInv' /\ KeepsNamed
    BY <2>1 DEF ReachInv, NamesInv, KeepsNamed
  <2>3. status' # "thrown" => Found'
    BY <2>1, FoundIsKept DEF ReachInv
  <2>4. status' # "thrown" => Reached'
    BY <2>1, <2>2, ReachesStays DEF ReachInv, Reached
  <2> QED  BY <2>1, <2>2, <2>3, <2>4 DEF ReachInv
<1> QED  BY <1>1, <1>2, <1>3 DEF Next, ConstructStep

LEMMA ReachedWell == ReachInv => ReachesWhatItUses
<1> SUFFICES ASSUME ReachInv, NEW id \in DOMAIN fields, Done(id)
             PROVE  Reaches(id)
  BY DEF ReachesWhatItUses
<1>1. /\ BuiltInv /\ NamesInv /\ Found /\ Reached /\ todo = <<>>
      /\ plan \in Seq(Constructs) /\ Len(plan) = 1
  BY DEF ReachInv, Done, BuiltInv, PlanInv
<1>2. CASE id = this.id
  BY <1>1, <1>2, FoundReaches
<1>3. CASE id # this.id
  <2>1. \A i \in DOMAIN plan : plan[i] = this
    BY <1>1 DEF this
  <2> QED  BY <1>1, <1>3, <2>1 DEF Reached
<1> QED  BY <1>2, <1>3

(* Whatever the props of a stack of AWS constructs and in whatever order   *)
(* it creates them, when it is through: an imported bus is the one another *)
(* stack creates from the same props, with SNS if names have no affixes;   *)
(* the API, the functions, the tasks, the pipes and the builds may do      *)
(* under their roles what they were made for, and so may a trail in        *)
(* eu-west-1 but nowhere else; and a function is in the group that lets it *)
(* into its cache.                                                         *)
THEOREM SpecReachesWhatItUses == Spec => []ReachesWhatItUses
<1>1. Spec => []ReachInv
  BY InitReaches, NextReaches, PTL DEF Spec
<1> QED  BY <1>1, ReachedWell, PTL
-----------------------------------------------------------------------------
(* What each method leaves in the props *)

LEMMA SharedApiLeavesProps ==
    ASSUME \/ ResolveSecrets \/ ResolveHostedZone \/ CreateApiDomain
           \/ CreateApiBasePathMapping \/ CreateApiRouteAssets
    PROVE  props' = props
BY DEF ResolveSecrets, Sets, Creates, Builds, ResolveHostedZone, CreateApiDomain,
   IfOwned, Returns, CreateApiBasePathMapping, CreateApiRouteAssets

LEMMA ApiToEventBridgeTargetLeavesProps ==
    ASSUME \/ CreateApiToEventBridgeTargetEventBus
           \/ CreateApiToEventBridgeTargetLogGroup
           \/ CreateApiToEventBridgeTargetPolicy
           \/ CreateApiToEventBridgeTargetRole
           \/ CreateApiToEventBridgeTargetIntegrationRequestParameters
           \/ CreateApiToEventBridgeTargetIntegrationRequestTemplates
           \/ CreateApiToEventBridgeTargetIntegrationResponse
           \/ CreateApiToEventBridgeTargetIntegrationErrorResponse
           \/ CreateApiToEventBridgeTargetIntegration
           \/ CreateApiToEventBridgeTargetRestApi
           \/ CreateApiToEventBridgeTargetResource
           \/ CreateApiToEventBridgeTargetResponseModel
           \/ CreateApiToEventBridgeTargetErrorResponseModel
           \/ CreateApiToEventBridgeTargetMethodResponse
           \/ CreateApiToEventBridgeTargetMethodErrorResponse
           \/ CreateApiToEventBridgeTargetResourceMethod
    PROVE  props' = props
BY DEF CreateApiToEventBridgeTargetEventBus, Throws, Creates, Builds,
   CreateApiToEventBridgeTargetLogGroup, IfOwned, Returns,
   CreateApiToEventBridgeTargetPolicy, Sets, CreateApiToEventBridgeTargetRole,
   CreateApiToEventBridgeTargetIntegrationRequestParameters, RequestParameters,
   IfWithResource, CreateApiToEventBridgeTargetIntegrationRequestTemplates,
   CreateApiToEventBridgeTargetIntegrationResponse, IntegrationResponse,
   CreateApiToEventBridgeTargetIntegrationErrorResponse,
   IntegrationErrorResponse, CreateApiToEventBridgeTargetIntegration,
   Integrates, CreateApiToEventBridgeTargetRestApi, NewApi, ImportApi,
   CreateApiToEventBridgeTargetResource, AddResource,
   CreateApiToEventBridgeTargetResponseModel, Model,
   CreateApiToEventBridgeTargetErrorResponseModel,
   CreateApiToEventBridgeTargetMethodResponse, MethodResponseOf,
   CreateApiToEventBridgeTargetMethodErrorResponse,
   CreateApiToEventBridgeTargetResourceMethod, AddMethod

LEMMA WithSnsLeavesProps ==
    ASSUME \/ CreateApiDestinedEventBus \/ CreateApiDestinedLambdaPolicy
           \/ CreateApiDestinedLambdaRole
           \/ CreateApiDestinedLambdaEnvironment
           \/ CreateApiDestinedLambdaLayers
           \/ CreateApiDestinedLambdaDestinations
           \/ CreateApiDestinedLambdaFunction
           \/ CreateApiDestinationLogGroupSuccess
           \/ CreateApiDestinationLogGroupFailure
           \/ CreateApiDestinedTopicRole \/ CreateApiDestinedTopic
           \/ CreateApiDestinedIntegrationRequestParameters
           \/ CreateApiDestinedIntegrationRequestTemplates
           \/ CreateApiDestinedIntegrationResponse
           \/ CreateApiDestinedIntegrationErrorResponse
           \/ CreateApiDestinedIntegration \/ CreateApiDestinedRestApi
           \/ CreateApiDestinedResource \/ CreateApiDestinedResponseModel
           \/ CreateApiDestinedErrorResponseModel
           \/ CreateApiDestinedMethodResponse
           \/ CreateApiDestinedMethodErrorResponse
           \/ CreateApiDestinedResourceMethod
    PROVE  props' = props
BY DEF CreateApiDestinedEventBus, Creates, Builds, Throws,
   CreateApiDestinedLambdaPolicy, Sets, IfOwned, Returns,
   CreateApiDestinedLambdaRole, CreateApiDestinedLambdaEnvironment,
   CreateApiDestinedLambdaLayers, CreateApiDestinedLambdaDestinations,
   CreateApiDestinedLambdaFunction, CreateApiDestinationLogGroupSuccess,
   CreateApiDestinationLogGroupFailure, CreateApiDestinedTopicRole,
   CreateApiDestinedTopic, IfWithResource,
   CreateApiDestinedIntegrationRequestParameters, RequestParameters,
   CreateApiDestinedIntegrationRequestTemplates,
   CreateApiDestinedIntegrationResponse, IntegrationResponse,
   CreateApiDestinedIntegrationErrorResponse, IntegrationErrorResponse,
   CreateApiDestinedIntegration, Integrates, CreateApiDestinedRestApi, NewApi,
   ImportApi, CreateApiDestinedResource, AddResource,
   CreateApiDestinedResponseModel, Model, CreateApiDestinedErrorResponseModel,
   CreateApiDestinedMethodResponse, MethodResponseOf,
   CreateApiDestinedMethodErrorResponse, CreateApiDestinedResourceMethod,
   AddMethod

LEMMA ApiToLambdaTargetLeavesProps ==
    ASSUME \/ CreateApiToLambdaTargetMethodResponse
           \/ CreateApiToLambdaTargetMethodErrorResponse
           \/ ResolveApiToLambdaTargetFunction
           \/ CreateApiToLambdaTargetResource \/ CreateApiToLambdaTargetPolicy
           \/ CreateApiToLambdaTargetRole
           \/ CreateApiToLambdaTargetIntegration
           \/ CreateApiToLambdaTargetResourceMethod
    PROVE  props' = props
BY DEF CreateApiToLambdaTargetMethodResponse, MethodResponseOf, Sets, Creates,
   Builds, IfWithResource, Returns, CreateApiToLambdaTargetMethodErrorResponse,
   ResolveApiToLambdaTargetFunction, CreateApiToLambdaTargetResource,
   AddResource, Throws, CreateApiToLambdaTargetPolicy,
   CreateApiToLambdaTargetRole, CreateApiToLambdaTargetIntegration,
   CreateApiToLambdaTargetResourceMethod, AddMethod

LEMMA ApiToAnyTargetLeavesProps ==
    ASSUME \/ CreateApiToAnyTargetRestApi \/ CreateApiToAnyTargetResource
    PROVE  props' = props
BY DEF CreateApiToAnyTargetRestApi, NewApi, Throws, Creates, Builds, ImportApi,
   CreateApiToAnyTargetResource, IfWithResource, Returns

LEMMA LambdaConstructsLeavesProps ==
    ASSUME \/ CreateLambdaPolicy \/ CreateLambdaRole
           \/ CreateLambdaEnvironment \/ CreateLambdaLayers \/ CreateRestApi
           \/ CreateRestApiResources \/ CreateApiRootPathMapping \/ ResolveVpc
           \/ ResolveSecurityGroup \/ CreateElastiCache \/ ResolveLambdaVpc
           \/ ResolveSecurityGroups \/ CreateIamUserForLambdaFunction
           \/ CreateIamSecretForLambdaFunction
    PROVE  props' = props
BY DEF CreateLambdaPolicy, Sets, Creates, Builds, CreateLambdaRole,
   CreateLambdaEnvironment, CreateLambdaLayers, Returns, CreateRestApi, Throws,
   CreateRestApiResources, CreateApiRootPathMapping, ResolveVpc,
   ResolveSecurityGroup, CreateElastiCache, ResolveLambdaVpc,
   ResolveSecurityGroups, CreateIamUserForLambdaFunction,
   CreateIamSecretForLambdaFunction

LEMMA ApplicationConfigurationLeavesProps ==
    ASSUME \/ CreateAppConfigApplication \/ CreateAppConfigEnvironment
           \/ CreateAppConfigProfile \/ CreateAppConfigVersion
           \/ CreateAppConfigDeploymentStrategy \/ CreateAppConfigDeployment
           \/ ResolveEnvironmentVariables
    PROVE  props' = props
BY DEF CreateAppConfigApplication, Creates, Builds, CreateAppConfigEnvironment,
   CreateAppConfigProfile, CreateAppConfigVersion,
   CreateAppConfigDeploymentStrategy, Returns, CreateAppConfigDeployment,
   ResolveEnvironmentVariables, Sets

LEMMA ServiceLeavesProps ==
    ASSUME \/ CreateSqsToSfnCfnPipe \/ CreateSqsToLambdaCfnPipe
           \/ CreateDynamoDbToLambdaCfnPipe \/ CreateCloudTrail
           \/ CreateProjectForCloudfrontInvalidation
    PROVE  props' = props
BY DEF CreateSqsToSfnCfnPipe, Acts, Throws, Creates, Builds,
   CreateSqsToLambdaCfnPipe, CreateDynamoDbToLambdaCfnPipe, CreateCloudTrail,
   CreateProjectForCloudfrontInvalidation

LEMMA AwsSiteLeavesProps ==
    ASSUME \/ ResolveSiteSecrets \/ ResolveSiteDomainNames
           \/ CreateSiteLogBucket \/ CreateSiteOrigin
           \/ CreateSiteCloudfrontFunction \/ ResolveSiteFunctionAssociations
           \/ CreateDistribution \/ CreateNetworkMappings
           \/ InvalidateDistributionCache
    PROVE  props' = props
BY DEF ResolveSiteSecrets, Returns, ResolveSiteDomainNames, Sets, Creates, Builds,
   CreateSiteLogBucket, Throws, CreateSiteOrigin, CreateSiteCloudfrontFunction,
   ResolveSiteFunctionAssociations, CreateDistribution, CreatesDistribution,
   CreateNetworkMappings, RecordOf, InvalidateDistributionCache

LEMMA EcsBackendLeavesProps ==
    ASSUME \/ CreateVpc \/ CreateEcsPolicy \/ CreateEcsRole
           \/ CreateEcsEnvironment \/ CreateEcsCluster \/ CreateEcsLogGroup
           \/ CreateEcsBuildArgs \/ CreateEcsContainerImage
           \/ CreateEcsService
    PROVE  props' = props
BY DEF CreateVpc, Throws, Creates, Builds, CreateEcsPolicy, Sets, CreateEcsRole,
   CreateEcsEnvironment, CreateEcsCluster, CreateEcsLogGroup,
   CreateEcsBuildArgs, CreateEcsContainerImage, CreateEcsService

LEMMA LambdaBackendLeavesProps ==
    ASSUME \/ CreateSiteStaticAssetDeployment \/ CreateSiteLambdaPolicy
           \/ CreateSiteLambdaRole \/ CreateSiteLambdaEnvironment
           \/ CreateSiteLambdaLayers \/ CreateSiteLambdaApplication
           \/ CreateSiteLambda \/ CreateSiteLambdaUrl
    PROVE  props' = props
BY DEF CreateSiteStaticAssetDeployment, Returns, CreateSiteLambdaPolicy, Sets,
   Creates, Builds, CreateSiteLambdaRole, CreateSiteLambdaEnvironment,
   CreateSiteLambdaLayers, CreateSiteLambdaApplication, CreateSiteLambda,
   Throws, CreateSiteLambdaUrl

LEMMA StaticSiteLeavesProps ==
    ASSUME \/ CreateSiteBucket \/ CreateSiteOriginAccessIdentity
           \/ CreateSiteDistribution \/ CreateSiteRouteAssets \/ DeploySite
           \/ CreateAssetBucket \/ ResolveDistribution \/ DeployStaticAssets
    PROVE  props' = props
BY DEF CreateSiteBucket, Creates, Builds, CreateSiteOriginAccessIdentity, Returns,
   CreateSiteDistribution, Throws, CreatesDistribution, CreateSiteRouteAssets,
   RecordOf, DeploySite, CreateAssetBucket, ResolveDistribution,
   DeployStaticAssets

(* What the caller gives, and what constructs may leave there.             *)
GivenInv ==
    /\ NamedProps \subseteq DOMAIN props /\ ScalesWithinRanges(props.aliases)
    /\ props.siteSubDomain # NotSet
    /\ {"existing", "inParameter", "arn", "region"}
         \subseteq DOMAIN props.regionalCertificate
    /\ props.regionalCertificate.arn \in {NotSet, "callers", "parameter"}
    /\ "asGiven" \notin {props.region, props.regionalCertificate.region}
    /\ props.defaultBehavior # NotSet => Policies \subseteq DOMAIN props.defaultBehavior
    /\ \/ props.ruleSuccess.pattern \in {NotSet, "callers"}
       \/ \E one \in DOMAIN fields :
            /\ IsOf(one, "ApiToEventBridgeTargetWithSns")
            /\ props.ruleSuccess.pattern = one
    /\ props.ruleFailure.pattern \in {NotSet, "callers", "errors"}
    /\ NotSet \notin DOMAIN fields

(* The version a function starts with                                      *)
VersionFound ==
    /\ this.class \in FunctionClasses /\ Ran("createLambdaFunction") =>
         Field("versionCapacity") = VersionCapacity(props.aliases)
    /\ this.class = "SiteWithLambdaBackend" /\ Ran("createSiteLambda") =>
         Field("versionCapacity") = VersionCapacity(props.aliases)

(* The rules of a function                                                 *)
LogsFound ==
    this.class = "ApiToEventBridgeTargetWithSns" /\ ~props.useExisting =>
      /\ Ran("createApiDestinedLambdaEnvironment") =>
           Field("environment").sourceId = this.id
      /\ Ran("createApiDestinationRuleSuccess") =>
           /\ Field("ruleSuccess").pattern = props.ruleSuccess.pattern
           /\ props.ruleSuccess.pattern # NotSet
      /\ Ran("createApiDestinationRuleFailure") =>
           Field("ruleFailure").pattern \in {"callers", "errors"}

Given(certificate) ==
    IF ~props.useExistingCertificate THEN certificate = "created"
    ELSE certificate \in {"callers", "callersAbroad", "parameter", "byId"}

RegionalIs(certificate) ==
    LET given == props.regionalCertificate
    IN /\ given.existing /\ given.inParameter => given.arn = "parameter"
       /\ certificate = IF ~given.existing THEN "created"
                        ELSE IF given.arn # NotSet THEN given.arn ELSE "byId"

IsAtTheEdge ==
    /\ Field("certificate") # "callersAbroad"
    /\ Field("certificate") = "byId" => RegionOfId(props.certificateRegion) = EdgeRegion

BackendFound ==
    this.class \in BackendClasses =>
      /\ Ran("resolveGlobalCertificate") => Given(Field("certificate"))
      /\ this.class = "SiteWithEcsBackend" /\ Ran("resolveRegionalCertificate") =>
           RegionalIs(Field("regionalCertificate"))
      /\ Ran("resolveSiteDomainNames") =>
           Field("externalDomainName") = DomainName(props.siteSubDomain)
      /\ Ran("createDistribution") =>
           /\ Field("distribution").names = DomainName(props.siteSubDomain)
           /\ HasPoliciesOf(this.id, this.id) /\ IsAtTheEdge
      /\ Ran("createNetworkMappings") =>
           IsSet("distribution") /\ Field("record") = RecordName(props.siteRecordName)

StaticFound ==
    this.class = "StaticSite" =>
      /\ Ran("resolveCertificate") => Given(Field("certificate"))
      /\ IF Ran("createSiteDistribution")
           THEN Field("distribution").behavior = props.defaultBehavior /\ IsAtTheEdge
           ELSE ~IsSet("distribution")

(* Whose policies are in the shared behaviour                              *)
CreatorOf ==
    [cachePolicy |-> "createSiteOriginCachePolicy",
     requestPolicy |-> "createSiteOriginRequestPolicy",
     headersPolicy |-> "createSiteOriginResponseHeadersPolicy"]

LeftBy(owner) ==
    \A p \in Policies : Describes(p) => props.defaultBehavior[p] = owner

PoliciesFound ==
    props.defaultBehavior # NotSet =>
      IF this.class \in BackendClasses
        THEN \A p \in Policies : Describes(p) /\ Ran(CreatorOf[p]) =>
               props.defaultBehavior[p] = this.id
        ELSE \/ \E owner \in Backends : LeftBy(owner)
             \/ /\ Backends = {}
                /\ \A p \in Policies : props.defaultBehavior[p] \notin DOMAIN fields

(* Of a construct that is finished                                         *)
IsServed(id) ==
    /\ "versionCapacity" \in DOMAIN fields[id] =>
         fields[id].versionCapacity = VersionCapacity(props.aliases)
    /\ IsOf(id, "ApiToEventBridgeTargetWithSns") /\ ~props.useExisting =>
         /\ fields[id].environment.sourceId = id
         /\ fields[id].ruleSuccess.pattern = props.ruleSuccess.pattern
         /\ props.ruleSuccess.pattern # NotSet
         /\ fields[id].ruleFailure.pattern \in {"callers", "errors"}
    /\ HasBackend(id) =>
         /\ fields[id].distribution # NotSet
         /\ fields[id].distribution.names = DomainName(props.siteSubDomain)
         /\ fields[id].record = RecordName(props.siteRecordName)
         /\ HasPoliciesOf(id, id)
    /\ HasBackend(id) \/ IsOf(id, "StaticSite") =>
         /\ Given(fields[id].certificate)
         /\ fields[id].certificate # "callersAbroad"
         /\ fields[id].certificate = "byId" =>
              RegionOfId(props.certificateRegion) = EdgeRegion
    /\ IsOf(id, "SiteWithEcsBackend") => RegionalIs(fields[id].regionalCertificate)

ServedFound ==
    VersionFound /\ LogsFound /\ BackendFound /\ StaticFound /\ PoliciesFound

Served ==
    \A id \in DOMAIN fields :
      (\A i \in DOMAIN plan : plan[i].id # id) => IsServed(id)

(* Four props that a construct leaves in for the next one, and who does.   *)
ChangedBy ==
    [regionalCertificate |-> {"resolveRegionalCertificate"},
     defaultBehavior |->
       {"createSiteOriginCachePolicy", "createSiteOriginRequestPolicy",
        "createSiteOriginResponseHeadersPolicy"},
     ruleSuccess |-> {"createApiDestinationRuleSuccess"},
     ruleFailure |-> {"createApiDestinationRuleFailure"}]

LEMMA SharedAreKept ==
    ASSUME BuiltInv, ConstructStep, NEW p \in DOMAIN ChangedBy,
           Head(todo) \notin ChangedBy[p]
    PROVE  props'[p] = props[p]
<1>1. p \in {"regionalCertificate", "defaultBehavior", "ruleSuccess", "ruleFailure"}
      /\ ChangedProps \subseteq DOMAIN props /\ p \in DOMAIN props
  BY DEF ChangedBy, BuiltInv, PropsInv, ChangedProps
<1>2. SUFFICES ASSUME props' # props PROVE props'[p] = props[p]
  OBVIOUS
<1>3. CASE SharedApiStep
  BY <1>1, <1>2, <1>3, SharedApiLeavesProps
  DEF SharedApiStep, ResolveCertificate, IfOwned, Returns
<1>4. CASE ApiToEventBridgeTargetStep
  BY <1>1, <1>2, <1>4, ApiToEventBridgeTargetLeavesProps
  DEF ApiToEventBridgeTargetStep, CreateApiToEventBridgeTargetRule, IfOwned, Returns,
      Throws
<1>5. CASE WithSnsStep
  <2>1. CASE CreateApiDestinationRuleSuccess \/ CreateApiDestinationRuleFailure
    <3>1. Head(todo) \in {"createApiDestinationRuleSuccess",
                          "createApiDestinationRuleFailure"}
      BY <2>1, WithSnsCalls
    <3> QED  BY <1>1, <1>2, <2>1, <3>1, WithSnsCalls
             DEF CreateApiDestinationRuleSuccess, CreateApiDestinationRuleFailure,
                 IfOwned, Returns, ChangedBy
  <2> QED  BY <1>2, <1>5, <2>1, WithSnsLeavesProps DEF WithSnsStep
<1>6. CASE ApiToLambdaTargetStep \/ ApiToAnyTargetStep
  BY <1>1, <1>2, <1>6, ApiToLambdaTargetLeavesProps, ApiToAnyTargetLeavesProps
  DEF ApiToLambdaTargetStep, ApiToAnyTargetStep, CreateApiToLambdaTargetRestApi,
      ImportApi, Creates
<1>7. CASE LambdaConstructsStep
  BY <1>1, <1>2, <1>7, LambdaConstructsLeavesProps
  DEF LambdaConstructsStep, CreateLambdaFunction
<1>8. CASE ApplicationConfigurationStep \/ ServiceStep
  BY <1>2, <1>8, ApplicationConfigurationLeavesProps, ServiceLeavesProps
  DEF ApplicationConfigurationStep, ServiceStep
<1>9. CASE AwsSiteStep
  <2>1. CASE ResolveGlobalCertificate
    BY <1>1, <2>1 DEF ResolveGlobalCertificate
  <2>2. CASE ResolveRegionalCertificate
    <3>1. p # "regionalCertificate"
      BY <2>2, AwsSiteCalls DEF ChangedBy
    <3> QED  BY <1>1, <2>2, <3>1 DEF ResolveRegionalCertificate
  <2>3. CASE CreateSiteOriginCachePolicy \/ CreateSiteOriginRequestPolicy
               \/ CreateSiteOriginResponseHeadersPolicy
    <3>1. p # "defaultBehavior"
      BY <2>3, AwsSiteCalls DEF ChangedBy
    <3> QED  BY <1>1, <1>2, <2>3, <3>1
             DEF CreateSiteOriginCachePolicy, CreateSiteOriginRequestPolicy,
                 CreateSiteOriginResponseHeadersPolicy, Policy, Returns, Throws,
                 Assigned
  <2> QED  BY <1>2, <1>9, <2>1, <2>2, <2>3, AwsSiteLeavesProps DEF AwsSiteStep
<1>10. CASE EcsBackendStep \/ LambdaBackendStep \/ StaticSiteStep
  BY <1>2, <1>10, EcsBackendLeavesProps, LambdaBackendLeavesProps,
     StaticSiteLeavesProps
  DEF EcsBackendStep, LambdaBackendStep, StaticSiteStep
<1> QED  BY <1>3, <1>4, <1>5, <1>6, <1>7, <1>8, <1>9, <1>10 DEF ConstructStep

-----------------------------------------------------------------------------
(* What the constructs leave in the props they share *)

LEMMA WhoAssigns ==
    ASSUME ConstructStep, NEW p \in Policies, Head(todo) = CreatorOf[p]
    PROVE  \/ ~Describes(p) /\ props' = props
           \/ Describes(p) /\ props' = Assigned(p, this.id)
           \/ Describes(p) /\ props' = props /\ status' = "thrown"
<1>1. CASE p = "cachePolicy"
  <2>1. Policy(props.siteCachePolicy, p, <<"site-cache-policy">>)
    BY <1>1, DoesWhatIsCalled DEF CreatorOf, CreateSiteOriginCachePolicy
  <2> QED  BY <1>1, <2>1 DEF Policy, Describes, Returns, Throws
<1>2. CASE p = "requestPolicy"
  <2>1. Policy(props.siteOriginRequestPolicy, p, <<"sorp">>)
    BY <1>2, DoesWhatIsCalled DEF CreatorOf, CreateSiteOriginRequestPolicy
  <2> QED  BY <1>2, <2>1 DEF Policy, Describes, Returns, Throws
<1>3. CASE p = "headersPolicy"
  <2>1. Policy(props.siteOriginResponseHeadersPolicy, p, <<"srhp">>)
    BY <1>3, DoesWhatIsCalled DEF CreatorOf, CreateSiteOriginResponseHeadersPolicy
  <2> QED  BY <1>3, <2>1 DEF Policy, Describes, Returns, Throws
<1> QED  BY <1>1, <1>2, <1>3 DEF Policies

(* A policy is assigned where the props describe it, by the method that    *)
(* creates it.                                                             *)
LEMMA BehaviorChanges ==
    ASSUME BuiltInv, GivenInv, ConstructStep
    PROVE  /\ props.defaultBehavior = NotSet => props'.defaultBehavior = NotSet
           /\ props'.defaultBehavior # NotSet =>
                Policies \subseteq DOMAIN props'.defaultBehavior
           /\ \A p \in Policies :
                /\ Describes(p)' = Describes(p)
                /\ ~Describes(p) \/ Head(todo) # CreatorOf[p] =>
                     props'.defaultBehavior[p] = props.defaultBehavior[p]
                /\ Describes(p) /\ Head(todo) = CreatorOf[p] /\ status' # "thrown"
                     /\ props'.defaultBehavior # NotSet =>
                     props'.defaultBehavior[p] = this.id
<1>1. "defaultBehavior" \in DOMAIN props /\ KeepsNamed
  BY EveryStep DEF GivenInv, BuiltInv, PropsInv, ChangedProps
<1>2. \A p \in Policies : Describes(p)' = Describes(p)
  BY <1>1 DEF Describes, KeepsNamed, NamedProps
<1>3. CASE \E p \in Policies : Head(todo) = CreatorOf[p]
  <2>1. PICK p \in Policies : Head(todo) = CreatorOf[p]
    BY <1>3
  <2>2. \A q \in Policies : CreatorOf[q] = CreatorOf[p] => q = p
    BY DEF Policies, CreatorOf
  <2>3. \/ ~Describes(p) /\ props' = props
        \/ Describes(p) /\ props' = Assigned(p, this.id)
        \/ Describes(p) /\ props' = props /\ status' = "thrown"
    BY <2>1, WhoAssigns
  <2>4. CASE /\ props' = Assigned(p, this.id) /\ Describes(p)
             /\ props.defaultBehavior # NotSet
    <3>1. /\ props'.defaultBehavior = [props.defaultBehavior EXCEPT ![p] = this.id]
          /\ Policies \subseteq DOMAIN props.defaultBehavior
      BY <1>1, <2>4 DEF Assigned, GivenInv
    <3> QED  BY <1>2, <2>1, <2>2, <2>4, <3>1
  <2>5. CASE props' = props /\ (Describes(p) => status' = "thrown"
                                              \/ props.defaultBehavior = NotSet)
    BY <1>2, <2>1, <2>2, <2>5 DEF GivenInv
  <2>6. Describes(p) /\ props' = Assigned(p, this.id)
          /\ props.defaultBehavior = NotSet => props' = props
    BY DEF Assigned
  <2> QED  BY <2>3, <2>4, <2>5, <2>6
<1>4. CASE \A p \in Policies : Head(todo) # CreatorOf[p]
  <2>1. Head(todo) \notin ChangedBy["defaultBehavior"]
    BY <1>4 DEF ChangedBy, Policies, CreatorOf
  <2>2. props'.defaultBehavior = props.defaultBehavior
    BY <2>1, SharedAreKept DEF ChangedBy
  <2> QED  BY <1>2, <1>4, <2>2 DEF GivenInv
<1> QED  BY <1>3, <1>4

(* The certificate of a load balancer is known for good once it is read.   *)
LEMMA RegionalChanges ==
    ASSUME BuiltInv, GivenInv, ConstructStep
    PROVE  LET given == props.regionalCertificate
               now == props'.regionalCertificate
           IN /\ DOMAIN now = DOMAIN given
              /\ \A f \in DOMAIN given : f # "arn" => now[f] = given[f]
              /\ now.arn = IF given.existing /\ given.inParameter
                             /\ Head(todo) = "resolveRegionalCertificate"
                             THEN "parameter" ELSE given.arn
<1>1. "regionalCertificate" \in DOMAIN props
  BY DEF BuiltInv, PropsInv, ChangedProps
<1>2. CASE Head(todo) = "resolveRegionalCertificate"
  <2>1. ResolveRegionalCertificate
    BY <1>2, DoesWhatIsCalled
  <2> DEFINE given == props.regionalCertificate
             arn == IF given.existing /\ given.inParameter THEN "parameter"
                    ELSE given.arn
  <2>2. props'.regionalCertificate = [given EXCEPT !.arn = arn]
    BY <1>1, <2>1 DEF ResolveRegionalCertificate
  <2> QED  BY <1>2, <2>2 DEF GivenInv
<1>3. CASE Head(todo) # "resolveRegionalCertificate"
  <2>1. props'.regionalCertificate = props.regionalCertificate
    BY <1>3, SharedAreKept DEF ChangedBy
  <2> QED  BY <1>3, <2>1
<1> QED  BY <1>2, <1>3

(* The pattern of a rule is what it is once it is.                         *)
LEMMA PatternsChange ==
    ASSUME BuiltInv, GivenInv, ConstructStep
    PROVE  /\ props.ruleSuccess.pattern # NotSet =>
                props'.ruleSuccess.pattern = props.ruleSuccess.pattern
           /\ \/ props'.ruleSuccess.pattern = props.ruleSuccess.pattern
              \/ /\ props'.ruleSuccess.pattern = this.id
                 /\ Head(todo) = "createApiDestinationRuleSuccess"
           /\ props'.ruleFailure.pattern \in {NotSet, "callers", "errors"}
<1>1. {"ruleSuccess", "ruleFailure"} \subseteq DOMAIN props
  BY DEF BuiltInv, PropsInv, ChangedProps
<1>2. CASE Head(todo) = "createApiDestinationRuleSuccess"
  <2>1. props'.ruleFailure = props.ruleFailure
    BY <1>2, SharedAreKept DEF ChangedBy
  <2>2. CreateApiDestinationRuleSuccess
    BY <1>2, DoesWhatIsCalled
  <2>3. props' = props \/ props'.ruleSuccess = Merged(props.ruleSuccess)
    BY <1>1, <2>2 DEF CreateApiDestinationRuleSuccess, IfOwned, Returns,
                      RuleSuccessProps
  <2> QED  BY <1>2, <2>1, <2>3 DEF Merged, GivenInv
<1>3. CASE Head(todo) = "createApiDestinationRuleFailure"
  <2>1. props'.ruleSuccess = props.ruleSuccess
    BY <1>3, SharedAreKept DEF ChangedBy
  <2>2. CreateApiDestinationRuleFailure
    BY <1>3, DoesWhatIsCalled
  <2>3. props' = props \/ props'.ruleFailure = RuleFailureProps
    BY <1>1, <2>2 DEF CreateApiDestinationRuleFailure, IfOwned, Returns
  <2> QED  BY <2>1, <2>3 DEF RuleFailureProps, Merged, GivenInv
<1>4. CASE Head(todo) \notin {"createApiDestinationRuleSuccess",
                              "createApiDestinationRuleFailure"}
  <2>1. props'.ruleSuccess = props.ruleSuccess /\ props'.ruleFailure = props.ruleFailure
    BY <1>4, SharedAreKept DEF ChangedBy
  <2> QED  BY <2>1 DEF GivenInv
<1> QED  BY <1>2, <1>3, <1>4

LEMMA GivenStays ==
    ASSUME BuiltInv, GivenInv, ConstructStep
    PROVE  GivenInv'
<1>1. /\ KeepsNamed /\ DOMAIN fields' = DOMAIN fields /\ this' = this
      /\ \A id \in DOMAIN fields : DOMAIN fields'[id] = DOMAIN fields[id]
  BY EveryStep DEF GivenInv
<1>2. \A p \in {"aliases", "siteSubDomain", "region"} : props'[p] = props[p]
  BY <1>1 DEF KeepsNamed, NamedProps
<1>3. \/ props'.ruleSuccess.pattern \in {NotSet, "callers"}
      \/ \E one \in DOMAIN fields' :
           /\ IsOf(one, "ApiToEventBridgeTargetWithSns")'
           /\ props'.ruleSuccess.pattern = one
  <2>1. CASE props'.ruleSuccess.pattern = props.ruleSuccess.pattern
    BY <1>1, <2>1 DEF GivenInv, IsOf
  <2>2. CASE /\ props'.ruleSuccess.pattern = this.id
             /\ Head(todo) = "createApiDestinationRuleSuccess"
    <3>1. this.class = "ApiToEventBridgeTargetWithSns" /\ this.id \in DOMAIN fields
      <4>1. PICK n, reads, sets : Method(n, reads, sets)
        BY EveryStepIsAMethod DEF AMethod
      <4>2. Calls("createApiDestinationRuleSuccess") /\ PlanInv
        BY <2>2, <4>1 DEF Method, Calls, BuiltInv
      <4>3. Belongs(this.class, Rank["createApiDestinationRuleSuccess"])
        BY <4>2, WhenCalled
      <4> QED  BY <4>2, <4>3, ThisIs DEF Belongs, Rank
    <3>2. IsOf(this.id, "ApiToEventBridgeTargetWithSns")'
      BY <1>1, <3>1, ThisIsOf DEF IsOf
    <3> QED  BY <1>1, <2>2, <3>1, <3>2
  <2> QED  BY <2>1, <2>2, PatternsChange
<1>4. /\ NamedProps \subseteq DOMAIN props' /\ ScalesWithinRanges(props'.aliases)
      /\ props'.siteSubDomain # NotSet
  BY <1>1, <1>2 DEF KeepsNamed, GivenInv
<1>5. /\ {"existing", "inParameter", "arn", "region"}
           \subseteq DOMAIN props'.regionalCertificate
      /\ props'.regionalCertificate.arn \in {NotSet, "callers", "parameter"}
      /\ "asGiven" \notin {props'.region, props'.regionalCertificate.region}
  BY <1>2, RegionalChanges DEF GivenInv
<1> QED  BY <1>1, <1>3, <1>4, <1>5, BehaviorChanges, PatternsChange DEF GivenInv

-----------------------------------------------------------------------------
(* The methods of what a site and its function are served by *)

LEMMA VersionsAre ==
    ASSUME this.class \in FunctionClasses, BuiltInv
    PROVE  /\ "versionCapacity" \in DOMAIN fields[this.id]
           /\ IsMethodOf("createLambdaFunction", this.class)
           /\ "versionCapacity" \in SetBy("createLambdaFunction")
<1>1. SetAt = FunctionSetAt /\ FunctionFields \subseteq DOMAIN fields[this.id]
  BY FunctionsAre
<1>2. "versionCapacity" \in SetBy("createLambdaFunction")
  BY <1>1 DEF SetBy, FunctionSetAt, Rank
<1>3. CASE this.class = "RestApiLambda"
  <2>1. MethodsOf(this.class) = RestApiLambdaMethods
    BY <1>3 DEF MethodsOf, Classes
  <2>2. /\ DOMAIN RestApiLambdaMethods = 1..13
        /\ RestApiLambdaMethods[8] = "createLambdaFunction"
    BY DEF RestApiLambdaMethods
  <2> QED  BY <1>1, <1>2, <2>1, <2>2 DEF IsMethodOf, FunctionFields
<1>4. CASE this.class = "RestApiLambdaWithCache"
  <2>1. MethodsOf(this.class) = RestApiLambdaWithCacheMethods
    BY <1>4 DEF MethodsOf, Classes
  <2>2. /\ DOMAIN RestApiLambdaWithCacheMethods = 1..16
        /\ RestApiLambdaWithCacheMethods[11] = "createLambdaFunction"
    BY DEF RestApiLambdaWithCacheMethods, RestApiLambdaMethods
  <2> QED  BY <1>1, <1>2, <2>1, <2>2 DEF IsMethodOf, FunctionFields
<1>5. CASE this.class = "LambdaWithIamAccess"
  <2>1. MethodsOf(this.class) = LambdaWithIamAccessMethods
    BY <1>5 DEF MethodsOf, Classes
  <2>2. /\ DOMAIN LambdaWithIamAccessMethods = 1..9
        /\ LambdaWithIamAccessMethods[7] = "createLambdaFunction"
    BY DEF LambdaWithIamAccessMethods
  <2> QED  BY <1>1, <1>2, <2>1, <2>2 DEF IsMethodOf, FunctionFields
<1> QED  BY <1>3, <1>4, <1>5 DEF FunctionClasses

LogMethods ==
    {"createApiDestinedLambdaEnvironment", "createApiDestinationRuleSuccess",
     "createApiDestinationRuleFailure"}

LEMMA LogsAre ==
    ASSUME this.class = "ApiToEventBridgeTargetWithSns", BuiltInv
    PROVE  /\ {"environment", "ruleSuccess", "ruleFailure"}
                \subseteq DOMAIN fields[this.id]
           /\ \A m \in LogMethods : IsMethodOf(m, this.class)
           /\ "environment" \in SetBy("createApiDestinedLambdaEnvironment")
           /\ "ruleSuccess" \in SetBy("createApiDestinationRuleSuccess")
           /\ "ruleFailure" \in SetBy("createApiDestinationRuleFailure")
<1>1. SetAt = WithSnsSetAt /\ DOMAIN fields[this.id] = WithSnsFields
  BY TopicIs
<1>2. MethodsOf(this.class) = WithSnsMethods
  BY DEF MethodsOf, Classes
<1>3. /\ DOMAIN WithSnsMethods = 1..31
      /\ WithSnsMethods[7] = "createApiDestinedLambdaEnvironment"
      /\ WithSnsMethods[12] = "createApiDestinationRuleSuccess"
      /\ WithSnsMethods[14] = "createApiDestinationRuleFailure"
  BY DEF WithSnsMethods
<1>4. \A m \in LogMethods : IsMethodOf(m, this.class)
  BY <1>2, <1>3 DEF IsMethodOf, LogMethods
<1>5. {"environment", "ruleSuccess", "ruleFailure"} \subseteq DOMAIN fields[this.id]
  BY <1>1 DEF WithSnsFields, EventApiFields, ApiFields
<1> QED  BY <1>1, <1>4, <1>5 DEF SetBy, WithSnsSetAt, Rank

BackendMethods ==
    {"resolveGlobalCertificate", "resolveRegionalCertificate",
     "resolveSiteDomainNames", "createSiteOriginCachePolicy",
     "createSiteOriginRequestPolicy", "createSiteOriginResponseHeadersPolicy",
     "createDistribution", "createNetworkMappings"}

LEMMA BackendsAre ==
    ASSUME this.class \in BackendClasses, BuiltInv
    PROVE  /\ {"certificate", "regionalCertificate", "externalDomainName",
               "distribution", "record"} \subseteq DOMAIN fields[this.id]
           /\ \A m \in BackendMethods : IsMethodOf(m, this.class)
           /\ "certificate" \in SetBy("resolveGlobalCertificate")
           /\ "regionalCertificate" \in SetBy("resolveRegionalCertificate")
           /\ "externalDomainName" \in SetBy("resolveSiteDomainNames")
           /\ {"certificate", "distribution"} \subseteq SetBy("createDistribution")
           /\ {"distribution", "record"} \subseteq SetBy("createNetworkMappings")
           /\ this.class = "SiteWithLambdaBackend" =>
                /\ "versionCapacity" \in DOMAIN fields[this.id]
                /\ IsMethodOf("createSiteLambda", this.class)
                /\ "versionCapacity" \in SetBy("createSiteLambda")
<1>1. SetAt = SiteSetAt /\ DOMAIN fields[this.id] = FieldsOf(this.class)
  BY ThisIs
  DEF SetAt, SetAtOf, BuiltInv, SiteClasses, BackendClasses, FunctionClasses
<1>2. /\ {"certificate", "regionalCertificate", "externalDomainName",
          "distribution", "record"} \subseteq DOMAIN fields[this.id]
      /\ this.class = "SiteWithLambdaBackend" =>
           "versionCapacity" \in DOMAIN fields[this.id]
  BY <1>1, FieldsAre DEF BackendClasses, SiteFields, EcsSiteFields, LambdaSiteFields
<1>3. /\ "certificate" \in SetBy("resolveGlobalCertificate")
      /\ {"certificate", "distribution"} \subseteq SetBy("createDistribution")
      /\ {"distribution", "record"} \subseteq SetBy("createNetworkMappings")
  BY <1>1 DEF SetBy, SiteSetAt, Rank, Belongs, BackendClasses
<1>4. /\ "regionalCertificate" \in SetBy("resolveRegionalCertificate")
      /\ "externalDomainName" \in SetBy("resolveSiteDomainNames")
      /\ "versionCapacity" \in SetBy("createSiteLambda")
  BY <1>1 DEF SetBy, SiteSetAt, Rank
<1>5. CASE this.class = "SiteWithEcsBackend"
  <2>1. MethodsOf(this.class) = SiteWithEcsBackendMethods
    BY <1>5 DEF MethodsOf, Classes
  <2>2. /\ DOMAIN SiteWithEcsBackendMethods = 1..24
        /\ SiteWithEcsBackendMethods[2] = "resolveGlobalCertificate"
        /\ SiteWithEcsBackendMethods[3] = "resolveRegionalCertificate"
        /\ SiteWithEcsBackendMethods[5] = "resolveSiteDomainNames"
        /\ SiteWithEcsBackendMethods[16] = "createSiteOriginCachePolicy"
        /\ SiteWithEcsBackendMethods[17] = "createSiteOriginRequestPolicy"
        /\ SiteWithEcsBackendMethods[18] = "createSiteOriginResponseHeadersPolicy"
        /\ SiteWithEcsBackendMethods[22] = "createDistribution"
        /\ SiteWithEcsBackendMethods[23] = "createNetworkMappings"
    BY DEF SiteWithEcsBackendMethods, BeforeBackend, BehindDistribution
  <2>3. \A m \in BackendMethods : IsMethodOf(m, this.class)
    BY <2>1, <2>2 DEF IsMethodOf, BackendMethods
  <2> QED  BY <1>2, <1>3, <1>4, <1>5, <2>3
<1>6. CASE this.class = "SiteWithLambdaBackend"
  <2>1. MethodsOf(this.class) = SiteWithLambdaBackendMethods
    BY <1>6 DEF MethodsOf, Classes
  <2>2. /\ DOMAIN SiteWithLambdaBackendMethods = 1..23
        /\ SiteWithLambdaBackendMethods[2] = "resolveGlobalCertificate"
        /\ SiteWithLambdaBackendMethods[3] = "resolveRegionalCertificate"
        /\ SiteWithLambdaBackendMethods[5] = "resolveSiteDomainNames"
        /\ SiteWithLambdaBackendMethods[7] = "createSiteOriginCachePolicy"
        /\ SiteWithLambdaBackendMethods[8] = "createSiteOriginRequestPolicy"
        /\ SiteWithLambdaBackendMethods[9] = "createSiteOriginResponseHeadersPolicy"
        /\ SiteWithLambdaBackendMethods[16] = "createSiteLambda"
        /\ SiteWithLambdaBackendMethods[21] = "createDistribution"
        /\ SiteWithLambdaBackendMethods[22] = "createNetworkMappings"
    BY DEF SiteWithLambdaBackendMethods, BeforeBackend, BehindDistribution,
           CreateSiteOriginResources
  <2>3. \A m \in BackendMethods \union {"createSiteLambda"} :
           IsMethodOf(m, this.class)
    BY <2>1, <2>2 DEF IsMethodOf, BackendMethods
  <2> QED  BY <1>2, <1>3, <1>4, <1>6, <2>3
<1> QED  BY <1>5, <1>6 DEF BackendClasses

LEMMA StaticsAre ==
    ASSUME this.class = "StaticSite", BuiltInv
    PROVE  /\ {"certificate", "distribution"} \subseteq DOMAIN fields[this.id]
           /\ \A m \in {"resolveCertificate", "createSiteDistribution"} :
                IsMethodOf(m, this.class)
           /\ "certificate" \in SetBy("resolveCertificate")
           /\ {"certificate", "distribution"} \subseteq
                SetBy("createSiteDistribution")
<1>1. SetAt = SiteSetAt /\ DOMAIN fields[this.id] = StaticSiteFields
  BY ThisIs, FieldsAre
  DEF SetAt, SetAtOf, BuiltInv, SiteClasses, BackendClasses, FunctionClasses
<1>2. {"certificate", "distribution"} \subseteq DOMAIN fields[this.id]
  BY <1>1 DEF StaticSiteFields
<1>3. MethodsOf(this.class) = StaticSiteMethods
  BY DEF MethodsOf, Classes
<1>4. /\ DOMAIN StaticSiteMethods = 1..11
      /\ StaticSiteMethods[2] = "resolveCertificate"
      /\ StaticSiteMethods[8] = "createSiteDistribution"
  BY DEF StaticSiteMethods
<1>5. \A m \in {"resolveCertificate", "createSiteDistribution"} :
         IsMethodOf(m, this.class)
  BY <1>3, <1>4 DEF IsMethodOf
<1> QED  BY <1>1, <1>2, <1>5 DEF SetBy, SiteSetAt, Rank, Belongs, BackendClasses

-----------------------------------------------------------------------------
(* What was found of a site and its function stays found *)

LEMMA VersionStaysFound ==
    ASSUME BuiltInv, GivenInv, VersionFound, ConstructStep, status' # "thrown"
    PROVE  VersionFound'
<1>1. this' = this /\ PlanInv /\ props'.aliases = props.aliases
  BY EveryStep DEF KeepsNamed, NamedProps, BuiltInv, GivenInv
<1>2. ASSUME this.class \in FunctionClasses, Ran("createLambdaFunction")'
      PROVE  Field("versionCapacity")' = VersionCapacity(props.aliases)
  <2>1. CASE Head(todo) = "createLambdaFunction"
    <3>1. \E values, resources :
            /\ Builds({}, resources, values)
            /\ values = [function |-> FunctionId,
                         versionCapacity |-> VersionCapacity(props.aliases)]
      BY <2>1, DoesWhatIsCalled DEF CreateLambdaFunction
    <3> QED  BY <1>1, <1>2, <3>1, BuildsSets, VersionsAre DEF Field
  <2>2. CASE Head(todo) # "createLambdaFunction"
    BY <1>1, <1>2, <2>2, OthersKeep, VersionsAre DEF VersionFound, Field
  <2> QED  BY <2>1, <2>2
<1>3. ASSUME this.class = "SiteWithLambdaBackend", Ran("createSiteLambda")'
      PROVE  Field("versionCapacity")' = VersionCapacity(props.aliases)
  <2>1. CASE Head(todo) = "createSiteLambda"
    <3>1. \E values, resources :
            /\ Creates({"lambdaRole"}, resources, values)
            /\ values = [function |-> <<"lambda">>,
                         versionCapacity |-> VersionCapacity(props.aliases)]
      BY <2>1, DoesWhatIsCalled DEF CreateSiteLambda, Throws
    <3> QED  BY <1>1, <1>3, <3>1, CreatesSets, BackendsAre DEF Field, BackendClasses
  <2>2. CASE Head(todo) # "createSiteLambda"
    BY <1>1, <1>3, <2>2, OthersKeep, BackendsAre
    DEF VersionFound, Field, BackendClasses
  <2> QED  BY <2>1, <2>2
<1> QED  BY <1>1, <1>2, <1>3 DEF VersionFound

LEMMA LogsStayFound ==
    ASSUME BuiltInv, GivenInv, LogsFound, ConstructStep, status' # "thrown"
    PROVE  LogsFound'
<1>1. this' = this /\ PlanInv /\ props'.useExisting = props.useExisting
      /\ {"ruleSuccess", "ruleFailure"} \subseteq DOMAIN props
  BY EveryStep DEF KeepsNamed, NamedProps, BuiltInv, PropsInv, ChangedProps, GivenInv
<1>2. SUFFICES ASSUME this.class = "ApiToEventBridgeTargetWithSns",
                      ~props.useExisting
               PROVE  LogsFound'
  BY <1>1 DEF LogsFound
<1> DEFINE environment == "createApiDestinedLambdaEnvironment"
           success == "createApiDestinationRuleSuccess"
           failure == "createApiDestinationRuleFailure"
<1>3. {environment, success, failure} = LogMethods
  BY DEF LogMethods
<1>4. Ran(environment)' => Field("environment")'.sourceId = this.id
  <2>1. CASE Head(todo) = environment
    <3>1. CreateApiDestinedLambdaEnvironment
      BY <2>1, DoesWhatIsCalled
    <3>2. \E values :
            /\ Sets(values) /\ values = [environment |-> [sourceId |-> this.id]]
      BY <1>2, <3>1 DEF CreateApiDestinedLambdaEnvironment, IfOwned
    <3> QED  BY <1>1, <1>2, <3>2, SetsSets, LogsAre DEF Field
  <2>2. CASE Head(todo) # environment
    BY <1>1, <1>2, <1>3, <2>2, OthersKeep, LogsAre DEF LogsFound, Field
  <2> QED  BY <2>1, <2>2
<1>5. Ran(success)' =>
        /\ Field("ruleSuccess")'.pattern = props'.ruleSuccess.pattern
        /\ props'.ruleSuccess.pattern # NotSet
  <2>1. CASE Head(todo) = success
    <3>1. CreateApiDestinationRuleSuccess
      BY <2>1, DoesWhatIsCalled
    <3>2. PICK rule, values, resources :
            /\ props' = [props EXCEPT !.ruleSuccess = rule]
            /\ Builds({"eventBus", "logGroupSuccess"}, resources, values)
            /\ values = [ruleSuccess |-> rule] /\ rule = Merged(props.ruleSuccess)
      BY <1>2, <3>1 DEF CreateApiDestinationRuleSuccess, IfOwned, RuleSuccessProps
    <3>3. Field("ruleSuccess")' = rule
      BY <1>1, <1>2, <3>2, BuildsSets, LogsAre DEF Field
    <3>4. props'.ruleSuccess = rule
      BY <1>1, <3>2
    <3>5. rule.pattern # NotSet
      <4>1. this.id # NotSet
        BY <1>1, ThisIs DEF GivenInv
      <4> QED  BY <3>2, <4>1 DEF Merged
    <3> QED  BY <3>3, <3>4, <3>5
  <2>2. CASE Head(todo) # success
    BY <1>1, <1>2, <1>3, <2>2, OthersKeep, LogsAre, PatternsChange
    DEF LogsFound, Field
  <2> QED  BY <2>1, <2>2
<1>6. Ran(failure)' => Field("ruleFailure")'.pattern \in {"callers", "errors"}
  <2>1. CASE Head(todo) = failure
    <3>1. CreateApiDestinationRuleFailure
      BY <2>1, DoesWhatIsCalled
    <3>2. PICK rule, values, resources :
            /\ Builds({"eventBus", "logGroupFailure"}, resources, values)
            /\ values = [ruleFailure |-> rule] /\ rule = RuleFailureProps
      BY <1>2, <3>1 DEF CreateApiDestinationRuleFailure, IfOwned
    <3>3. Field("ruleFailure")' = rule
      BY <1>1, <1>2, <3>2, BuildsSets, LogsAre DEF Field
    <3> QED  BY <3>2, <3>3 DEF RuleFailureProps, Merged, GivenInv
  <2>2. CASE Head(todo) # failure
    BY <1>1, <1>2, <1>3, <2>2, OthersKeep, LogsAre DEF LogsFound, Field
  <2> QED  BY <2>1, <2>2
<1> QED  BY <1>1, <1>4, <1>5, <1>6 DEF LogsFound

LEMMA ResolvedIsGiven ==
    ASSUME NEW arn \in {NotSet, "callers", "callersAbroad", "parameter"}
    PROVE  Given(ResolvedCertificate(arn))
BY DEF Given, ResolvedCertificate

LEMMA StaysRan ==
    ASSUME BuiltInv, ConstructStep
    PROVE  \A m : Ran(m) \/ m = Head(todo) => Ran(m)'
<1>1. PICK n, reads, sets : Method(n, reads, sets)
  BY EveryStepIsAMethod DEF AMethod, BuiltInv
<1>2. Calls(n) /\ PlanInv /\ n = Head(todo)
  BY <1>1 DEF Method, BuiltInv, Calls
<1>3. /\ Left' \subseteq Left /\ n \in DOMAIN Rank
      /\ \A s \in Left' : Rank[n] < Rank[s]
  BY <1>2, WhenCalled
<1>4. Rank[n] \in Nat
  BY <1>3, RanksAreNumbers
<1>5. n \notin Left'
  BY <1>3, <1>4
<1> QED  BY <1>2, <1>3, <1>5 DEF Ran

LEMMA DistributionIsSetOnce ==
    ASSUME BuiltInv, GivenInv, ConstructStep, this.class = "StaticSite",
           Head(todo) # "createSiteDistribution"
    PROVE  Field("distribution")' = Field("distribution")
<1>1. PICK n, reads, sets : Method(n, reads, sets)
  BY EveryStepIsAMethod DEF AMethod, BuiltInv
<1>2. Calls(n) /\ Changes(reads, sets) /\ Fits(n, reads, sets) /\ PlanInv
  BY <1>1 DEF Method, BuiltInv
<1>3. n = Head(todo) /\ n \in DOMAIN Rank /\ Belongs(this.class, Rank[n])
  BY <1>2, WhenCalled DEF Calls
<1>4. SetAt["distribution"] = {131, 132}
      /\ "distribution" \in DOMAIN fields[this.id]
  BY <1>2, StaticsAre
  DEF SetAt, SetAtOf, SiteSetAt, SiteClasses, BackendClasses, FunctionClasses
<1>5. Rank[n] # 131
  BY <1>3 DEF Belongs, BackendClasses
<1>6. Rank[n] # 132
  BY <1>3 DEF Rank
<1>7. "distribution" \notin sets
  BY <1>2, <1>4, <1>5, <1>6 DEF Fits
<1>8. this' = this
  BY EveryStep DEF GivenInv
<1> QED  BY <1>2, <1>4, <1>7, <1>8 DEF Changes, Field

LEMMA StaticStaysFound ==
    ASSUME BuiltInv, GivenInv, StaticFound, ConstructStep, status' # "thrown"
    PROVE  StaticFound'
<1>1. /\ this' = this /\ PlanInv /\ "defaultBehavior" \in DOMAIN props
      /\ \A p \in {"useExistingCertificate", "certificateRegion", "region"} :
           props'[p] = props[p]
  BY EveryStep DEF KeepsNamed, NamedProps, BuiltInv, PropsInv, ChangedProps, GivenInv
<1>2. SUFFICES ASSUME this.class = "StaticSite" PROVE StaticFound'
  BY <1>1 DEF StaticFound
<1>3. Given(Field("certificate"))' <=> Given(Field("certificate")')
  BY <1>1 DEF Given
<1>4. Ran("resolveCertificate")' => Given(Field("certificate")')
  <2>1. CASE Head(todo) = "resolveCertificate"
    <3>1. ResolveCertificate
      BY <2>1, DoesWhatIsCalled
    <3>2. PICK arn, values, resources :
            /\ Builds({}, resources, values)
            /\ values = [certificate |-> ResolvedCertificate(arn)]
            /\ arn \in {props.certificateArn, "parameter"}
      BY <1>2, <3>1 DEF ResolveCertificate, IfOwned, AlwaysOwned
    <3>3. Field("certificate")' = ResolvedCertificate(arn)
      BY <1>1, <1>2, <3>2, BuildsSets, StaticsAre DEF Field
    <3>4. arn \in {NotSet, "callers", "callersAbroad", "parameter"}
      BY <3>2 DEF BuiltInv, PropsInv
    <3> QED  BY <3>3, <3>4, ResolvedIsGiven
  <2>2. CASE Head(todo) # "resolveCertificate"
    <3>1. Ran("resolveCertificate")' =>
            Ran("resolveCertificate") /\ Field("certificate")' = Field("certificate")
      BY <1>1, <1>2, <2>2, OthersKeep, StaticsAre DEF Field
    <3> QED  BY <1>2, <3>1 DEF StaticFound
  <2> QED  BY <2>1, <2>2
<1>5. IF Ran("createSiteDistribution")'
        THEN /\ Field("distribution")'.behavior = props'.defaultBehavior
             /\ Field("certificate")' # "callersAbroad"
             /\ Field("certificate")' = "byId" =>
                  RegionOfId(props.certificateRegion) = EdgeRegion
        ELSE ~IsSet("distribution")'
  <2>1. props'.defaultBehavior = props.defaultBehavior
    <3>1. Head(todo) \notin ChangedBy["defaultBehavior"]
      <4>1. PICK n, reads, sets : Method(n, reads, sets)
        BY EveryStepIsAMethod DEF AMethod
      <4>2. n = Head(todo) /\ Belongs(this.class, Rank[n])
        BY <1>1, <4>1, WhenCalled DEF Method, Calls
      <4> QED  BY <1>2, <4>2 DEF ChangedBy, Belongs, Rank, BackendClasses
    <3> QED  BY <3>1, SharedAreKept DEF ChangedBy
  <2>2. CASE Head(todo) = "createSiteDistribution"
    <3>1. CreateSiteDistribution
      BY <2>2, DoesWhatIsCalled
    <3>2. ~RefusesCertificate
      BY <3>1 DEF CreateSiteDistribution, CreatesDistribution, Throws
    <3>3. \E values, resources :
            /\ Creates({"siteBucket"}, resources, values)
            /\ values = [distribution |->
                           [names |-> NotSet, behavior |-> props.defaultBehavior]]
      BY <3>1 DEF CreateSiteDistribution, CreatesDistribution, Throws
    <3>4. /\ Field("distribution")'
               = [names |-> NotSet, behavior |-> props.defaultBehavior]
          /\ Field("certificate")' = Field("certificate")
      BY <1>1, <1>2, <3>3, CreatesSets, StaticsAre DEF Field
    <3>5. Ran("createSiteDistribution")'
      BY <2>2, StaysRan
    <3> QED  BY <2>1, <3>2, <3>4, <3>5 DEF RefusesCertificate
  <2>3. CASE Head(todo) # "createSiteDistribution"
    <3>1. Ran("createSiteDistribution")' =>
            /\ Ran("createSiteDistribution")
            /\ Field("certificate")' = Field("certificate")
      BY <1>1, <1>2, <2>3, OthersKeep, StaticsAre DEF Field
    <3>2. Field("distribution")' = Field("distribution")
      BY <1>2, <2>3, DistributionIsSetOnce
    <3>3. Ran("createSiteDistribution") => Ran("createSiteDistribution")'
      BY StaysRan
    <3> QED  BY <1>2, <2>1, <3>1, <3>2, <3>3 DEF StaticFound, IsAtTheEdge, IsSet
  <2> QED  BY <2>2, <2>3
<1> QED  BY <1>1, <1>3, <1>4, <1>5 DEF StaticFound, IsAtTheEdge, RegionOfId

(* Policies that a site has as its own, it keeps, whoever comes next.      *)
LEMMA PoliciesStay ==
    ASSUME BuiltInv, GivenInv, ConstructStep, NEW id, NEW owner,
           fields'[id].distribution = fields[id].distribution,
           HasPoliciesOf(id, owner)
    PROVE  HasPoliciesOf(id, owner)'
BY BehaviorChanges DEF HasPoliciesOf

LEMMA GlobalStaysFound ==
    ASSUME BuiltInv, GivenInv, BackendFound, this.class \in BackendClasses,
           ConstructStep, status' # "thrown"
    PROVE  Ran("resolveGlobalCertificate")' => Given(Field("certificate"))'
<1>1. this' = this /\ PlanInv
      /\ props'.useExistingCertificate = props.useExistingCertificate
  BY EveryStep DEF KeepsNamed, NamedProps, BuiltInv, GivenInv
<1>2. Given(Field("certificate"))' <=> Given(Field("certificate")')
  BY <1>1 DEF Given
<1>3. CASE Head(todo) = "resolveGlobalCertificate"
  <2>1. ResolveGlobalCertificate
    BY <1>3, DoesWhatIsCalled
  <2>2. PICK arn, values, resources :
          /\ Builds({}, resources, values)
          /\ values = [certificate |-> ResolvedCertificate(arn)]
          /\ arn \in {props.certificateArn, "parameter"}
    BY <2>1 DEF ResolveGlobalCertificate
  <2>3. Field("certificate")' = ResolvedCertificate(arn)
    BY <1>1, <2>2, BuildsSets, BackendsAre DEF Field
  <2>4. arn \in {NotSet, "callers", "callersAbroad", "parameter"}
    BY <2>2 DEF BuiltInv, PropsInv
  <2> QED  BY <1>2, <2>3, <2>4, ResolvedIsGiven
<1>4. CASE Head(todo) # "resolveGlobalCertificate"
  <2>1. Ran("resolveGlobalCertificate")' =>
          /\ Ran("resolveGlobalCertificate")
          /\ Field("certificate")' = Field("certificate")
    BY <1>1, <1>4, OthersKeep, BackendsAre DEF Field, BackendMethods
  <2> QED  BY <1>2, <2>1 DEF BackendFound
<1> QED  BY <1>3, <1>4

LEMMA RegionalStays ==
    ASSUME BuiltInv, GivenInv, ConstructStep, NEW certificate,
           RegionalIs(certificate)
    PROVE  RegionalIs(certificate)'
<1> DEFINE given == props.regionalCertificate
           now == props'.regionalCertificate
<1>1. /\ now.existing = given.existing /\ now.inParameter = given.inParameter
      /\ now.arn = IF given.existing /\ given.inParameter
                     /\ Head(todo) = "resolveRegionalCertificate"
                     THEN "parameter" ELSE given.arn
  BY RegionalChanges DEF GivenInv
<1>2. /\ given.existing /\ given.inParameter => given.arn = "parameter"
      /\ certificate = IF ~given.existing THEN "created"
                       ELSE IF given.arn # NotSet THEN given.arn ELSE "byId"
  BY DEF RegionalIs
<1> HIDE DEF given, now
<1>3. now.arn = given.arn
  BY <1>1, <1>2
<1> QED  BY <1>1, <1>2, <1>3 DEF RegionalIs, given, now

LEMMA RegionalStaysFound ==
    ASSUME BuiltInv, GivenInv, BackendFound, this.class \in BackendClasses,
           ConstructStep, status' # "thrown"
    PROVE  this.class = "SiteWithEcsBackend" /\ Ran("resolveRegionalCertificate")'
             => RegionalIs(Field("regionalCertificate"))'
<1>1. this' = this /\ PlanInv /\ "regionalCertificate" \in DOMAIN props
  BY EveryStep DEF BuiltInv, PropsInv, ChangedProps, GivenInv
<1>2. CASE Head(todo) = "resolveRegionalCertificate"
  <2>1. ResolveRegionalCertificate
    BY <1>2, DoesWhatIsCalled
  <2> DEFINE given == props.regionalCertificate
             now == props'.regionalCertificate
             arn == IF given.existing /\ given.inParameter THEN "parameter"
                    ELSE given.arn
             found == IF ~given.existing THEN "created"
                      ELSE IF arn # NotSet THEN arn ELSE "byId"
  <2>2. \E values, resources :
          /\ Builds({"hostedZone"}, resources, values)
          /\ values = [regionalCertificate |-> found]
    BY <2>1 DEF ResolveRegionalCertificate
  <2>3. Field("regionalCertificate")' = found
    <3> HIDE DEF found
    <3> QED  BY <1>1, <2>2, BuildsSets, BackendsAre DEF Field
  <2>4. /\ now.existing = given.existing /\ now.inParameter = given.inParameter
        /\ now.arn = arn
    BY <1>2, RegionalChanges DEF GivenInv
  <2> QED  BY <2>3, <2>4 DEF RegionalIs
<1>3. CASE Head(todo) # "resolveRegionalCertificate"
  <2>1. Ran("resolveRegionalCertificate")' =>
          /\ Ran("resolveRegionalCertificate")
          /\ Field("regionalCertificate")' = Field("regionalCertificate")
    BY <1>1, <1>3, OthersKeep, BackendsAre DEF Field, BackendMethods
  <2>2. this.class = "SiteWithEcsBackend" /\ Ran("resolveRegionalCertificate")
          => RegionalIs(Field("regionalCertificate"))
    BY DEF BackendFound
  <2>3. ASSUME RegionalIs(Field("regionalCertificate")),
               Field("regionalCertificate")' = Field("regionalCertificate")
        PROVE  RegionalIs(Field("regionalCertificate"))'
    <3>1. \A c : RegionalIs(c) => RegionalIs(c)'
      BY RegionalStays
    <3> QED  BY ONLY <2>3, <3>1 DEF RegionalIs
  <2> QED  BY <2>1, <2>2, <2>3
<1> QED  BY <1>2, <1>3

LEMMA NamesStayTheSame ==
    ASSUME KeepsNamed
    PROVE  /\ DomainName(props.siteSubDomain)' = DomainName(props.siteSubDomain)
           /\ RecordName(props.siteRecordName)' = RecordName(props.siteRecordName)
           /\ RegionOfId(props.certificateRegion)'
                = RegionOfId(props.certificateRegion)
<1>1. \A p \in {"siteSubDomain", "siteRecordName", "stage", "skipStageForARecords",
                "certificateRegion", "region"} : props'[p] = props[p]
  BY DEF KeepsNamed, NamedProps
<1> QED  BY <1>1 DEF DomainName, PlainNames, RecordName, RegionOfId

LEMMA BackendStaysFound ==
    ASSUME BuiltInv, GivenInv, BackendFound, PoliciesFound, ConstructStep,
           status' # "thrown"
    PROVE  BackendFound'
<1>1. this' = this /\ PlanInv /\ KeepsNamed /\ Head(todo) \in Left
      /\ this.id \in DOMAIN fields
  BY EveryStep, ThisIs DEF BuiltInv, GivenInv
<1>2. /\ DomainName(props.siteSubDomain)' = DomainName(props.siteSubDomain)
      /\ RecordName(props.siteRecordName)' = RecordName(props.siteRecordName)
      /\ RegionOfId(props.certificateRegion)' = RegionOfId(props.certificateRegion)
  BY <1>1, NamesStayTheSame
<1>3. SUFFICES ASSUME this.class \in BackendClasses
               PROVE  BackendFound'
  BY <1>1 DEF BackendFound
<1>4. BackendMethods \subseteq DOMAIN Rank /\ todo # <<>>
  BY <1>1 DEF BackendMethods, Rank, Left
<1> DEFINE names == "resolveSiteDomainNames"
           distribution == "createDistribution"
           mappings == "createNetworkMappings"
<1>5. Ran(names)' => Field("externalDomainName")' = DomainName(props.siteSubDomain)
  <2>1. CASE Head(todo) = names
    <3>1. \E values :
            /\ Sets(values)
            /\ values = [internalDomainName |-> <<"internal">> \o
                                                  DomainName(props.siteSubDomain),
                         externalDomainName |-> DomainName(props.siteSubDomain)]
      BY <2>1, DoesWhatIsCalled DEF ResolveSiteDomainNames
    <3> QED  BY <1>1, <1>3, <3>1, SetsSets, BackendsAre DEF Field
  <2>2. CASE Head(todo) # names
    BY <1>1, <1>3, <2>2, OthersKeep, BackendsAre DEF BackendFound, Field, BackendMethods
  <2> QED  BY <2>1, <2>2
<1>6. Ran(distribution)' =>
        /\ Field("distribution")'.names = DomainName(props.siteSubDomain)
        /\ HasPoliciesOf(this.id, this.id)'
        /\ Field("certificate")' # "callersAbroad"
        /\ Field("certificate")' = "byId" =>
             RegionOfId(props.certificateRegion) = EdgeRegion
  <2>1. CASE Head(todo) = distribution
    <3>1. CreateDistribution
      BY <2>1, DoesWhatIsCalled
    <3>2. ~RefusesCertificate /\ props.defaultBehavior # NotSet
      BY <3>1 DEF CreateDistribution, CreatesDistribution, Throws
    <3>3. \E values, resources :
            /\ Creates({"origin", "externalDomainName"}, resources, values)
            /\ values = [distribution |-> [names |-> Field("externalDomainName"),
                                           behavior |-> props.defaultBehavior]]
      BY <3>1 DEF CreateDistribution, CreatesDistribution, Throws
    <3>4. /\ Field("distribution")' = [names |-> Field("externalDomainName"),
                                       behavior |-> props.defaultBehavior]
          /\ Field("certificate")' = Field("certificate") /\ props' = props
      BY <1>1, <1>3, <3>3, CreatesSets, BackendsAre DEF Field, Creates
    <3>5. /\ Rank[names] < Rank[distribution]
          /\ \A p \in Policies : Rank[CreatorOf[p]] < Rank[distribution]
          /\ \A p \in Policies : CreatorOf[p] \in DOMAIN Rank
      BY DEF Rank, Policies, CreatorOf
    <3>6. Ran(names) /\ \A p \in Policies : Ran(CreatorOf[p])
      BY <1>1, <1>4, <2>1, <3>5, EarlierRan DEF BackendMethods
    <3>7. \A p \in Policies : Describes(p) => props.defaultBehavior[p] = this.id
      BY <1>3, <3>2, <3>6 DEF PoliciesFound
    <3>8. HasPoliciesOf(this.id, this.id)'
      BY <1>1, <3>4, <3>7 DEF HasPoliciesOf, Describes, Field
    <3> QED  BY <1>3, <3>2, <3>4, <3>6, <3>8 DEF BackendFound, RefusesCertificate
  <2>2. CASE Head(todo) # distribution
    <3>1. Ran(distribution)' =>
            /\ Ran(distribution)
            /\ Field("certificate")' = Field("certificate")
            /\ Field("distribution")' = Field("distribution")
      BY <1>1, <1>3, <2>2, OthersKeep, BackendsAre DEF Field, BackendMethods
    <3>2. ASSUME HasPoliciesOf(this.id, this.id),
                 Field("distribution")' = Field("distribution")
          PROVE  HasPoliciesOf(this.id, this.id)'
      BY <1>1, <3>2, BehaviorChanges DEF HasPoliciesOf, Field
    <3> QED  BY <1>3, <3>1, <3>2 DEF BackendFound, IsAtTheEdge
  <2> QED  BY <2>1, <2>2
<1>7. Ran(mappings)' =>
        /\ Field("distribution")' # NotSet
        /\ Field("record")' = RecordName(props.siteRecordName)
  <2>1. CASE Head(todo) = mappings
    <3>1. CreateNetworkMappings
      BY <2>1, DoesWhatIsCalled
    <3>2. \E values, resources :
            /\ Creates({"distribution", "hostedZone"}, resources, values)
            /\ values = [record |-> RecordName(props.siteRecordName)]
      BY <3>1 DEF CreateNetworkMappings, RecordOf
    <3>3. /\ IsSet("distribution") /\ Field("distribution")' = Field("distribution")
          /\ Field("record")' = RecordName(props.siteRecordName)
      BY <1>1, <1>3, <3>2, CreatesSets, BackendsAre DEF Field
    <3> QED  BY <3>3 DEF IsSet
  <2>2. CASE Head(todo) # mappings
    <3>1. Ran(mappings)' =>
            /\ Ran(mappings) /\ Field("record")' = Field("record")
            /\ Field("distribution")' = Field("distribution")
      BY <1>1, <1>3, <2>2, OthersKeep, BackendsAre DEF Field, BackendMethods
    <3> QED  BY <1>3, <3>1 DEF BackendFound, IsSet
  <2> QED  BY <2>1, <2>2
<1> QED  BY <1>1, <1>2, <1>3, <1>5, <1>6, <1>7, GlobalStaysFound, RegionalStaysFound
         DEF BackendFound, IsSet, IsAtTheEdge

LEMMA SiteHasFields ==
    ASSUME NEW class \in DOMAIN Classes
    PROVE  /\ "siteVpc" \in FieldsOf(class) <=> class = "SiteWithEcsBackend"
           /\ "url" \in FieldsOf(class) <=> class = "SiteWithLambdaBackend"
           /\ "siteBucket" \in FieldsOf(class) <=> class = "StaticSite"
           /\ "versionCapacity" \in FieldsOf(class) =>
                class \in FunctionClasses \union {"SiteWithLambdaBackend"}
<1>1. CASE class \in {"ApiToEventBridgeTarget", "ApiToEventBridgeTargetWithSns",
                      "ApiToLambdaTarget", "ApiToAnyTarget"}
  BY <1>1, FieldsAre
  DEF EventBridgeTargetFields, WithSnsFields, LambdaTargetFields, AnyTargetFields,
      EventApiFields, ApiFields
<1>2. CASE class \in FunctionClasses
  BY <1>2, FieldsAre
  DEF FunctionClasses, RestApiLambdaFields, WithCacheFields, IamAccessFields,
      FunctionFields, ApiFields
<1>3. CASE class \in SiteClasses
  BY <1>3, FieldsAre
  DEF SiteClasses, BackendClasses, SiteFields, EcsSiteFields, LambdaSiteFields,
      StaticSiteFields
<1>4. CASE class \in ServiceClasses
  BY <1>4, FieldsAre DEF ServiceClasses, ServiceFields
<1>5. CASE class \in {"ApplicationConfiguration", "StaticAssetDeployment"}
  BY <1>5, FieldsAre DEF ConfigurationFields, AssetFields
<1> QED  BY <1>1, <1>2, <1>3, <1>4, <1>5, ClassesAre DEF ApiClasses, FunctionClasses

LEMMA ThisIsASite ==
    ASSUME BuiltInv
    PROVE  /\ HasBackend(this.id) <=> this.class \in BackendClasses
           /\ IsOf(this.id, "SiteWithEcsBackend") <=> this.class = "SiteWithEcsBackend"
           /\ IsOf(this.id, "StaticSite") <=> this.class = "StaticSite"
           /\ "versionCapacity" \in DOMAIN fields[this.id] =>
                this.class \in FunctionClasses \union {"SiteWithLambdaBackend"}
<1>1. /\ DOMAIN fields[this.id] = FieldsOf(this.class)
      /\ this.class \in DOMAIN Classes
  BY ThisIs DEF BuiltInv
<1>2. SiteClasses \subseteq DOMAIN Classes
  BY ClassesAre
<1>3. \A class : IsOf(this.id, class) <=> FieldsOf(this.class) = FieldsOf(class)
  BY <1>1 DEF IsOf, FieldsOf
<1>4. \A class \in SiteClasses : IsOf(this.id, class) <=> this.class = class
  BY <1>1, <1>2, <1>3, SiteHasFields DEF SiteClasses, BackendClasses
<1> QED  BY <1>1, <1>4, SiteHasFields DEF SiteClasses, BackendClasses, HasBackend

LEMMA PoliciesStayFound ==
    ASSUME BuiltInv, GivenInv, PoliciesFound, ConstructStep, status' # "thrown"
    PROVE  PoliciesFound'
<1>1. /\ this' = this /\ PlanInv /\ DOMAIN fields' = DOMAIN fields
      /\ \A id \in DOMAIN fields :
           /\ DOMAIN fields'[id] = DOMAIN fields[id]
           /\ id # this.id => fields'[id] = fields[id]
  BY EveryStep DEF BuiltInv, GivenInv
<1>2. SUFFICES ASSUME props'.defaultBehavior # NotSet PROVE PoliciesFound'
  BY DEF PoliciesFound
<1>3. props.defaultBehavior # NotSet
  BY <1>2, BehaviorChanges
<1>4. CASE this.class \in BackendClasses
  <2> SUFFICES ASSUME NEW p \in Policies, Describes(p)', Ran(CreatorOf[p])'
               PROVE  props'.defaultBehavior[p] = this.id
    BY <1>1, <1>4 DEF PoliciesFound
  <2>1. CASE Head(todo) = CreatorOf[p]
    BY <1>2, <2>1, BehaviorChanges
  <2>2. CASE Head(todo) # CreatorOf[p]
    <3>1. CreatorOf[p] \in BackendMethods
      BY DEF CreatorOf, BackendMethods, Policies
    <3>2. Ran(CreatorOf[p])
      BY <1>4, <2>2, <3>1, OthersKeep, BackendsAre
    <3>3. Describes(p) /\ props'.defaultBehavior[p] = props.defaultBehavior[p]
      BY <2>2, BehaviorChanges
    <3> QED  BY <1>3, <1>4, <3>2, <3>3 DEF PoliciesFound
  <2> QED  BY <2>1, <2>2
<1>5. CASE this.class \notin BackendClasses
  <2>1. \A p \in Policies : Head(todo) # CreatorOf[p]
    <3>1. PICK n, reads, sets : Method(n, reads, sets)
      BY EveryStepIsAMethod DEF AMethod
    <3>2. n = Head(todo) /\ Belongs(this.class, Rank[n])
      BY <1>1, <3>1, WhenCalled DEF Method, Calls
    <3> QED  BY <1>5, <3>2 DEF Policies, CreatorOf, Belongs, Rank
  <2>2. \A p \in Policies :
           /\ Describes(p)' = Describes(p)
           /\ props'.defaultBehavior[p] = props.defaultBehavior[p]
    BY <2>1, BehaviorChanges
  <2>3. Backends' = Backends
    <3>1. \A b \in DOMAIN fields : HasBackend(b)' <=> HasBackend(b)
      BY <1>1 DEF HasBackend, IsOf
    <3>2. ~HasBackend(this.id)
      BY <1>5, ThisIsASite
    <3> QED  BY <1>1, <3>1, <3>2 DEF Backends
  <2>4. \A owner : LeftBy(owner) => LeftBy(owner)'
    BY <2>2 DEF LeftBy
  <2>5. \/ \E owner \in Backends : LeftBy(owner)
        \/ /\ Backends = {}
           /\ \A p \in Policies : props.defaultBehavior[p] \notin DOMAIN fields
    BY <1>3, <1>5 DEF PoliciesFound
  <2> QED  BY <1>1, <1>5, <2>2, <2>3, <2>4, <2>5 DEF PoliciesFound
<1> QED  BY <1>4, <1>5

-----------------------------------------------------------------------------
(* What is finished is served, and stays so *)

LEMMA FoundIsServed ==
    ASSUME BuiltInv, ServedFound, todo = <<>>
    PROVE  IsServed(this.id)
<1>1. \A m : Ran(m)
  BY DEF Ran, Left
<1>2. \A f : fields[this.id][f] = Field(f)
  BY DEF Field
<1>3. "versionCapacity" \in DOMAIN fields[this.id] =>
         fields[this.id].versionCapacity = VersionCapacity(props.aliases)
  BY <1>1, <1>2, ThisIsASite DEF ServedFound, VersionFound
<1>4. IsOf(this.id, "ApiToEventBridgeTargetWithSns") /\ ~props.useExisting =>
         /\ fields[this.id].environment.sourceId = this.id
         /\ fields[this.id].ruleSuccess.pattern = props.ruleSuccess.pattern
         /\ props.ruleSuccess.pattern # NotSet
         /\ fields[this.id].ruleFailure.pattern \in {"callers", "errors"}
  BY <1>1, <1>2, ThisIsOf DEF ServedFound, LogsFound
<1>5. HasBackend(this.id) =>
         /\ fields[this.id].distribution # NotSet
         /\ fields[this.id].distribution.names = DomainName(props.siteSubDomain)
         /\ fields[this.id].record = RecordName(props.siteRecordName)
         /\ HasPoliciesOf(this.id, this.id)
  BY <1>1, <1>2, ThisIsASite DEF ServedFound, BackendFound, IsSet
<1>6. HasBackend(this.id) \/ IsOf(this.id, "StaticSite") =>
         /\ Given(fields[this.id].certificate)
         /\ fields[this.id].certificate # "callersAbroad"
         /\ fields[this.id].certificate = "byId" =>
              RegionOfId(props.certificateRegion) = EdgeRegion
  BY <1>1, <1>2, ThisIsASite DEF ServedFound, BackendFound, StaticFound, IsAtTheEdge
<1>7. IsOf(this.id, "SiteWithEcsBackend") =>
         RegionalIs(fields[this.id].regionalCertificate)
  BY <1>1, <1>2, ThisIsASite DEF ServedFound, BackendFound, BackendClasses
<1> QED  BY <1>3, <1>4, <1>5, <1>6, <1>7 DEF IsServed

LEMMA ServedStays ==
    ASSUME BuiltInv, GivenInv, ConstructStep, NEW id \in DOMAIN fields,
           fields'[id] = fields[id], IsServed(id)
    PROVE  IsServed(id)'
<1>1. /\ KeepsNamed /\ \A class : IsOf(id, class)' <=> IsOf(id, class)
      /\ HasBackend(id)' <=> HasBackend(id)
  BY EveryStep DEF GivenInv, IsOf, HasBackend
<1>2. \A p \in {"aliases", "useExisting", "useExistingCertificate"} :
         props'[p] = props[p]
  BY <1>1 DEF KeepsNamed, NamedProps
<1>3. /\ DomainName(props.siteSubDomain)' = DomainName(props.siteSubDomain)
      /\ RecordName(props.siteRecordName)' = RecordName(props.siteRecordName)
      /\ RegionOfId(props.certificateRegion)' = RegionOfId(props.certificateRegion)
  BY <1>1, NamesStayTheSame
<1>4. IsOf(id, "ApiToEventBridgeTargetWithSns")' /\ ~props'.useExisting =>
         /\ fields'[id].environment.sourceId = id
         /\ fields'[id].ruleSuccess.pattern = props'.ruleSuccess.pattern
         /\ props'.ruleSuccess.pattern # NotSet
         /\ fields'[id].ruleFailure.pattern \in {"callers", "errors"}
  BY <1>1, <1>2, PatternsChange DEF IsServed
<1>5. HasBackend(id)' => HasPoliciesOf(id, id)'
  BY <1>1, PoliciesStay DEF IsServed
<1>6. Given(fields[id].certificate)' <=> Given(fields[id].certificate)
  BY <1>2 DEF Given
<1>7. IsOf(id, "SiteWithEcsBackend")' => RegionalIs(fields[id].regionalCertificate)'
  <2>1. \A c : RegionalIs(c) => RegionalIs(c)'
    BY RegionalStays
  <2>2. RegionalIs(fields[id].regionalCertificate) =>
          RegionalIs(fields[id].regionalCertificate)'
    <3>1. fields'[id].regionalCertificate = fields[id].regionalCertificate
      OBVIOUS
    <3> QED  BY ONLY <2>1, <3>1 DEF RegionalIs
  <2> QED  BY <1>1, <2>2 DEF IsServed
<1> QED  BY <1>1, <1>2, <1>3, <1>4, <1>5, <1>6, <1>7 DEF IsServed

LEMMA ServedIsKept ==
    ASSUME NEW id \in DOMAIN fields, UNCHANGED <<props, fields>>, IsServed(id)
    PROVE  IsServed(id)'
<1>1. HasPoliciesOf(id, id) => HasPoliciesOf(id, id)'
  BY DEF HasPoliciesOf, Describes
<1>2. /\ \A class : IsOf(id, class)' <=> IsOf(id, class)
      /\ HasBackend(id)' <=> HasBackend(id)
      /\ DomainName(props.siteSubDomain)' = DomainName(props.siteSubDomain)
      /\ RecordName(props.siteRecordName)' = RecordName(props.siteRecordName)
      /\ RegionOfId(props.certificateRegion)' = RegionOfId(props.certificateRegion)
  BY DEF IsOf, HasBackend, DomainName, PlainNames, RecordName, RegionOfId
<1> QED  BY <1>1, <1>2 DEF IsServed, Given, RegionalIs

(* Of a construct that has run no method yet there is nothing to find but  *)
(* the policies that others left.                                          *)
LEMMA NothingIsServed ==
    Untouched =>
      /\ VersionFound /\ LogsFound /\ BackendFound /\ StaticFound
      /\ this.class \in BackendClasses => PoliciesFound
<1> SUFFICES ASSUME Untouched
             PROVE  /\ VersionFound /\ LogsFound /\ BackendFound /\ StaticFound
                    /\ this.class \in BackendClasses => PoliciesFound
  OBVIOUS
<1>1. BuiltInv /\ \A m : IsMethodOf(m, this.class) => ~Ran(m)
  BY DEF Untouched, IsMethodOf, Ran, Left, MethodsOf, InitResources
<1>2. VersionFound
  BY <1>1, VersionsAre, BackendsAre DEF VersionFound, BackendClasses
<1>3. LogsFound
  BY <1>1, LogsAre DEF LogsFound, LogMethods
<1>4. this.class \in BackendClasses => \A m \in BackendMethods : ~Ran(m)
  BY <1>1, BackendsAre
<1>5. BackendFound
  BY <1>4 DEF BackendFound, BackendMethods
<1>6. StaticFound
  BY <1>1, StaticsAre DEF StaticFound, Untouched
<1>7. this.class \in BackendClasses => PoliciesFound
  <2>1. \A p \in Policies : CreatorOf[p] \in BackendMethods
    BY DEF CreatorOf, BackendMethods, Policies
  <2> QED  BY <1>4, <2>1 DEF PoliciesFound
<1> QED  BY <1>2, <1>3, <1>5, <1>6, <1>7

ServedInv ==
    /\ BuiltInv /\ GivenInv
    /\ status # "thrown" => ServedFound /\ Served

LEMMA InitIsGiven ==
    ASSUME NEW c \in Choices, props = c.props, fields = NewFields(c.plan)
    PROVE  GivenInv
<1> DEFINE ids == {c.plan[i].id : i \in DOMAIN c.plan}
<1>1. /\ ChangedProps \union NamedProps \subseteq DOMAIN c.props
      /\ c.props.siteSubDomain # NotSet /\ ScalesWithinRanges(c.props.aliases)
  BY ChoicesAssumption
<1>2. \A i \in DOMAIN c.plan : c.plan[i].id # NotSet
  BY ChoicesAssumption
<1>3. TellsCallersApart(c.props, ids)
  BY ChoicesAssumption
<1>4. DOMAIN fields = ids
  BY DEF NewFields
<1>5. NotSet \notin DOMAIN fields
  BY <1>2, <1>4
<1>6. /\ {"existing", "inParameter", "arn", "region"}
           \subseteq DOMAIN props.regionalCertificate
      /\ props.regionalCertificate.arn \in {NotSet, "callers", "parameter"}
      /\ "asGiven" \notin {props.region, props.regionalCertificate.region}
      /\ props.defaultBehavior # NotSet => Policies \subseteq DOMAIN props.defaultBehavior
      /\ props.ruleSuccess.pattern \in {NotSet, "callers"}
      /\ props.ruleFailure.pattern \in {NotSet, "callers", "errors"}
  BY <1>3 DEF TellsCallersApart
<1> QED  BY <1>1, <1>5, <1>6 DEF GivenInv

LEMMA InitServed == Init => ServedInv
<1> SUFFICES ASSUME NEW c \in Choices,
                    props = c.props,
                    StartsWith(c.plan, InitResources(c.plan[1])),
                    fields = NewFields(c.plan), BuiltInv
             PROVE  ServedInv
  BY InitBuilt DEF Init
<1>1. plan = c.plan /\ todo = InitResources(c.plan[1]) /\ this = c.plan[1]
      /\ 1 \in DOMAIN c.plan
  BY ChosenPlan DEF StartsWith, this
<1>2. GivenInv
  BY InitIsGiven
<1>3. \A f \in DOMAIN fields[this.id] : ~IsSet(f)
  BY <1>1, NewFieldsAre DEF IsSet, Field
<1>4. Untouched
  BY <1>1, <1>3 DEF Untouched
<1>5. Served
  BY <1>1 DEF Served, NewFields
<1>6. ASSUME this.class \notin BackendClasses, props.defaultBehavior # NotSet
      PROVE  PoliciesFound
  <2>1. Backends = {}
    <3> SUFFICES ASSUME NEW b \in DOMAIN fields, HasBackend(b)
                 PROVE  fields[b].distribution = NotSet
      BY DEF Backends
    <3>1. PICK i \in DOMAIN c.plan : b = c.plan[i].id
      BY DEF NewFields
    <3>2. fields[b] = [f \in FieldsOf(c.plan[i].class) |-> NotSet]
      BY <3>1, NewFieldsAre
    <3>3. "distribution" \in DOMAIN fields[b]
      BY DEF HasBackend, IsOf, Classes, EcsSiteFields, LambdaSiteFields, SiteFields
    <3> QED  BY <3>2, <3>3
  <2>2. \A p \in Policies : props.defaultBehavior[p] \notin DOMAIN fields
    <3>1. TellsCallersApart(c.props, {c.plan[i].id : i \in DOMAIN c.plan})
      BY ChoicesAssumption
    <3>2. DOMAIN fields = {c.plan[i].id : i \in DOMAIN c.plan}
      BY DEF NewFields
    <3> QED  BY <1>6, <3>1, <3>2 DEF TellsCallersApart
  <2> QED  BY <1>6, <2>1, <2>2 DEF PoliciesFound
<1>7. ServedFound
  BY <1>4, <1>6, NothingIsServed DEF ServedFound, PoliciesFound
<1> QED  BY <1>2, <1>5, <1>7 DEF ServedInv

LEMMA ConstructStepServed ==
    ASSUME ServedInv, ConstructStep
    PROVE  ServedInv'
<1>1. /\ plan' = plan /\ this' = this /\ DOMAIN fields' = DOMAIN fields
      /\ \A id \in DOMAIN fields : id # this.id => fields'[id] = fields[id]
  BY EveryStep DEF ServedInv, GivenInv
<1>2. status = "synth" /\ BuiltInv'
  <2>1. BuiltInv /\ PlanInv
    BY DEF ServedInv, BuiltInv
  <2>2. PICK n, reads, sets : Method(n, reads, sets)
    BY <2>1, EveryStepIsAMethod DEF AMethod
  <2>3. status = "synth"
    BY <2>1, <2>2, WhenCalled DEF Method
  <2>4. [Next]_synthVars
    BY DEF Next, ConstructStep
  <2> QED  BY <2>1, <2>3, <2>4, NextBuilt
<1>3. BuiltInv /\ GivenInv /\ ServedFound /\ Served
  BY <1>2 DEF ServedInv
<1>4. GivenInv'
  BY <1>3, GivenStays
<1>5. status' # "thrown" => ServedFound'
  BY <1>3, VersionStaysFound, LogsStayFound, BackendStaysFound, StaticStaysFound,
     PoliciesStayFound DEF ServedFound
<1>6. Served'
  <2> SUFFICES ASSUME NEW id \in DOMAIN fields, \A i \in DOMAIN plan : plan[i].id # id
               PROVE  IsServed(id)'
    BY <1>1 DEF Served
  <2>1. id # this.id
    BY <1>3 DEF this, BuiltInv, PlanInv
  <2>2. IsServed(id)
    BY <1>3 DEF Served
  <2> QED  BY <1>1, <1>3, <2>1, <2>2, ServedStays
<1> QED  BY <1>2, <1>4, <1>5, <1>6 DEF ServedInv

LEMMA NextConstructServed ==
    ASSUME ServedInv, NextConstruct(InitResources(plan[2]))
    PROVE  ServedInv'
<1>1. /\ plan \in Seq(Constructs) /\ Len(plan) > 1 /\ plan' = Tail(plan)
      /\ todo' = InitResources(plan[2]) /\ todo = <<>> /\ status = "synth"
      /\ UNCHANGED <<props, fields, template, status>>
  BY DEF NextConstruct, ServedInv, BuiltInv, PlanInv
<1>2. /\ DOMAIN plan' = 1..(Len(plan) - 1) /\ DOMAIN plan = 1..Len(plan)
      /\ \A i \in DOMAIN plan' : plan'[i] = plan[i + 1]
      /\ this = plan[1] /\ this' = plan[2] /\ Len(plan) \in Nat /\ 2 \in DOMAIN plan
  BY <1>1 DEF this
<1>3. BuiltInv' /\ BuiltInv /\ GivenInv /\ ServedFound /\ Served
  BY <1>1, NextConstructKeeps DEF ServedInv
<1>4. GivenInv'
  BY <1>1, <1>3 DEF GivenInv, IsOf
<1>5. Untouched'
  <2>1. fields'[this'.id] = [f \in FieldsOf(this'.class) |-> NotSet]
    BY <1>1, <1>2, <1>3 DEF BuiltInv, FieldsInv
  <2> QED  BY <1>1, <1>2, <1>3, <2>1 DEF Untouched, IsSet, Field, InitResources
<1>6. /\ VersionFound' /\ LogsFound' /\ BackendFound' /\ StaticFound'
      /\ this'.class \in BackendClasses => PoliciesFound'
  <2>1. (/\ VersionFound /\ LogsFound /\ BackendFound /\ StaticFound
         /\ this.class \in BackendClasses => PoliciesFound)'
    BY <1>5, NothingIsServed, PTL
  <2> QED  BY <2>1
<1>7. ASSUME this'.class \notin BackendClasses, props.defaultBehavior # NotSet
      PROVE  PoliciesFound'
  <2>1. /\ Backends' = Backends /\ props' = props /\ fields' = fields
        /\ \A owner : LeftBy(owner)' <=> LeftBy(owner)
    BY <1>1 DEF Backends, HasBackend, IsOf, LeftBy, Describes
  <2>2. CASE this.class \in BackendClasses
    <3>1. \A m : Ran(m)
      BY <1>1 DEF Ran, Left
    <3>2. LeftBy(this.id)
      BY <1>3, <1>7, <2>2, <3>1 DEF ServedFound, PoliciesFound, LeftBy
    <3>3. this.id \in Backends
      BY <1>3, <2>2, <3>1, ThisIsASite, ThisIsOf
      DEF ServedFound, BackendFound, IsSet, Field, Backends
    <3> QED  BY <1>7, <2>1, <3>2, <3>3 DEF PoliciesFound
  <2>3. CASE this.class \notin BackendClasses
    BY <1>3, <1>7, <2>1, <2>3 DEF ServedFound, PoliciesFound
  <2> QED  BY <2>2, <2>3
<1>8. ServedFound'
  BY <1>1, <1>6, <1>7 DEF ServedFound, PoliciesFound
<1>9. Served'
  <2> SUFFICES ASSUME NEW id \in DOMAIN fields,
                      \A i \in DOMAIN plan' : plan'[i].id # id
               PROVE  IsServed(id)'
    BY <1>1 DEF Served
  <2>1. CASE id = this.id
    <3>1. IsServed(id)
      BY <1>1, <1>3, <2>1, FoundIsServed
    <3> QED  BY <1>1, <3>1, ServedIsKept
  <2>2. CASE id # this.id
    <3>1. ASSUME NEW i \in DOMAIN plan PROVE plan[i].id # id
      <4>1. i = 1 \/ (i - 1 \in DOMAIN plan' /\ (i - 1) + 1 = i)
        BY <1>2
      <4> QED  BY <1>2, <2>2, <4>1
    <3> QED  BY <1>1, <1>3, <3>1, ServedIsKept DEF Served
  <2> QED  BY <2>1, <2>2
<1> QED  BY <1>3, <1>4, <1>8, <1>9 DEF ServedInv

LEMMA ServedFoundIsKept ==
    ASSUME ServedFound, UNCHANGED <<props, plan, todo, fields>>
    PROVE  ServedFound'
<1>1. /\ this' = this /\ \A f : Field(f)' = Field(f)
      /\ \A m : Ran(m)' = Ran(m)
  BY DEF this, Field, Ran, Left
<1>2. VersionFound' /\ LogsFound'
  BY <1>1 DEF ServedFound, VersionFound, LogsFound
<1>3. BackendFound' /\ StaticFound'
  BY <1>1
  DEF ServedFound, BackendFound, StaticFound, IsSet, Given, RegionalIs, IsAtTheEdge,
      RegionOfId, DomainName, RecordName, PlainNames, HasPoliciesOf, Describes
<1>4. PoliciesFound'
  <2>1. /\ Backends' = Backends
        /\ \A p \in Policies : Describes(p)' <=> Describes(p)
        /\ \A owner : LeftBy(owner)' <=> LeftBy(owner)
    BY DEF Backends, HasBackend, IsOf, LeftBy, Describes
  <2> QED  BY <1>1, <2>1 DEF ServedFound, PoliciesFound
<1> QED  BY <1>2, <1>3, <1>4 DEF ServedFound

LEMMA NextServed == ServedInv /\ [Next]_synthVars => ServedInv'
<1> SUFFICES ASSUME ServedInv, [Next]_synthVars PROVE ServedInv'
  OBVIOUS
<1>1. CASE ConstructStep
  BY <1>1, ConstructStepServed
<1>2. CASE NextConstruct(InitResources(plan[2]))
  BY <1>2, NextConstructServed
<1>3. CASE Finish \/ UNCHANGED synthVars
  <2>1. /\ UNCHANGED <<props, plan, todo, fields>> /\ BuiltInv'
        /\ status' # "thrown" => status # "thrown"
    BY <1>3, NextBuilt DEF Finish, synthVars, ServedInv
  <2>2. GivenInv'
    BY <2>1 DEF ServedInv, GivenInv, IsOf
  <2>3. status' # "thrown" => ServedFound'
    BY <2>1, ServedFoundIsKept DEF ServedInv
  <2>4. status' # "thrown" => Served'
    BY <2>1, ServedIsKept DEF ServedInv, Served
  <2> QED  BY <2>1, <2>2, <2>3, <2>4 DEF ServedInv
<1> QED  BY <1>1, <1>2, <1>3 DEF Next, ConstructStep

LEMMA SpecServed == Spec => []ServedInv
BY InitServed, NextServed, PTL DEF Spec

-----------------------------------------------------------------------------
(* What the properties say of what is served *)

LEMMA LastOfSome ==
    ASSUME NEW n \in Nat, NEW S \in SUBSET (1..n), S # {}
    PROVE  \E last \in S : \A i \in S : i =< last
<1> DEFINE T == {n - i : i \in S}
<1>1. T \subseteq Nat /\ T # {}
  <2>1. \A i \in S : i \in 1..n
    OBVIOUS
  <2>2. \A i \in 1..n : n - i \in Nat
    OBVIOUS
  <2>3. \A t \in T : t \in Nat
    BY <2>1, <2>2
  <2>4. \E i \in S : n - i \in T
    OBVIOUS
  <2> QED  BY <2>3, <2>4
<1>2. PICK t \in T : \A u \in T : ~(<<u, t>> \in OpToRel(<, Nat))
  <2> HIDE DEF T
  <2> QED  BY <1>1, NatLessThanWellFounded, WFMin
<1>3. \A u \in T : ~(u < t)
  BY <1>1, <1>2 DEF OpToRel
<1>4. PICK last \in S : t = n - last
  BY <1>2
<1>5. ASSUME NEW i \in S PROVE i =< last
  <2>1. n - i \in T /\ ~(n - i < n - last)
    BY <1>3, <1>4
  <2>2. i \in 1..n /\ last \in 1..n
    BY <1>4
  <2> QED  BY ONLY <2>1, <2>2, n \in Nat
<1> QED  BY <1>4, <1>5

LEMMA VersionWithinItsRange ==
    ASSUME NEW aliases, ScalesWithinRanges(aliases)
    PROVE  LET on == OnVersionOf(aliases)
           IN \/ on = {} /\ VersionCapacity(aliases) = 0
              \/ \E last \in on :
                   /\ \A i \in on : i =< last
                   /\ VersionCapacity(aliases)
                        \in aliases[last].capacity.min..aliases[last].capacity.max
<1> DEFINE on == OnVersionOf(aliases)
<1>1. CASE on = {}
  BY <1>1 DEF VersionCapacity
<1>2. CASE on # {}
  <2>1. on \subseteq 1..Len(aliases) /\ Len(aliases) \in Nat
    BY DEF OnVersionOf, ScalesWithinRanges
  <2> DEFINE last == CHOOSE i \in on : \A j \in on : j =< i
  <2>2. \E i \in on : \A j \in on : j =< i
    <3> HIDE DEF on
    <3> QED  BY <1>2, <2>1, LastOfSome
  <2>3. last \in on /\ \A j \in on : j =< last
    BY <2>2
  <2>4. VersionCapacity(aliases) = aliases[last].capacity.min
    BY <1>2 DEF VersionCapacity
  <2>5. /\ aliases[last].capacity.min \in Nat /\ aliases[last].capacity.max \in Nat
        /\ aliases[last].capacity.min =< aliases[last].capacity.max
    BY <2>3 DEF ScalesWithinRanges
  <2> HIDE DEF on, last
  <2>6. aliases[last].capacity.min
          \in aliases[last].capacity.min..aliases[last].capacity.max
    BY <2>5
  <2> QED  BY <2>3, <2>4, <2>6 DEF on
<1> QED  BY <1>1, <1>2

LEMMA DoneIsServed ==
    ASSUME ServedInv, NEW id \in DOMAIN fields, Done(id)
    PROVE  IsServed(id)
<1>1. /\ BuiltInv /\ ServedFound /\ Served /\ todo = <<>>
      /\ plan \in Seq(Constructs) /\ Len(plan) = 1
  BY DEF ServedInv, Done, BuiltInv, PlanInv
<1>2. CASE id = this.id
  BY <1>1, <1>2, FoundIsServed
<1>3. CASE id # this.id
  <2>1. \A i \in DOMAIN plan : plan[i] = this
    BY <1>1 DEF this
  <2> QED  BY <1>1, <1>3, <2>1 DEF Served
<1> QED  BY <1>2, <1>3

LEMMA ServedVersions == ServedInv => VersionStartsWithinItsRange
<1> SUFFICES ASSUME ServedInv, NEW id \in DOMAIN fields, Done(id),
                    "versionCapacity" \in DOMAIN fields[id]
             PROVE  LET aliases == props.aliases
                        on == OnVersionOf(aliases)
                        capacity == fields[id].versionCapacity
                    IN \/ on = {} /\ capacity = 0
                       \/ \E last \in on :
                            /\ \A i \in on : i =< last
                            /\ capacity \in aliases[last].capacity.min
                                             ..aliases[last].capacity.max
  BY DEF VersionStartsWithinItsRange
<1>1. fields[id].versionCapacity = VersionCapacity(props.aliases)
  BY DoneIsServed DEF IsServed
<1>2. ScalesWithinRanges(props.aliases)
  BY DEF ServedInv, GivenInv
<1> QED  BY <1>1, <1>2, VersionWithinItsRange

LEMMA ServedLogs == ServedInv => SuccessesAreLoggedForOne
<1> SUFFICES ASSUME ServedInv, NEW id \in DOMAIN fields, Done(id),
                    IsOf(id, "ApiToEventBridgeTargetWithSns"), ~props.useExisting
             PROVE  /\ fields[id].environment.sourceId = id
                    /\ fields[id].ruleSuccess.pattern = props.ruleSuccess.pattern
                    /\ \/ props.ruleSuccess.pattern = "callers"
                       \/ \E one \in DOMAIN fields :
                            /\ IsOf(one, "ApiToEventBridgeTargetWithSns")
                            /\ props.ruleSuccess.pattern = one
                    /\ fields[id].ruleFailure.pattern \in {"callers", "errors"}
  BY DEF SuccessesAreLoggedForOne
<1>1. IsServed(id)
  BY DoneIsServed
<1> QED  BY <1>1 DEF IsServed, ServedInv, GivenInv

LEMMA ServedPolicies == ServedInv => PoliciesAreItsOwn
<1> SUFFICES ASSUME ServedInv PROVE PoliciesAreItsOwn
  OBVIOUS
<1>1. ASSUME NEW id \in DOMAIN fields, Done(id), HasBackend(id)
      PROVE  HasPoliciesOf(id, id)
  BY <1>1, DoneIsServed DEF IsServed
<1>2. ASSUME this.class = "StaticSite", status # "thrown", IsSet("distribution"),
             props.defaultBehavior # NotSet
      PROVE  \/ \E owner \in Backends : HasPoliciesOf(this.id, owner)
             \/ /\ Backends = {}
                /\ \A p \in Policies :
                     Field("distribution").behavior[p] \notin DOMAIN fields
  <2>1. BuiltInv /\ PlanInv /\ StaticFound /\ PoliciesFound
    BY <1>2 DEF ServedInv, ServedFound, BuiltInv
  <2>2. this.class \notin BackendClasses
    BY <1>2 DEF BackendClasses
  <2>3. Ran("createSiteDistribution")
    BY <1>2, <2>1 DEF StaticFound
  <2>4. Field("distribution").behavior = props.defaultBehavior
    BY <1>2, <2>1, <2>3 DEF StaticFound
  <2>5. CASE \E owner \in Backends : LeftBy(owner)
    BY <2>4, <2>5 DEF LeftBy, HasPoliciesOf, Field
  <2>6. CASE /\ Backends = {}
             /\ \A p \in Policies : props.defaultBehavior[p] \notin DOMAIN fields
    BY <2>4, <2>6
  <2> QED  BY <1>2, <2>1, <2>2, <2>5, <2>6 DEF PoliciesFound
<1> QED  BY <1>1, <1>2 DEF PoliciesAreItsOwn

LEMMA ServedRecords == ServedInv => RecordIsANameOfTheSite
<1> SUFFICES ASSUME ServedInv, NEW id \in DOMAIN fields, Done(id), HasBackend(id)
             PROVE  (fields[id].record = fields[id].distribution.names)
                      <=> (props.siteRecordName = props.siteSubDomain)
  BY DEF RecordIsANameOfTheSite
<1>1. /\ fields[id].distribution.names = DomainName(props.siteSubDomain)
      /\ fields[id].record = RecordName(props.siteRecordName)
  BY DoneIsServed DEF IsServed
<1>2. props.siteSubDomain # NotSet
  BY DEF ServedInv, GivenInv
<1> DEFINE given == props.siteRecordName
           known == props.siteSubDomain
           stage == props.stage
<1>3. /\ <<given>> = <<known>> <=> given = known
      /\ <<given, stage>> = <<known, stage>> <=> given = known
      /\ <<given, stage>> # <<known>>
  OBVIOUS
<1>4. CASE props.skipStageForARecords
  BY <1>1, <1>3, <1>4 DEF DomainName, RecordName, PlainNames
<1>5. CASE ~props.skipStageForARecords /\ stage = "prd"
  BY <1>1, <1>2, <1>3, <1>5 DEF DomainName, RecordName, PlainNames
<1>6. CASE ~props.skipStageForARecords /\ stage # "prd"
  BY <1>1, <1>3, <1>6 DEF DomainName, RecordName, PlainNames
<1> QED  BY <1>4, <1>5, <1>6

LEMMA ServedCertificates == ServedInv => CertificatesAreWhereTheyAreUsed
<1> SUFFICES ASSUME ServedInv PROVE CertificatesAreWhereTheyAreUsed
  OBVIOUS
<1>1. "asGiven" \notin {props.region, props.regionalCertificate.region}
  BY DEF ServedInv, GivenInv
<1>2. ASSUME NEW id \in DOMAIN fields, Done(id),
             HasBackend(id) \/ IsOf(id, "StaticSite")
      PROVE  (RegionOf(fields[id].certificate, props.certificateRegion)
                \in {EdgeRegion, "asGiven"})
               <=> (props.useExistingCertificate \/ props.region = EdgeRegion)
  <2>1. /\ Given(fields[id].certificate)
        /\ fields[id].certificate # "callersAbroad"
        /\ fields[id].certificate = "byId" =>
             RegionOfId(props.certificateRegion) = EdgeRegion
    BY <1>2, DoneIsServed DEF IsServed
  <2>2. CASE ~props.useExistingCertificate
    BY <1>1, <2>1, <2>2 DEF Given, RegionOf
  <2>3. CASE props.useExistingCertificate
    BY <2>1, <2>3 DEF Given, RegionOf
  <2> QED  BY <2>2, <2>3
<1>3. ASSUME NEW id \in DOMAIN fields, Done(id), IsOf(id, "SiteWithEcsBackend")
      PROVE  LET given == props.regionalCertificate
             IN (RegionOf(fields[id].regionalCertificate, given.region)
                   \in {props.region, "asGiven"})
                  <=> (given.existing /\ given.arn = NotSet
                         => given.region \in {NotSet, props.region})
  <2> DEFINE given == props.regionalCertificate
             certificate == fields[id].regionalCertificate
  <2>1. RegionalIs(certificate)
    BY <1>3, DoneIsServed DEF IsServed
  <2>2. given.arn \in {NotSet, "callers", "parameter"}
    BY DEF ServedInv, GivenInv
  <2>3. CASE ~given.existing
    BY <2>1, <2>3 DEF RegionalIs, RegionOf
  <2>4. CASE given.existing /\ given.arn # NotSet
    <3>1. certificate \in {"callers", "parameter"}
      BY <2>1, <2>2, <2>4 DEF RegionalIs
    <3> QED  BY <2>4, <3>1 DEF RegionOf
  <2>5. CASE given.existing /\ given.arn = NotSet
    <3>1. certificate = "byId"
      BY <2>1, <2>5 DEF RegionalIs
    <3>2. RegionOf(certificate, given.region) = RegionOfId(given.region)
      BY <3>1 DEF RegionOf
    <3> QED  BY <1>1, <2>5, <3>2 DEF RegionOfId
  <2> QED  BY <2>3, <2>4, <2>5
<1> QED  BY <1>2, <1>3 DEF CertificatesAreWhereTheyAreUsed

-----------------------------------------------------------------------------
(* A version starts with a capacity within the range of the last target    *)
(* that scales it, or with none if no alias puts its capacity there,       *)
(* whichever targets the aliases of the function have, in any order.       *)
THEOREM SpecVersionStartsWithinItsRange == Spec => []VersionStartsWithinItsRange
BY SpecServed, ServedVersions, PTL

(* One construct's successes are logged by the rules that all of them      *)
(* share, whoever gets there first: each function's own environment names  *)
(* it, and still its rule names the first, or what the caller wanted.      *)
THEOREM SpecSuccessesAreLoggedForOne == Spec => []SuccessesAreLoggedForOne
BY SpecServed, ServedLogs, PTL

(* What serves a construct is its own although others share and change its *)
(* props: a distribution has the policies its construct left in the        *)
(* behaviour that all sites share, a record of the name it answers to      *)
(* exactly if the props name both alike, and certificates of the regions   *)
(* they are used in; an API with SNS logs what its own function reports,   *)
(* but for successes.                                                      *)
THEOREM SpecServedAsItsOwn == Spec => []ServedAsItsOwn
<1>1. ServedInv => SiteIsServedAsItsOwn
  BY ServedPolicies, ServedRecords, ServedCertificates DEF SiteIsServedAsItsOwn
<1>2. ServedInv => ServedAsItsOwn
  BY <1>1, ServedLogs DEF ServedAsItsOwn
<1> QED  BY <1>2, SpecServed, PTL
=============================================================================
