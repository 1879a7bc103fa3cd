----------------------- MODULE PulumiConstructs_proofs ----------------------
(***************************************************************************)
(* What holds of every stack of Azure and Cloudflare constructs, whatever  *)
(* its props, however many constructs it has and however often it is       *)
(* deployed.  Everything follows from the order in which the methods are   *)
(* called: each method has a rank, and each field the rank of the method   *)
(* that sets it last.                                                      *)
(***************************************************************************)
EXTENDS PulumiConstructs, SequenceTheorems, FiniteSetTheorems, TLAPS

FunctionAppRank ==
    [createResourceGroup |-> 1, resolveCommonLogAnalyticsWorkspace |-> 2,
     resolveApplicationInsights |-> 3,
     createEventGridSubscriptionDlqStorageAccount |-> 4,
     createEventGridSubscriptionDlqStorageContainer |-> 5,
     createServiceBusNamespace |-> 6, createServiceBusQueue |-> 7,
     createServiceBusQueueAuthorizationRule |-> 8, createEventGrid |-> 9,
     createEventGridEventSubscription |-> 10,
     createServiceBusDiagnosticLog |-> 11,
     enableMalwareScanningOnDataStorageAccount |-> 12,
     createAppServicePlan |-> 13, createdParsedAppConfigurations |-> 14,
     createAppConfiguration |-> 15, createAppConfigurations |-> 16,
     createStorageAccount |-> 17, createStorageDeploymentContainer |-> 18,
     createStorageContainer |-> 19, createDataStorageAccount |-> 20,
     createDataStorageContainer |-> 21, generateStorageContainerSas |-> 22,
     createFunctionHosts |-> 23, createCodePackage |-> 24,
     createFunctionAppSiteConfig |-> 25, createFunctionApp |-> 26,
     createRoleAssignments |-> 27, resolveApiKeyVault |-> 28,
     createNamespaceSecret |-> 29, createApiManagement |-> 30,
     createApiManagementNamespace |-> 31, createApiManagementRoutes |-> 32,
     createCorsPolicy |-> 33, createApiPolicy |-> 34,
     createFunctionDashboard |-> 35]

RestApiRank ==
    [createResourceGroup |-> 1, resolveApiKeyVault |-> 2,
     resolveCommonLogAnalyticsWorkspace |-> 3,
     resolveApplicationInsights |-> 4, createApiManagement |-> 5,
     createNamespaceSecretRole |-> 6, createNamespaceSecret |-> 7,
     createSubscriptionKeySecret |-> 8, createApiManagementLogger |-> 9,
     createApiDiagnostic |-> 10, createDiagnosticLog |-> 11,
     createRedisCache |-> 12, createRedisCacheSecret |-> 13,
     createRedisCacheNamespace |-> 14, createRedisCacheApiManagement |-> 15]

SiteRank ==
    [createResourceGroup |-> 1, resolveCommonLogAnalyticsWorkspace |-> 2,
     resolveApplicationInsights |-> 3, createSiteAppServicePlan |-> 4,
     createSiteStorageAccount |-> 5, createSiteStorageContainer |-> 6,
     createCodePackage |-> 7, createWebAppSiteConfig |-> 8,
     createWebApp |-> 9, createDiagnosticLog |-> 10]

LoadTestingRank ==
    [createResourceGroup |-> 1, createVirtualNetwork |-> 2,
     createPublicIp |-> 3, createNatGateway |-> 4, createSubnet |-> 5,
     createLoadTest |-> 6, deployLoadTests |-> 7]

PagesRank ==
    [resolveZone |-> 1, resolveSecrets |-> 2,
     resolveEnvironmentVariables |-> 3, createProject |-> 4,
     createDomain |-> 5, createRecord |-> 6, deploySite |-> 7]

WorkerRank ==
    [resolveZone |-> 1, resolveWorkerEnvironmentVariables |-> 2,
     createWorker |-> 3, createWorkerDomain |-> 4, createRuleset |-> 5,
     createZoneSetting |-> 6]

FunctionAppClasses ==
    {"AzureFunctionApp", "AzureEventHandler", "AzureRestApiFunction"}
RestApiClasses == {"AzureRestApi", "AzureRestApiWithCache"}

RankOf(class) ==
    IF class \in FunctionAppClasses THEN FunctionAppRank
    ELSE IF class \in RestApiClasses THEN RestApiRank
    ELSE IF class = "AzureSiteWithWebApp" THEN SiteRank
    ELSE IF class = "AzureLoadTesting" THEN LoadTestingRank
    ELSE IF class = "CloudflarePagesStaticSite" THEN PagesRank
    ELSE WorkerRank

FunctionAppLastSet ==
    [dlqStorageAccount |-> 4, dlqStorageContainer |-> 5, namespace |-> 6,
     namespaceGroup |-> 6, queue |-> 7, queueGroup |-> 7,
     queueAuthorizationRule |-> 8, eventGridTopic |-> 9,
     eventSubscription |-> 10, appServicePlan |-> 13, parsedConfig |-> 14,
     appConfig |-> 15, keyVaults |-> 16, appStorageAccount |-> 17,
     deploymentContainer |-> 18, storageContainer |-> 19,
     storageAccountName |-> 20, dataStorageAccount |-> 20,
     dataStorageContainer |-> 21, dataKeyVault |-> 22, codeArchive |-> 24,
     queueName |-> 25, connectionString |-> 25, connectionGroup |-> 25,
     app |-> 26, authKeyVault |-> 28, namedValueSecret |-> 29, apim |-> 30,
     apiName |-> 30, apiGroup |-> 30, namedValue |-> 31, backend |-> 31,
     managementApi |-> 32, apiOperations |-> 32, corsPolicy |-> 33]

RestApiLastSet ==
    [authKeyVault |-> 2, apim |-> 5, apiName |-> 5, apiGroup |-> 5,
     namedValueRoleAssignment |-> 6, namedValueSecret |-> 7, logger |-> 9,
     redisCluster |-> 12, redisDatabase |-> 12, redisNamedValueSecret |-> 13,
     redisNamedValue |-> 14]

SiteLastSet ==
    [appServicePlan |-> 4, storageAccount |-> 5, storageContainer |-> 6,
     codeArchive |-> 7, environmentVariables |-> 8, appSettings |-> 9,
     webApp |-> 9]

LoadTestingLastSet ==
    [virtualNetwork |-> 2, publicIp |-> 3, natGateway |-> 4, subnet |-> 5,
     loadTest |-> 6]

PagesLastSet ==
    [siteZone |-> 1, deploymentConfigs |-> 3, sitePagesProject |-> 4,
     sitePagesDomain |-> 5, sitePagesCnameRecord |-> 6]

WorkerLastSet ==
    [siteZone |-> 1, bindings |-> 2, siteWorkerScript |-> 3,
     siteWorkerDomain |-> 4, siteRuleSet |-> 5, siteZoneSetting |-> 6]

LastSetOf(class) ==
    IF class \in FunctionAppClasses THEN FunctionAppLastSet
    ELSE IF class \in RestApiClasses THEN RestApiLastSet
    ELSE IF class = "AzureSiteWithWebApp" THEN SiteLastSet
    ELSE IF class = "AzureLoadTesting" THEN LoadTestingLastSet
    ELSE IF class = "CloudflarePagesStaticSite" THEN PagesLastSet
    ELSE WorkerLastSet

Rank == RankOf(this.class)
LastSet == LastSetOf(this.class)

(* An event handler calls these twice: the second call changes nothing.    *)
Resolvers == {"createResourceGroup", "resolveCommonLogAnalyticsWorkspace",
              "resolveApplicationInsights"}
Resolved == {"resourceGroup", "commonLogAnalyticsWorkspace",
             "applicationInsights"}
-----------------------------------------------------------------------------
(* The inductive invariant *)

(* The methods that are left are the last of their class, in their order.  *)
Left == {todo[i] : i \in DOMAIN todo}

(* Those of an event handler and of a function of a REST API are not       *)
(* methods of another function app.                                        *)
Belongs(class, rank) ==
    class \in FunctionAppClasses =>
      /\ rank \in 4..12 => class = "AzureEventHandler"
      /\ rank \in 28..34 => class = "AzureRestApiFunction"

Ordered(methods, class) ==
    LET rank == RankOf(class)
    IN /\ \A i \in DOMAIN methods :
            methods[i] \in DOMAIN rank /\ Belongs(class, rank[methods[i]])
       /\ \A i, j \in DOMAIN methods :
            i < j /\ methods[j] \notin Resolvers
              => rank[methods[i]] < rank[methods[j]]

PlanInv ==
    /\ plan \in Seq(Constructs) /\ plan # <<>>
    /\ \A i \in DOMAIN plan :
         /\ plan[i].class \in DOMAIN Methods
         /\ plan[i].id \in DOMAIN fields
         /\ DOMAIN fields[plan[i].id] = FieldsOf[plan[i].class]
    /\ \A i, j \in DOMAIN plan : i # j =>
         /\ plan[i].id # plan[j].id
         /\ "AzureRestApiFunction" \notin {plan[i].class} \intersect {plan[j].class}
    /\ \E n \in 0..Len(InitResources(this)) :
         todo = SubSeq(InitResources(this), n + 1, Len(InitResources(this)))
    /\ todo \in Seq(DOMAIN Rank) /\ Ordered(todo, this.class)
    /\ status \in {"synth", "done", "thrown"}
    /\ status = "done" => todo = <<>> /\ Len(plan) = 1

PropsInv ==
    /\ NamedProps \subseteq DOMAIN props
    /\ \A config \in HostConfigs : DOMAIN config.app = DOMAIN props.appHosts
    /\ hostJson = NotSet \/ DOMAIN hostJson = DOMAIN props.appHosts

(* A host is asked for one construct, and not yet for one that is to come. *)
HostKeyInv ==
    /\ hostKey.state \in {"none", "previewing", "asking", "given", "failed"}
    /\ hostKey.state = "asking" => hostKey.tries < MaxRetries
    /\ hostKey.tries \in 0..MaxRetries /\ hostKey.ready \in BOOLEAN
    /\ DOMAIN hostKey = {"state", "tries", "ready"}
    /\ \A i \in DOMAIN plan :
         /\ plan[i].class = "AzureRestApiFunction"
         /\ i = 1 => "createNamespaceSecret" \in Left
         => hostKey = NoRequest

(* No method that is left sets the field again.                            *)
Settled(f) ==
    IF f \in Resolved THEN IsSet(f)
    ELSE f \in DOMAIN LastSet /\ \A m \in Left \ Resolvers : Rank[m] > LastSet[f]

(* Only known values are set twice, and the data account is set late.      *)
FieldsInv ==
    /\ \A id \in DOMAIN fields : \E class \in DOMAIN FieldsOf :
         DOMAIN fields[id] = FieldsOf[class]
    /\ \A f \in {"commonLogAnalyticsWorkspace", "applicationInsights"} :
         f \in DOMAIN fields[this.id] => Field(f) \in {NotSet, "existing"}
    /\ \A i \in DOMAIN plan : i # 1 =>
         fields[plan[i].id] = [f \in FieldsOf[plan[i].class] |-> NotSet]
    /\ "dataStorageAccount" \in DOMAIN fields[this.id]
         /\ IsSet("dataStorageAccount") => Settled("dataStorageAccount")

(* Resources are of constructs that are there, and up to date.             *)
TemplateInv ==
    \A r \in template :
      /\ r.of \in DOMAIN fields
      /\ \A i \in DOMAIN plan : r.of = plan[i].id => i = 1
      /\ DOMAIN r.reads \subseteq DOMAIN fields[r.of]
      /\ \A f \in DOMAIN r.reads :
           /\ r.reads[f] = fields[r.of][f]
           /\ r.of = this.id => Settled(f)

BuiltInv ==
    /\ PlanInv /\ PropsInv /\ HostKeyInv /\ FieldsInv /\ TemplateInv
    /\ IsFiniteSet(DOMAIN fields) /\ deployments \in 1..MaxDeployments

HostsAsConfigured ==
    hostJson # NotSet =>
      \A k \in DOMAIN hostJson :
        /\ props.appHosts[k] # NotSet => hostJson[k] = props.appHosts[k]
        /\ props.commonHosts[k] # NotSet /\ props.appHosts[k] = NotSet
             => hostJson[k] = props.commonHosts[k]

(* The sources are rewritten by each function app.                         *)
HostsInv ==
    \A id \in FunctionApps :
      \/ id \notin {plan[i].id : i \in DOMAIN plan}
      \/ id = this.id /\ "createFunctionHosts" \notin Left
      => HostsAsConfigured

(* The method has run for a construct that is built or being built.        *)
Ran(m, id) ==
    \/ id \notin {plan[i].id : i \in DOMAIN plan}
    \/ id = this.id /\ m \notin Left

(* What an app reads is in the props, and once its roles are made they are *)
(* those that the props call for.                                          *)
Granted(id) ==
    /\ fields[id].appStorageAccount \in {NotSet, "app"}
    /\ fields[id].storageAccountName = "data" => props.dataStorageAccount
    /\ fields[id].appConfig = "existing" => ~props.useConfigOverride
    /\ Ran("createRoleAssignments", id) =>
         /\ Has(id, <<"sa", "role">>)
         /\ props.dataStorageAccount => Has(id, <<"data", "sa", "role">>)
         /\ ~props.useConfigOverride => Has(id, <<"ac", "role">>)

(* The groups of namespace, queue and key, as functions of the props.      *)
GroupOfNamespace ==
    IF props.namespaceUseExisting /\ props.namespaceNamed
      THEN props.namespaceGroup ELSE "own"

GroupOfQueue ==
    IF props.queueUseExisting /\ props.namespaceNamed /\ props.queueNamed
      THEN props.namespaceGroup ELSE NamespaceResourceGroup

GroupOfKey ==
    IF props.queueUseExisting THEN Coalesce(props.namespaceGroup, "own")
    ELSE NamespaceResourceGroup

OwnKey == IF props.queueUseExisting THEN NotSet ELSE "listen-send"

Connected(id) ==
    /\ Ran("createServiceBusNamespace", id) =>
         ~InvalidServiceBus /\ fields[id].namespaceGroup = GroupOfNamespace
    /\ Ran("createServiceBusQueue", id) => fields[id].queueGroup = GroupOfQueue
    /\ fields[id].queueAuthorizationRule =
         IF Ran("createServiceBusQueueAuthorizationRule", id) THEN OwnKey
         ELSE NotSet
    /\ Ran("createFunctionAppSiteConfig", id) =>
         /\ fields[id].connectionString =
              Coalesce(OwnKey, "RootManageSharedAccessKey")
         /\ fields[id].connectionGroup = GroupOfKey
    /\ props.queueUseExisting => ~Has(id, <<"es">>)

ReachInv ==
    status # "thrown" =>
      /\ \A id \in FunctionApps : Granted(id)
      /\ \A id \in EventHandlers : Connected(id)
-----------------------------------------------------------------------------
(* The order of the methods *)

LEMMA ClassesAre ==
    /\ DOMAIN Methods = {"AzureFunctionApp", "AzureEventHandler",
         "AzureRestApi", "AzureRestApiWithCache", "AzureRestApiFunction",
         "AzureSiteWithWebApp", "AzureLoadTesting",
         "CloudflarePagesStaticSite", "CloudflareWorkerSite"}
    /\ DOMAIN FieldsOf = DOMAIN Methods
BY DEF Methods, FieldsOf

LEMMA FunctionAppOrder ==
    /\ DOMAIN FunctionAppMethods = 1..19
    /\ \A i \in 1..19 : FunctionAppMethods[i] \in DOMAIN FunctionAppRank
    /\ \A i \in 1..3 : /\ FunctionAppMethods[i] \in Resolvers
                       /\ FunctionAppRank[FunctionAppMethods[i]] = i
    /\ \A i \in 4..18 : FunctionAppRank[FunctionAppMethods[i]] = i + 9
    /\ FunctionAppMethods[19] = "createFunctionDashboard"
    /\ FunctionAppRank[FunctionAppMethods[19]] = 35
BY DEF FunctionAppMethods, FunctionAppRank, Resolvers

LEMMA FunctionAppIsOrdered == Ordered(FunctionAppMethods, "AzureFunctionApp")
<1> DEFINE place == [i \in 1..19 |-> IF i < 4 THEN i ELSE IF i < 19 THEN i + 9 ELSE 35]
<1>1. RankOf("AzureFunctionApp") = FunctionAppRank
  BY DEF RankOf, FunctionAppClasses
<1>2. DOMAIN FunctionAppMethods = 1..19
  BY FunctionAppOrder
<1>3. \A i \in 1..19 : /\ FunctionAppMethods[i] \in DOMAIN FunctionAppRank
                      /\ FunctionAppRank[FunctionAppMethods[i]] = place[i]
  <2> TAKE i \in 1..19
  <2>1. i \in 1..3 \/ i \in 4..18 \/ i = 19
    OBVIOUS
  <2>2. FunctionAppMethods[i] \in DOMAIN FunctionAppRank
    BY FunctionAppOrder
  <2>3. CASE i \in 1..3
    <3>1. place[i] = i
      BY <2>3
    <3> QED  BY <2>2, <2>3, <3>1, FunctionAppOrder
  <2>4. CASE i \in 4..18
    <3>1. place[i] = i + 9
      BY <2>4
    <3> QED  BY <2>2, <2>4, <3>1, FunctionAppOrder
  <2>5. CASE i = 19
    <3>1. place[i] = 35
      BY <2>5
    <3> QED  BY <2>2, <2>5, <3>1, FunctionAppOrder
  <2> QED  BY <2>1, <2>3, <2>4, <2>5
<1>4. \A i \in 1..19 : /\ place[i] \in Nat
                      /\ place[i] \notin 4..12 /\ place[i] \notin 28..34
  OBVIOUS
<1>5. \A i, j \in 1..19 : i < j => place[i] < place[j]
  OBVIOUS
<1> HIDE DEF place
<1>6. \A i \in 1..19 : Belongs("AzureFunctionApp", place[i])
  BY <1>4 DEF Belongs
<1> QED  BY <1>1, <1>2, <1>3, <1>4, <1>5, <1>6 DEF Ordered

LEMMA EventHandlerIsOrdered == Ordered(EventHandlerMethods, "AzureEventHandler")
<1> DEFINE first == SubSeq(EventHandlerMethods, 1, 12)
           place == [i \in 1..31 |-> IF i < 13 THEN i ELSE IF i < 16 THEN i - 12
                                     ELSE IF i < 31 THEN i - 3 ELSE 35]
<1>1. RankOf("AzureEventHandler") = FunctionAppRank
  BY DEF RankOf, FunctionAppClasses
<1>2. /\ DOMAIN EventHandlerMethods = 1..31
      /\ \A i \in 1..12 : /\ EventHandlerMethods[i] \in DOMAIN FunctionAppRank
                          /\ FunctionAppRank[EventHandlerMethods[i]] = i
      /\ \A i \in 13..31 : EventHandlerMethods[i] = FunctionAppMethods[i - 12]
  BY DEF EventHandlerMethods, FunctionAppRank, FunctionAppMethods
<1>3. \A i \in 13..15 : EventHandlerMethods[i] \in Resolvers
  <2> TAKE i \in 13..15
  <2>1. i - 12 \in 1..3 /\ i \in 13..31
    OBVIOUS
  <2> QED  BY <1>2, <2>1, FunctionAppOrder
<1>4. \A i \in 1..31 : /\ EventHandlerMethods[i] \in DOMAIN FunctionAppRank
                      /\ FunctionAppRank[EventHandlerMethods[i]] = place[i]
  <2> TAKE i \in 1..31
  <2>1. CASE i \in 1..12
    <3>1. place[i] = i
      BY <2>1
    <3> QED  BY <1>2, <2>1, <3>1
  <2>2. CASE i \in 13..31
    <3>1. EventHandlerMethods[i] = FunctionAppMethods[i - 12] /\ i - 12 \in 1..19
      BY <1>2, <2>2
    <3>2. CASE i \in 13..15
      <4>1. i - 12 \in 1..3 /\ place[i] = i - 12
        BY <3>2
      <4> QED  BY <3>1, <4>1, FunctionAppOrder
    <3>3. CASE i \in 16..30
      <4>1. i - 12 \in 4..18 /\ place[i] = (i - 12) + 9
        BY <3>3
      <4> QED  BY <3>1, <4>1, FunctionAppOrder
    <3>4. CASE i = 31
      <4>1. i - 12 = 19 /\ place[i] = 35
        BY <3>4
      <4> QED  BY <3>1, <4>1, FunctionAppOrder
    <3> QED  BY <2>2, <3>2, <3>3, <3>4
  <2> QED  BY <2>1, <2>2
<1>5. \A i \in 1..31 : place[i] \in Nat /\ place[i] \notin 28..34
  OBVIOUS
<1>6. \A i, j \in 1..31 : i < j /\ j \notin 13..15 => place[i] < place[j]
  OBVIOUS
<1> HIDE DEF place
<1>7. \A i \in 1..31 : Belongs("AzureEventHandler", place[i])
  BY <1>5 DEF Belongs
<1>8. \A j \in 1..31 : EventHandlerMethods[j] \notin Resolvers => j \notin 13..15
  BY <1>3
<1>9. DOMAIN EventHandlerMethods = 1..31
  BY <1>2
<1>10. \A i \in 1..31 : /\ EventHandlerMethods[i] \in DOMAIN FunctionAppRank
                       /\ Belongs("AzureEventHandler",
                                  FunctionAppRank[EventHandlerMethods[i]])
  BY <1>4, <1>7
<1>11. ASSUME NEW i \in 1..31, NEW j \in 1..31,
              i < j, EventHandlerMethods[j] \notin Resolvers
       PROVE  FunctionAppRank[EventHandlerMethods[i]]
                < FunctionAppRank[EventHandlerMethods[j]]
  BY <1>4, <1>6, <1>8, <1>11
<1> QED  BY <1>1, <1>9, <1>10, <1>11 DEF Ordered

LEMMA RestApiFunctionIsOrdered ==
    /\ Ordered(RestApiFunctionMethods, "AzureRestApiFunction")
    /\ \E S : RestApiFunctionMethods \in Seq(S)
    /\ 1 \in DOMAIN RestApiFunctionMethods
    /\ \A i \in 1..18 : /\ i \in DOMAIN RestApiFunctionMethods
                        /\ RestApiFunctionMethods[i] = FunctionAppMethods[i]
<1> DEFINE place == [i \in 1..26 |-> IF i < 4 THEN i ELSE i + 9]
<1>1. RankOf("AzureRestApiFunction") = FunctionAppRank
  BY DEF RankOf, FunctionAppClasses
<1>2. /\ DOMAIN RestApiFunctionMethods = 1..26
      /\ \E S : RestApiFunctionMethods \in Seq(S)
      /\ \A i \in 1..18 : RestApiFunctionMethods[i] = FunctionAppMethods[i]
      /\ \A i \in 19..26 :
           /\ RestApiFunctionMethods[i] \in DOMAIN FunctionAppRank
           /\ FunctionAppRank[RestApiFunctionMethods[i]] = i + 9
  <2>1. DOMAIN [i \in 1..18 |-> FunctionAppMethods[i]] = 1..18
    OBVIOUS
  <2> DEFINE app == [i \in 1..18 |-> FunctionAppMethods[i]]
             own == <<"resolveApiKeyVault", "createNamespaceSecret",
                      "createApiManagement", "createApiManagementNamespace",
                      "createApiManagementRoutes", "createCorsPolicy",
                      "createApiPolicy", "createFunctionDashboard">>
  <2>2. app \in Seq({FunctionAppMethods[i] : i \in 1..18}) /\ Len(app) = 18
    OBVIOUS
  <2>3. \A i \in 1..8 : /\ own[i] \in DOMAIN FunctionAppRank
                        /\ FunctionAppRank[own[i]] = i + 27
    BY DEF FunctionAppRank
  <2>4. own \in Seq(DOMAIN FunctionAppRank) /\ Len(own) = 8
    BY DEF FunctionAppRank
  <2>5. \A i \in 1..18 : app[i] = FunctionAppMethods[i]
    OBVIOUS
  <2>6. RestApiFunctionMethods = app \o own
    BY DEF RestApiFunctionMethods
  <2> HIDE DEF app, own
  <2>7. /\ DOMAIN RestApiFunctionMethods = 1..26
        /\ \E S : RestApiFunctionMethods \in Seq(S)
        /\ \A i \in 1..18 : RestApiFunctionMethods[i] = app[i]
        /\ \A i \in 19..26 : RestApiFunctionMethods[i] = own[i - 18]
    <3> DEFINE S == DOMAIN FunctionAppRank \cup {FunctionAppMethods[i] : i \in 1..18}
    <3>1. app \in Seq(S) /\ own \in Seq(S)
      <4>1. DOMAIN FunctionAppRank \subseteq S /\ {FunctionAppMethods[i] : i \in 1..18} \subseteq S
        OBVIOUS
      <4> QED  BY <2>2, <2>4, <4>1, SeqMonotonic
    <3> HIDE DEF S
    <3> DEFINE both == app \o own
    <3>2. /\ both \in Seq(S) /\ Len(both) = Len(app) + Len(own)
          /\ \A i \in 1..Len(app) + Len(own) :
               both[i] = IF i <= Len(app) THEN app[i] ELSE own[i - Len(app)]
      BY <3>1, ConcatProperties, Zenon
    <3> HIDE DEF both
    <3>3. Len(app) = 18 /\ Len(own) = 8
      BY <2>2, <2>4
    <3>4. both \in Seq(S) /\ Len(both) = 26
      BY <3>2, <3>3
    <3>5. \A i \in 1..26 : both[i] = IF i <= 18 THEN app[i] ELSE own[i - 18]
      BY <3>2, <3>3
    <3>6. DOMAIN both = 1..26
      BY <3>4
    <3>7. \A i \in 1..18 : both[i] = app[i]
      BY <3>5
    <3>8. \A i \in 19..26 : both[i] = own[i - 18]
      BY <3>5
    <3>9. RestApiFunctionMethods = both
      BY <2>6 DEF both
    <3> QED  BY <3>4, <3>6, <3>7, <3>8, <3>9
  <2>8. \A i \in 19..26 : i - 18 \in 1..8 /\ (i - 18) + 27 = i + 9
    OBVIOUS
  <2> QED  BY <2>3, <2>5, <2>7, <2>8
<1>3. \A i \in 1..26 : /\ RestApiFunctionMethods[i] \in DOMAIN FunctionAppRank
                      /\ FunctionAppRank[RestApiFunctionMethods[i]] = place[i]
  <2> TAKE i \in 1..26
  <2>1. CASE i \in 1..3
    <3>1. place[i] = i /\ i \in 1..18 /\ i \in 1..19
      BY <2>1
    <3> QED  BY <1>2, <2>1, <3>1, FunctionAppOrder
  <2>2. CASE i \in 4..18
    <3>1. place[i] = i + 9 /\ i \in 1..18 /\ i \in 1..19
      BY <2>2
    <3> QED  BY <1>2, <2>2, <3>1, FunctionAppOrder
  <2>3. CASE i \in 19..26
    <3>1. place[i] = i + 9
      BY <2>3
    <3> QED  BY <1>2, <2>3, <3>1
  <2> QED  BY <2>1, <2>2, <2>3
<1>4. \A i \in 1..26 : place[i] \in Nat /\ place[i] \notin 4..12
  OBVIOUS
<1>5. \A i, j \in 1..26 : i < j => place[i] < place[j]
  OBVIOUS
<1> HIDE DEF place
<1>6. \A i \in 1..26 : Belongs("AzureRestApiFunction", place[i])
  BY <1>4 DEF Belongs
<1>7. Ordered(RestApiFunctionMethods, "AzureRestApiFunction")
  <2>1. DOMAIN RestApiFunctionMethods = 1..26
    BY <1>2
  <2> QED  BY <1>1, <1>3, <1>4, <1>5, <1>6, <2>1 DEF Ordered
<1> QED  BY <1>2, <1>7

(* The others are ranked as they are listed.                               *)
LEMMA OthersAreOrdered ==
    \A class \in DOMAIN Methods \ FunctionAppClasses :
      Ordered(Methods[class], class)
<1>1. ASSUME NEW class, class \notin FunctionAppClasses, NEW methods,
             NEW n \in Nat, DOMAIN methods = 1..n, NEW rank, rank = RankOf(class),
             \A i \in 1..n : methods[i] \in DOMAIN rank /\ rank[methods[i]] = i
      PROVE  Ordered(methods, class)
  BY <1>1 DEF Ordered, Belongs
<1>2. /\ DOMAIN RestApiMethods = 1..11
      /\ \A i \in 1..11 : /\ RestApiMethods[i] \in DOMAIN RestApiRank
                          /\ RestApiRank[RestApiMethods[i]] = i
  BY DEF RestApiMethods, RestApiRank
<1>3. Ordered(RestApiMethods, "AzureRestApi")
  BY <1>1, <1>2 DEF RankOf, FunctionAppClasses, RestApiClasses
<1>4. /\ DOMAIN RestApiWithCacheMethods = 1..15
      /\ \A i \in 1..15 : /\ RestApiWithCacheMethods[i] \in DOMAIN RestApiRank
                          /\ RestApiRank[RestApiWithCacheMethods[i]] = i
  BY DEF RestApiWithCacheMethods, RestApiMethods, RestApiRank
<1>5. Ordered(RestApiWithCacheMethods, "AzureRestApiWithCache")
  BY <1>1, <1>4 DEF RankOf, FunctionAppClasses, RestApiClasses
<1>6. /\ DOMAIN SiteMethods = 1..10
      /\ \A i \in 1..10 : SiteMethods[i] \in DOMAIN SiteRank /\ SiteRank[SiteMethods[i]] = i
  BY DEF SiteMethods, SiteRank
<1>7. Ordered(SiteMethods, "AzureSiteWithWebApp")
  BY <1>1, <1>6 DEF RankOf, FunctionAppClasses, RestApiClasses
<1>8. /\ DOMAIN LoadTestingMethods = 1..7
      /\ \A i \in 1..7 : /\ LoadTestingMethods[i] \in DOMAIN LoadTestingRank
                         /\ LoadTestingRank[LoadTestingMethods[i]] = i
  BY DEF LoadTestingMethods, LoadTestingRank
<1>9. Ordered(LoadTestingMethods, "AzureLoadTesting")
  BY <1>1, <1>8 DEF RankOf, FunctionAppClasses, RestApiClasses
<1>10. /\ DOMAIN PagesMethods = 1..7
       /\ \A i \in 1..7 : PagesMethods[i] \in DOMAIN PagesRank /\ PagesRank[PagesMethods[i]] = i
  BY DEF PagesMethods, PagesRank
<1>11. Ordered(PagesMethods, "CloudflarePagesStaticSite")
  BY <1>1, <1>10 DEF RankOf, FunctionAppClasses, RestApiClasses
<1>12. /\ DOMAIN WorkerMethods = 1..6
       /\ \A i \in 1..6 : WorkerMethods[i] \in DOMAIN WorkerRank /\ WorkerRank[WorkerMethods[i]] = i
  BY DEF WorkerMethods, WorkerRank
<1>13. Ordered(WorkerMethods, "CloudflareWorkerSite")
  BY <1>1, <1>12 DEF RankOf, FunctionAppClasses, RestApiClasses
<1> QED
  BY <1>3, <1>5, <1>7, <1>9, <1>11, <1>13 DEF Methods, FunctionAppClasses

LEMMA AllAreOrdered ==
    ASSUME NEW class \in DOMAIN Methods
    PROVE  /\ Ordered(Methods[class], class)
           /\ Methods[class] \in Seq(DOMAIN RankOf(class))
           /\ Methods[class] # <<>>
<1>1. /\ Methods["AzureFunctionApp"] = FunctionAppMethods
      /\ Methods["AzureEventHandler"] = EventHandlerMethods
      /\ Methods["AzureRestApiFunction"] = RestApiFunctionMethods
  BY DEF Methods
<1>2. Ordered(Methods[class], class)
  BY <1>1, FunctionAppIsOrdered, EventHandlerIsOrdered,
     RestApiFunctionIsOrdered, OthersAreOrdered DEF FunctionAppClasses
<1>3. \E S : Methods[class] \in Seq(S)
  <2>1. FunctionAppMethods \in Seq(DOMAIN FunctionAppRank)
    BY DEF FunctionAppMethods, FunctionAppRank
  <2>2. EventHandlerMethods \in Seq(DOMAIN FunctionAppRank)
    BY DEF EventHandlerMethods, FunctionAppMethods, FunctionAppRank
  <2>3. RestApiMethods \in Seq(DOMAIN RestApiRank)
    BY DEF RestApiMethods, RestApiRank
  <2>4. RestApiWithCacheMethods \in Seq(DOMAIN RestApiRank)
    BY DEF RestApiWithCacheMethods, RestApiMethods, RestApiRank
  <2>5. SiteMethods \in Seq(DOMAIN SiteRank)
    BY DEF SiteMethods, SiteRank
  <2>6. LoadTestingMethods \in Seq(DOMAIN LoadTestingRank)
    BY DEF LoadTestingMethods, LoadTestingRank
  <2>7. PagesMethods \in Seq(DOMAIN PagesRank)
    BY DEF PagesMethods, PagesRank
  <2>8. WorkerMethods \in Seq(DOMAIN WorkerRank)
    BY DEF WorkerMethods, WorkerRank
  <2>9. Methods[class] \in {FunctionAppMethods, EventHandlerMethods,
          RestApiFunctionMethods, RestApiMethods, RestApiWithCacheMethods,
          SiteMethods, LoadTestingMethods, PagesMethods, WorkerMethods}
    BY ClassesAre DEF Methods
  <2> QED  BY <2>1, <2>2, <2>3, <2>4, <2>5, <2>6, <2>7, <2>8, <2>9,
              RestApiFunctionIsOrdered
<1>4. \A i \in DOMAIN Methods[class] : Methods[class][i] \in DOMAIN RankOf(class)
  BY <1>2 DEF Ordered
<1>5. Methods[class] # <<>>
  <2>1. /\ 1 \in DOMAIN FunctionAppMethods /\ 1 \in DOMAIN RestApiMethods
        /\ 1 \in DOMAIN SiteMethods /\ 1 \in DOMAIN LoadTestingMethods
        /\ 1 \in DOMAIN PagesMethods /\ 1 \in DOMAIN WorkerMethods
    BY DEF FunctionAppMethods, RestApiMethods, SiteMethods, LoadTestingMethods,
           PagesMethods, WorkerMethods
  <2>2. /\ 1 \in DOMAIN EventHandlerMethods
        /\ 1 \in DOMAIN RestApiWithCacheMethods
    BY DEF EventHandlerMethods, FunctionAppMethods, RestApiWithCacheMethods,
           RestApiMethods
  <2>3. 1 \in DOMAIN RestApiFunctionMethods
    BY RestApiFunctionIsOrdered
  <2>4. 1 \in DOMAIN Methods[class]
    BY <2>1, <2>2, <2>3, ClassesAre DEF Methods
  <2> QED  BY <2>4
<1> QED  BY <1>2, <1>3, <1>4, <1>5

(* The methods that constructs of different kinds have.                    *)
Shared ==
    Resolvers \cup {"resolveApiKeyVault", "createNamespaceSecret", "resolveZone",
                    "createApiManagement", "createCodePackage", "createDiagnosticLog"}

LEMMA FamilyOf ==
    ASSUME NEW class \in DOMAIN Methods, NEW m \in DOMAIN RankOf(class) \ Shared
    PROVE  /\ m \in DOMAIN FunctionAppRank => class \in FunctionAppClasses
           /\ m \in DOMAIN RestApiRank => class \in RestApiClasses
           /\ m \in DOMAIN SiteRank => class = "AzureSiteWithWebApp"
           /\ m \in DOMAIN LoadTestingRank => class = "AzureLoadTesting"
           /\ m \in DOMAIN PagesRank => class = "CloudflarePagesStaticSite"
           /\ m \in DOMAIN WorkerRank => class = "CloudflareWorkerSite"
<1> DEFINE ranks == {FunctionAppRank, RestApiRank, SiteRank, LoadTestingRank,
                     PagesRank, WorkerRank}
<1>1. \A r, s \in ranks : m \in DOMAIN r /\ m \in DOMAIN s => r = s
  BY DEF Shared, Resolvers, FunctionAppRank, RestApiRank, SiteRank,
         LoadTestingRank, PagesRank, WorkerRank
<1>2. /\ FunctionAppRank # RestApiRank /\ FunctionAppRank # SiteRank
      /\ FunctionAppRank # LoadTestingRank /\ FunctionAppRank # PagesRank
      /\ FunctionAppRank # WorkerRank /\ RestApiRank # SiteRank
      /\ RestApiRank # LoadTestingRank /\ RestApiRank # PagesRank
      /\ RestApiRank # WorkerRank /\ SiteRank # LoadTestingRank
      /\ SiteRank # PagesRank /\ SiteRank # WorkerRank
      /\ LoadTestingRank # PagesRank /\ LoadTestingRank # WorkerRank
      /\ PagesRank # WorkerRank
  <2>1. /\ "createStorageAccount" \in DOMAIN FunctionAppRank
        /\ "createRedisCache" \in DOMAIN RestApiRank
        /\ "createWebApp" \in DOMAIN SiteRank
        /\ "createLoadTest" \in DOMAIN LoadTestingRank
        /\ "createProject" \in DOMAIN PagesRank
        /\ "createStorageAccount" \notin DOMAIN RestApiRank \cup DOMAIN SiteRank
             \cup DOMAIN LoadTestingRank \cup DOMAIN PagesRank \cup DOMAIN WorkerRank
        /\ "createRedisCache" \notin DOMAIN SiteRank \cup DOMAIN LoadTestingRank
             \cup DOMAIN PagesRank \cup DOMAIN WorkerRank
        /\ "createWebApp" \notin DOMAIN LoadTestingRank \cup DOMAIN PagesRank
             \cup DOMAIN WorkerRank
        /\ "createLoadTest" \notin DOMAIN PagesRank \cup DOMAIN WorkerRank
        /\ "createProject" \notin DOMAIN WorkerRank
    BY DEF FunctionAppRank, RestApiRank, SiteRank, LoadTestingRank,
           PagesRank, WorkerRank
  <2> QED  BY <2>1
<1>3. RankOf(class) \in ranks
  BY DEF RankOf
<1> HIDE DEF ranks
<1>4. ranks = {FunctionAppRank, RestApiRank, SiteRank, LoadTestingRank,
               PagesRank, WorkerRank}
  BY DEF ranks
<1> QED  BY <1>1, <1>2, <1>3, <1>4, ClassesAre
         DEF RankOf, FunctionAppClasses, RestApiClasses
-----------------------------------------------------------------------------
(* What a method may do *)

LEMMA ThisIs ==
    ASSUME PlanInv
    PROVE  /\ this = plan[1] /\ 1 \in DOMAIN plan
           /\ this.class \in DOMAIN Methods
           /\ this.id \in DOMAIN fields
           /\ DOMAIN fields[this.id] = FieldsOf[this.class]
<1>1. plan \in Seq(Constructs) /\ plan # <<>>
  BY DEF PlanInv
<1>2. 1 \in DOMAIN plan /\ this = plan[1]
  BY <1>1 DEF this
<1> QED  BY <1>2 DEF PlanInv

LEMMA WhenCalled ==
    ASSUME PlanInv, NEW m, Calls(m)
    PROVE  /\ status = "synth" /\ plan' = plan
           /\ m \in Left /\ m \in DOMAIN Rank /\ Belongs(this.class, Rank[m])
           /\ Left' \subseteq Left
           /\ \A s \in Left' \ Resolvers : Rank[m] < Rank[s]
           /\ todo' \in Seq(DOMAIN Rank) /\ Ordered(todo', this.class)
           /\ \E n \in 0..Len(InitResources(this)) :
                todo' = SubSeq(InitResources(this), n + 1, Len(InitResources(this)))
<1>1. /\ status = "synth" /\ todo # <<>> /\ Head(todo) = m
      /\ todo' = Tail(todo) /\ plan' = plan
  BY DEF Calls
<1>2. todo \in Seq(DOMAIN Rank) /\ Ordered(todo, this.class)
  BY DEF PlanInv
<1>3. /\ 1 \in DOMAIN todo /\ todo[1] = m
      /\ todo' \in Seq(DOMAIN Rank)
      /\ \A i \in DOMAIN todo' : i + 1 \in DOMAIN todo /\ todo'[i] = todo[i + 1]
                                 /\ i \in Nat /\ 1 < i + 1
  <2>1. /\ todo' \in Seq(DOMAIN Rank) /\ Len(todo') = Len(todo) - 1
        /\ \A i \in 1..Len(todo') : todo'[i] = todo[i + 1]
    BY <1>1, <1>2, HeadTailProperties
  <2> QED  BY <1>1, <1>2, <2>1
<1>4. m \in Left /\ m \in DOMAIN Rank /\ Belongs(this.class, Rank[m])
  BY <1>2, <1>3 DEF Left, Ordered, Rank
<1>5. Left' \subseteq Left
  BY <1>3 DEF Left
<1>6. \A s \in Left' \ Resolvers : Rank[m] < Rank[s]
  <2> SUFFICES ASSUME NEW i \in DOMAIN todo', todo'[i] \notin Resolvers
               PROVE  Rank[m] < Rank[todo'[i]]
    BY DEF Left
  <2> QED  BY <1>2, <1>3 DEF Ordered, Rank
<1>7. Ordered(todo', this.class)
  <2>1. \A i, j \in DOMAIN todo' : i < j => i + 1 < j + 1
    BY <1>3
  <2> QED  BY <1>2, <1>3, <2>1 DEF Ordered
<1>8. \E n \in 0..Len(InitResources(this)) :
         todo' = SubSeq(InitResources(this), n + 1, Len(InitResources(this)))
  <2> DEFINE M == InitResources(this)
  <2>1. M \in Seq(DOMAIN RankOf(this.class))
    BY ThisIs, AllAreOrdered DEF InitResources
  <2> HIDE DEF M
  <2>2. PICK n \in 0..Len(M) : todo = SubSeq(M, n + 1, Len(M))
    BY DEF PlanInv, M
  <2>3. Len(M) \in Nat /\ n \in Nat
    BY <2>1
  <2>4. n < Len(M)
    BY <1>1, <2>2, <2>3, SubSeqEmpty
  <2>5. todo' = SubSeq(M, (n + 1) + 1, Len(M))
    <3>1. n + 1 \in 1..Len(M) /\ Len(M) \in (n + 1)..Len(M)
      BY <2>3, <2>4
    <3> QED  BY <1>1, <2>1, <2>2, <3>1, HeadTailOfSubSeq
  <2>6. n + 1 \in 0..Len(M)
    BY <2>3, <2>4
  <2> QED  BY <2>5, <2>6 DEF M
<1> QED  BY <1>1, <1>3, <1>4, <1>5, <1>6, <1>7, <1>8

(* A method sets fields of its own construct, and declares resources that  *)
(* it builds from fields as they are.                                      *)
IsNew(r, reads) ==
    /\ r.of = this.id /\ DOMAIN r.reads \subseteq reads
    /\ \A f \in DOMAIN r.reads : r.reads[f] = Field(f)

Changes(reads, sets) ==
    /\ DOMAIN fields' = DOMAIN fields
    /\ \A id \in DOMAIN fields :
         /\ DOMAIN fields'[id] = DOMAIN fields[id]
         /\ id # this.id => fields'[id] = fields[id]
    /\ \A f \in DOMAIN fields[this.id] :
         f \in sets \/ fields'[this.id][f] = Field(f)
    /\ template \subseteq template'
    /\ \A r \in template' : r \in template \/ IsNew(r, reads)
    /\ \/ template' \subseteq template
       \/ \A f \in reads \cap Resolved : IsSet(f)
    /\ status' \in {status, "thrown"}

(* What it reads was set before or by itself, and nobody sets it later.    *)
Fits(m, reads, sets) ==
    /\ m \notin Resolvers /\ reads \cup sets \subseteq FieldsOf[this.class]
    /\ reads \cap sets = {}
    /\ \A f \in reads \ Resolved :
         f \in DOMAIN LastSet /\ LastSet[f] <= Rank[m]
    /\ \A f \in sets :
         /\ f \notin Resolved /\ f \in DOMAIN LastSet /\ Rank[m] <= LastSet[f]
         /\ f = "dataStorageAccount" => LastSet[f] = Rank[m]

Method(m, reads, sets) ==
    /\ Calls(m) /\ Changes(reads, sets) /\ Fits(m, reads, sets)
    /\ m = "createFunctionHosts" => CreateFunctionHosts

LEMMA RanksAreNumbers ==
    /\ \A class : \A m \in DOMAIN RankOf(class) : RankOf(class)[m] \in Nat
    /\ \A class : \A f \in DOMAIN LastSetOf(class) : LastSetOf(class)[f] \in Nat
<1>1. /\ \A m \in DOMAIN FunctionAppRank : FunctionAppRank[m] \in Nat
      /\ \A m \in DOMAIN RestApiRank : RestApiRank[m] \in Nat
      /\ \A m \in DOMAIN SiteRank : SiteRank[m] \in Nat
      /\ \A m \in DOMAIN LoadTestingRank : LoadTestingRank[m] \in Nat
      /\ \A m \in DOMAIN PagesRank : PagesRank[m] \in Nat
      /\ \A m \in DOMAIN WorkerRank : WorkerRank[m] \in Nat
  BY DEF FunctionAppRank, RestApiRank, SiteRank, LoadTestingRank, PagesRank,
         WorkerRank
<1>2. /\ \A f \in DOMAIN FunctionAppLastSet : FunctionAppLastSet[f] \in Nat
      /\ \A f \in DOMAIN RestApiLastSet : RestApiLastSet[f] \in Nat
      /\ \A f \in DOMAIN SiteLastSet : SiteLastSet[f] \in Nat
      /\ \A f \in DOMAIN LoadTestingLastSet : LoadTestingLastSet[f] \in Nat
      /\ \A f \in DOMAIN PagesLastSet : PagesLastSet[f] \in Nat
      /\ \A f \in DOMAIN WorkerLastSet : WorkerLastSet[f] \in Nat
  BY DEF FunctionAppLastSet, RestApiLastSet, SiteLastSet, LoadTestingLastSet,
         PagesLastSet, WorkerLastSet
<1>3. \A class : RankOf(class) \in {FunctionAppRank, RestApiRank, SiteRank,
                                    LoadTestingRank, PagesRank, WorkerRank}
  BY DEF RankOf
<1>4. \A class : LastSetOf(class) \in {FunctionAppLastSet, RestApiLastSet,
                   SiteLastSet, LoadTestingLastSet, PagesLastSet, WorkerLastSet}
  BY DEF LastSetOf
<1>5. \A class : \A m \in DOMAIN RankOf(class) : RankOf(class)[m] \in Nat
  BY <1>1, <1>3
<1>6. \A class : \A f \in DOMAIN LastSetOf(class) : LastSetOf(class)[f] \in Nat
  BY <1>2, <1>4
<1> QED  BY <1>5, <1>6

(* The plan stays as it is, and so does what is known of it.               *)
LEMMA CallKeepsPlan ==
    ASSUME PlanInv, NEW m, Calls(m), DOMAIN fields' = DOMAIN fields,
           \A id \in DOMAIN fields : DOMAIN fields'[id] = DOMAIN fields[id],
           status' \in {status, "thrown"}
    PROVE  PlanInv'
<1>1. /\ status = "synth" /\ plan' = plan
      /\ todo' \in Seq(DOMAIN Rank) /\ Ordered(todo', this.class)
      /\ \E n \in 0..Len(InitResources(this)) :
           todo' = SubSeq(InitResources(this), n + 1, Len(InitResources(this)))
  BY WhenCalled
<1>2. this' = this /\ Rank' = Rank
  BY <1>1 DEF this, Rank
<1>3. /\ Ordered(todo, this.class)' /\ (todo \in Seq(DOMAIN Rank))'
      /\ (\E n \in 0..Len(InitResources(this)) :
            todo = SubSeq(InitResources(this), n + 1, Len(InitResources(this))))'
  BY <1>1, <1>2 DEF Ordered, InitResources
<1> QED  BY <1>1, <1>3 DEF PlanInv

LEMMA MethodKeeps ==
    ASSUME PlanInv, FieldsInv, TemplateInv,
           NEW m, NEW reads, NEW sets, Method(m, reads, sets)
    PROVE  PlanInv' /\ FieldsInv' /\ TemplateInv'
<1>1. /\ Calls(m) /\ Changes(reads, sets) /\ Fits(m, reads, sets)
      /\ m \in Left \ Resolvers /\ m \in DOMAIN Rank /\ Left' \subseteq Left
      /\ \A s \in Left' \ Resolvers : Rank[m] < Rank[s]
      /\ plan' = plan
  BY WhenCalled DEF Method, Fits
<1>2. this' = this /\ Rank' = Rank /\ LastSet' = LastSet
  BY <1>1 DEF this, Rank, LastSet
<1>3. this = plan[1] /\ this.id \in DOMAIN fields /\ 1 \in DOMAIN plan
      /\ DOMAIN fields[this.id] = FieldsOf[this.class]
  BY ThisIs
<1>4. /\ \A s \in DOMAIN Rank : Rank[s] \in Nat
      /\ \A f \in DOMAIN LastSet : LastSet[f] \in Nat
      /\ Left \subseteq DOMAIN Rank
  BY RanksAreNumbers DEF Rank, LastSet, Left, PlanInv, Ordered
<1>5. PlanInv'
  BY <1>1, CallKeepsPlan DEF Changes
<1>6. ASSUME NEW f \in DOMAIN fields[this.id], Settled(f)
      PROVE  fields'[this.id][f] = Field(f) /\ Settled(f)'
  <2>1. f \notin sets
    <3> SUFFICES ASSUME f \in sets PROVE FALSE
      OBVIOUS
    <3>1. f \notin Resolved /\ f \in DOMAIN LastSet /\ Rank[m] <= LastSet[f]
      BY <1>1 DEF Fits
    <3>2. Rank[m] > LastSet[f]
      BY <1>1, <1>6, <3>1 DEF Settled
    <3> QED  BY <1>1, <1>4, <3>1, <3>2
  <2>2. fields'[this.id][f] = Field(f)
    BY <1>1, <1>6, <2>1 DEF Changes
  <2>3. Settled(f)'
    <3>1. CASE f \in Resolved
      BY <1>2, <1>6, <2>2, <3>1 DEF Settled, IsSet, Field
    <3>2. CASE f \notin Resolved
      BY <1>1, <1>2, <1>6, <3>2 DEF Settled
    <3> QED  BY <3>1, <3>2
  <2> QED  BY <2>2, <2>3
<1>7. ASSUME NEW f \in DOMAIN LastSet \ Resolved, LastSet[f] <= Rank[m]
      PROVE  Settled(f)'
  <2>1. \A s \in Left' \ Resolvers : Rank[s] > LastSet[f]
    BY <1>1, <1>4, <1>7
  <2> QED  BY <1>2, <1>7, <2>1 DEF Settled
<1>8. FieldsInv'
  <2>1. \A id \in DOMAIN fields' : \E class \in DOMAIN FieldsOf :
           DOMAIN fields'[id] = FieldsOf[class]
    BY <1>1 DEF FieldsInv, Changes
  <2>2. \A f \in {"commonLogAnalyticsWorkspace", "applicationInsights"} :
           f \in DOMAIN fields'[this.id] => fields'[this.id][f] \in {NotSet, "existing"}
    <3> SUFFICES ASSUME NEW f \in {"commonLogAnalyticsWorkspace", "applicationInsights"},
                        f \in DOMAIN fields'[this.id]
                 PROVE  fields'[this.id][f] \in {NotSet, "existing"}
      OBVIOUS
    <3>1. f \in Resolved /\ f \notin sets
      BY <1>1 DEF Resolved, Fits
    <3>2. f \in DOMAIN fields[this.id]
      BY <1>1, <1>3 DEF Changes
    <3> QED  BY <1>1, <3>1, <3>2 DEF FieldsInv, Changes
  <2>3. \A i \in DOMAIN plan' : i # 1 =>
           fields'[plan'[i].id] = [f \in FieldsOf[plan'[i].class] |-> NotSet]
    <3> SUFFICES ASSUME NEW i \in DOMAIN plan, i # 1
                 PROVE  fields'[plan[i].id] = [f \in FieldsOf[plan[i].class] |-> NotSet]
      BY <1>1
    <3>1. plan[i].id \in DOMAIN fields /\ plan[i].id # this.id
      BY <1>3 DEF PlanInv
    <3> QED  BY <1>1, <3>1 DEF FieldsInv, Changes
  <2>4. "dataStorageAccount" \in DOMAIN fields'[this.id]
          /\ fields'[this.id]["dataStorageAccount"] # NotSet
          => Settled("dataStorageAccount")'
    <3> DEFINE f == "dataStorageAccount"
    <3> SUFFICES ASSUME f \in DOMAIN fields[this.id], fields'[this.id][f] # NotSet
                 PROVE  Settled(f)'
      BY <1>1, <1>3 DEF Changes
    <3>1. CASE f \in sets
      <4>1. f \in DOMAIN LastSet \ Resolved /\ LastSet[f] <= Rank[m]
        BY <1>1, <1>4, <3>1 DEF Fits
      <4> QED  BY <1>7, <4>1
    <3>2. CASE f \notin sets
      <4>1. IsSet(f)
        BY <1>1, <3>2 DEF Changes, IsSet, Field
      <4> QED  BY <1>6, <4>1 DEF FieldsInv
    <3> QED  BY <3>1, <3>2
  <2> QED  BY <1>2, <2>1, <2>2, <2>3, <2>4 DEF FieldsInv, Field, IsSet
<1>9. TemplateInv'
  <2> SUFFICES ASSUME NEW r \in template'
               PROVE  /\ r.of \in DOMAIN fields'
                      /\ \A i \in DOMAIN plan : r.of = plan[i].id => i = 1
                      /\ DOMAIN r.reads \subseteq DOMAIN fields'[r.of]
                      /\ \A f \in DOMAIN r.reads :
                           /\ r.reads[f] = fields'[r.of][f]
                           /\ r.of = this.id => Settled(f)'
    BY <1>1, <1>2 DEF TemplateInv
  <2>1. CASE r \in template
    <3>1. /\ r.of \in DOMAIN fields
          /\ \A i \in DOMAIN plan : r.of = plan[i].id => i = 1
          /\ DOMAIN r.reads \subseteq DOMAIN fields[r.of]
          /\ \A f \in DOMAIN r.reads :
               /\ r.reads[f] = fields[r.of][f]
               /\ r.of = this.id => Settled(f)
      BY <2>1 DEF TemplateInv
    <3>2. /\ r.of \in DOMAIN fields' /\ DOMAIN fields'[r.of] = DOMAIN fields[r.of]
          /\ r.of # this.id => fields'[r.of] = fields[r.of]
      BY <1>1, <3>1 DEF Changes
    <3>3. CASE r.of # this.id
      BY <3>1, <3>2, <3>3
    <3>4. CASE r.of = this.id
      <4>1. \A f \in DOMAIN r.reads : fields'[this.id][f] = Field(f) /\ Settled(f)'
        BY <1>6, <3>1, <3>4
      <4> QED  BY <3>1, <3>2, <3>4, <4>1 DEF Field
    <3> QED  BY <3>3, <3>4
  <2>2. CASE r \notin template
    <3>1. IsNew(r, reads) /\ \A f \in reads \cap Resolved : IsSet(f)
      BY <1>1, <2>2 DEF Changes
    <3>2. /\ r.of = this.id /\ DOMAIN r.reads \subseteq reads
          /\ \A f \in DOMAIN r.reads : r.reads[f] = Field(f)
      BY <3>1 DEF IsNew
    <3>3. reads \subseteq DOMAIN fields[this.id]
      BY <1>1, <1>3 DEF Fits
    <3>4. \A i \in DOMAIN plan : r.of = plan[i].id => i = 1
      BY <1>3, <3>2 DEF PlanInv
    <3>5. ASSUME NEW f \in DOMAIN r.reads
          PROVE  fields'[this.id][f] = Field(f) /\ Settled(f)'
      <4>1. f \in reads /\ f \in DOMAIN fields[this.id]
        BY <3>2, <3>3
      <4>2. CASE f \in Resolved
        <5>1. Settled(f)
          BY <3>1, <4>1, <4>2 DEF Settled
        <5> QED  BY <1>6, <4>1, <5>1
      <4>3. CASE f \notin Resolved
        <5>1. f \in DOMAIN LastSet \ Resolved /\ LastSet[f] <= Rank[m]
          BY <1>1, <4>1, <4>3 DEF Fits
        <5>2. Settled(f)'
          BY <1>7, <5>1
        <5>3. fields'[this.id][f] = Field(f)
          BY <1>1, <4>1 DEF Changes, Fits
        <5> QED  BY <5>2, <5>3
      <4> QED  BY <4>2, <4>3
    <3>6. this.id \in DOMAIN fields' /\ DOMAIN fields'[this.id] = DOMAIN fields[this.id]
      BY <1>1, <1>3 DEF Changes
    <3> QED  BY <3>2, <3>3, <3>4, <3>5, <3>6
  <2> QED  BY <2>1, <2>2
<1> QED  BY <1>5, <1>8, <1>9
-----------------------------------------------------------------------------
(* What the managers declare *)

ReadsOnly(resources, reads) == \A r \in resources : IsNew(r, reads)

LEMMA DeclaredReads ==
    /\ \A reads : ReadsOnly({}, reads)
    /\ \A id, suffix, reads : ReadsOnly(Suffixed(id, suffix, reads), reads)
    /\ \A id, reads : ReadsOnly(Child(id, reads), reads)
    /\ \A R, S, reads : ReadsOnly(R, reads) /\ ReadsOnly(S, reads)
         => ReadsOnly(R \union S, reads)
    /\ \A condition, R, reads : ReadsOnly(R, reads)
         => ReadsOnly(When(condition, R), reads)
    /\ \A R, reads, more : ReadsOnly(R, reads) /\ reads \subseteq more
         => ReadsOnly(R, more)
    /\ \A F, reads : (\A R \in F : ReadsOnly(R, reads))
         => ReadsOnly(UNION F, reads)
<1>1. \A id, reads : IsNew(Resource(id, reads), reads)
  BY DEF IsNew, Resource
<1>2. \A reads : ReadsOnly({}, reads)
  BY DEF ReadsOnly
<1>3. \A id, suffix, reads : ReadsOnly(Suffixed(id, suffix, reads), reads)
  BY <1>1 DEF ReadsOnly, Suffixed
<1>4. \A id, reads : ReadsOnly(Child(id, reads), reads)
  BY <1>1 DEF ReadsOnly, Child
<1>5. \A R, S, reads : ReadsOnly(R, reads) /\ ReadsOnly(S, reads)
         => ReadsOnly(R \union S, reads)
  BY DEF ReadsOnly
<1>6. \A condition, R, reads : ReadsOnly(R, reads)
         => ReadsOnly(When(condition, R), reads)
  BY DEF ReadsOnly, When
<1>7. \A R, reads, more : ReadsOnly(R, reads) /\ reads \subseteq more
         => ReadsOnly(R, more)
  BY DEF ReadsOnly, IsNew
<1>8. \A F, reads : (\A R \in F : ReadsOnly(R, reads)) => ReadsOnly(UNION F, reads)
  BY DEF ReadsOnly
<1> QED  BY <1>2, <1>3, <1>4, <1>5, <1>6, <1>7, <1>8

LEMMA BuildsChanges ==
    ASSUME PlanInv, NEW needs, NEW resources, NEW values, NEW reads, NEW sets,
           Builds(needs, resources, values), ReadsOnly(resources, reads),
           reads \cap Resolved \subseteq needs, DOMAIN values \subseteq sets
    PROVE  Changes(reads, sets)
<1>1. this.id \in DOMAIN fields
  BY ThisIs
<1>2. CASE Lacks(needs) \/ Clashes(resources)
  BY <1>2 DEF Builds, Changes, Field
<1>3. CASE ~(Lacks(needs) \/ Clashes(resources))
  <2>1. template' = template \union resources /\ fields' = With(values)
        /\ status' = status
    BY <1>3 DEF Builds
  <2>2. /\ DOMAIN fields' = DOMAIN fields
        /\ \A id \in DOMAIN fields :
             /\ DOMAIN fields'[id] = DOMAIN fields[id]
             /\ id # this.id => fields'[id] = fields[id]
    BY <1>1, <2>1 DEF With
  <2>3. \A f \in DOMAIN fields[this.id] :
           f \in sets \/ fields'[this.id][f] = Field(f)
    BY <1>1, <2>1 DEF With, Field
  <2>4. \A r \in template' : r \in template \/ IsNew(r, reads)
    BY <2>1 DEF ReadsOnly
  <2>5. \A f \in reads \cap Resolved : IsSet(f)
    BY <1>3 DEF Lacks
  <2> QED  BY <2>1, <2>2, <2>3, <2>4, <2>5 DEF Changes
<1> QED  BY <1>2, <1>3

LEMMA SetsChanges ==
    ASSUME PlanInv, NEW values, NEW reads, NEW sets,
           Sets(values), DOMAIN values \subseteq sets
    PROVE  Changes(reads, sets)
<1>1. ReadsOnly({}, {}) /\ Builds({}, {}, values)
  BY DeclaredReads DEF Sets, Creates
<1>2. Changes({}, sets)
  BY <1>1, BuildsChanges
<1>3. template' \subseteq template
  BY <1>1 DEF Builds
<1> QED  BY <1>2, <1>3 DEF Changes

(* A resource may read less than the others it is declared with.           *)
LEMMA EachReads ==
    ASSUME NEW reads, NEW some \in SUBSET reads, NEW id, NEW suffix
    PROVE  ReadsOnly(Suffixed(id, suffix, some), reads)
<1>1. ReadsOnly(Suffixed(id, suffix, some), some)
  BY DeclaredReads
<1> QED  BY <1>1 DEF ReadsOnly, IsNew

LEMMA UnionReads ==
    ASSUME NEW reads, NEW R, NEW S, ReadsOnly(R, reads), ReadsOnly(S, reads)
    PROVE  ReadsOnly(R \union S, reads)
BY DeclaredReads

LEMMA WhenReads ==
    ASSUME NEW reads, NEW condition, NEW R, ReadsOnly(R, reads)
    PROVE  ReadsOnly(When(condition, R), reads)
BY DeclaredReads

LEMMA StorageAccountReads ==
    \A id, reads : ReadsOnly(StorageAccount(id, reads), reads)
<1> SUFFICES ASSUME NEW id, NEW reads
             PROVE  ReadsOnly(StorageAccount(id, reads), reads)
  OBVIOUS
<1>1. /\ ReadsOnly(Suffixed(id, "sa", reads), reads)
      /\ ReadsOnly(Suffixed(id, "blob-props", reads), reads)
  BY DeclaredReads
<1> QED  BY <1>1, UnionReads, WhenReads DEF StorageAccount

LEMMA StillChanges ==
    ASSUME NEW reads, NEW sets, Returns \/ Throws
    PROVE  Changes(reads, sets)
BY DEF Returns, Throws, Changes, Field
-----------------------------------------------------------------------------
(* The methods of function apps *)

LEMMA FunctionAppCall ==
    ASSUME PlanInv, NEW m \in DOMAIN FunctionAppRank \ Resolvers, Calls(m),
           m \notin Shared \/ this.class \in FunctionAppClasses
    PROVE  /\ this.class \in FunctionAppClasses /\ m \in DOMAIN Rank
           /\ Rank = FunctionAppRank /\ LastSet = FunctionAppLastSet
           /\ FunctionAppFields \subseteq FieldsOf[this.class]
           /\ FunctionAppRank[m] \in 4..12
                => FieldsOf[this.class] = EventHandlerFields
           /\ FunctionAppRank[m] \in 28..34
                => /\ this.class = "AzureRestApiFunction"
                   /\ FieldsOf[this.class] = RestApiFunctionFields
<1>1. /\ this.class \in DOMAIN Methods /\ m \in DOMAIN Rank
      /\ Belongs(this.class, Rank[m])
  BY ThisIs, WhenCalled
<1>2. this.class \in FunctionAppClasses
  <2>1. CASE m \notin Shared
    BY <1>1, <2>1, FamilyOf DEF Rank
  <2>2. CASE m \in Shared
    BY <2>2
  <2> QED  BY <2>1, <2>2
<1>3. Rank = FunctionAppRank /\ LastSet = FunctionAppLastSet
  BY <1>2 DEF Rank, RankOf, LastSet, LastSetOf
<1>4. /\ FieldsOf["AzureFunctionApp"] = FunctionAppFields
      /\ FieldsOf["AzureEventHandler"] = EventHandlerFields
      /\ FieldsOf["AzureRestApiFunction"] = RestApiFunctionFields
  BY DEF FieldsOf
<1>5. FunctionAppFields \subseteq EventHandlerFields \cap RestApiFunctionFields
  BY DEF EventHandlerFields, RestApiFunctionFields
<1> QED  BY <1>1, <1>2, <1>3, <1>4, <1>5 DEF Belongs, FunctionAppClasses

LEMMA FunctionAppMethod ==
    ASSUME PlanInv,
           CreateAppServicePlan \/ CreatedParsedAppConfigurations \/
           CreateAppConfiguration \/ CreateAppConfigurations \/
           CreateStorageAccount \/ CreateStorageDeploymentContainer \/
           CreateStorageContainer \/ CreateDataStorageAccount \/
           CreateDataStorageContainer \/ GenerateStorageContainerSas \/
           CreateFunctionHosts \/ InheritedSiteConfig \/ CreateRoleAssignments
    PROVE  \E m, reads, sets : Method(m, reads, sets)
<1>1. CASE CreateAppServicePlan
  <2> DEFINE reads == {"resourceGroup"}
             sets == {"appServicePlan"}
  <2>1. Calls("createAppServicePlan") /\ Changes(reads, sets)
    BY <1>1, BuildsChanges, StillChanges, DeclaredReads
       DEF CreateAppServicePlan, Creates, Sets, None, AppServicePlan
  <2>2. Fits("createAppServicePlan", reads, sets)
    BY <1>1, <2>1, FunctionAppCall
       DEF Fits, FunctionAppRank, FunctionAppLastSet, FunctionAppFields,
           Resolved, Shared, Resolvers
  <2> QED  BY <2>1, <2>2 DEF Method
<1>2. CASE CreatedParsedAppConfigurations
  <2> DEFINE reads == {}
             sets == {"parsedConfig"}
  <2>1. Calls("createdParsedAppConfigurations") /\ Changes(reads, sets)
    BY <1>2, BuildsChanges, StillChanges, DeclaredReads
       DEF CreatedParsedAppConfigurations, Creates, Sets, None
  <2>2. Fits("createdParsedAppConfigurations", reads, sets)
    BY <1>2, <2>1, FunctionAppCall
       DEF Fits, FunctionAppRank, FunctionAppLastSet, FunctionAppFields,
           Resolved, Shared, Resolvers
  <2> QED  BY <2>1, <2>2 DEF Method
<1>3. CASE CreateAppConfiguration
  <2> DEFINE reads == {"resourceGroup"}
             sets == {"appConfig"}
  <2>1. Calls("createAppConfiguration") /\ Changes(reads, sets)
    BY <1>3, BuildsChanges, SetsChanges, StillChanges, DeclaredReads
       DEF CreateAppConfiguration, Creates, ConfigurationStore
  <2>2. Fits("createAppConfiguration", reads, sets)
    BY <1>3, <2>1, FunctionAppCall
       DEF Fits, FunctionAppRank, FunctionAppLastSet, FunctionAppFields,
           Resolved, Shared, Resolvers
  <2> QED  BY <2>1, <2>2 DEF Method
<1>4. CASE CreateAppConfigurations
  <2> DEFINE reads == {}
             sets == {"keyVaults"}
  <2>1. Calls("createAppConfigurations") /\ Changes(reads, sets)
    BY <1>4, BuildsChanges, StillChanges, DeclaredReads
       DEF CreateAppConfigurations, Creates, Sets, None
  <2>2. Fits("createAppConfigurations", reads, sets)
    BY <1>4, <2>1, FunctionAppCall
       DEF Fits, FunctionAppRank, FunctionAppLastSet, FunctionAppFields,
           Resolved, Shared, Resolvers
  <2> QED  BY <2>1, <2>2 DEF Method
<1>5. CASE CreateStorageAccount
  <2> DEFINE reads == {"resourceGroup"}
             sets == {"appStorageAccount"}
  <2>1. Calls("createStorageAccount") /\ Changes(reads, sets)
    BY <1>5, BuildsChanges, StillChanges, StorageAccountReads
       DEF CreateStorageAccount, Creates
  <2>2. Fits("createStorageAccount", reads, sets)
    BY <1>5, <2>1, FunctionAppCall
       DEF Fits, FunctionAppRank, FunctionAppLastSet, FunctionAppFields,
           Resolved, Shared, Resolvers
  <2> QED  BY <2>1, <2>2 DEF Method
<1>6. CASE CreateStorageDeploymentContainer
  <2> DEFINE reads == {"appStorageAccount", "resourceGroup"}
             sets == {"deploymentContainer"}
  <2>1. Calls("createStorageDeploymentContainer") /\ Changes(reads, sets)
    BY <1>6, BuildsChanges, StillChanges, DeclaredReads
       DEF CreateStorageDeploymentContainer, Creates, Sets, None,
           StorageContainer
  <2>2. Fits("createStorageDeploymentContainer", reads, sets)
    BY <1>6, <2>1, FunctionAppCall
       DEF Fits, FunctionAppRank, FunctionAppLastSet, FunctionAppFields,
           Resolved, Shared, Resolvers
  <2> QED  BY <2>1, <2>2 DEF Method
<1>7. CASE CreateStorageContainer
  <2> DEFINE reads == {"appStorageAccount", "resourceGroup"}
             sets == {"storageContainer", "storageAccountName"}
  <2>1. Calls("createStorageContainer") /\ Changes(reads, sets)
    BY <1>7, BuildsChanges, StillChanges, DeclaredReads
       DEF CreateStorageContainer, Creates, Sets, None, StorageContainer
  <2>2. Fits("createStorageContainer", reads, sets)
    BY <1>7, <2>1, FunctionAppCall
       DEF Fits, FunctionAppRank, FunctionAppLastSet, FunctionAppFields,
           Resolved, Shared, Resolvers
  <2> QED  BY <2>1, <2>2 DEF Method
<1>8. CASE CreateDataStorageAccount
  <2> DEFINE reads == {"resourceGroup"}
             sets == {"dataStorageAccount", "storageAccountName"}
  <2>1. Calls("createDataStorageAccount") /\ Changes(reads, sets)
    BY <1>8, BuildsChanges, StillChanges, StorageAccountReads
       DEF CreateDataStorageAccount, Creates
  <2>2. Fits("createDataStorageAccount", reads, sets)
    BY <1>8, <2>1, FunctionAppCall
       DEF Fits, FunctionAppRank, FunctionAppLastSet, FunctionAppFields,
           Resolved, Shared, Resolvers
  <2> QED  BY <2>1, <2>2 DEF Method
<1>9. CASE CreateDataStorageContainer
  <2> DEFINE reads == {"dataStorageAccount", "resourceGroup"}
             sets == {"dataStorageContainer"}
  <2>1. Calls("createDataStorageContainer") /\ Changes(reads, sets)
    BY <1>9, BuildsChanges, StillChanges, DeclaredReads
       DEF CreateDataStorageContainer, Creates, Sets, None, StorageContainer
  <2>2. Fits("createDataStorageContainer", reads, sets)
    BY <1>9, <2>1, FunctionAppCall
       DEF Fits, FunctionAppRank, FunctionAppLastSet, FunctionAppFields,
           Resolved, Shared, Resolvers
  <2> QED  BY <2>1, <2>2 DEF Method
<1>10. CASE GenerateStorageContainerSas
  <2> DEFINE reads == {"dataStorageAccount", "commonLogAnalyticsWorkspace",
                      "resourceGroup"}
             sets == {"dataKeyVault"}
           resources == KeyVault(<<>>, {"resourceGroup"})
                          \union DiagnosticSettings(<<"data-key-vault">>,
                                   {"commonLogAnalyticsWorkspace"})
                          \union KeyVaultSecret(<<"sas-token-secret">>,
                                   {"dataStorageAccount", "resourceGroup"})
  <2>1. ReadsOnly(resources, reads)
    <3>1. /\ ReadsOnly(KeyVault(<<>>, {"resourceGroup"}), reads)
          /\ ReadsOnly(DiagnosticSettings(<<"data-key-vault">>,
                                          {"commonLogAnalyticsWorkspace"}), reads)
          /\ ReadsOnly(KeyVaultSecret(<<"sas-token-secret">>,
                                      {"dataStorageAccount", "resourceGroup"}), reads)
      BY EachReads DEF KeyVault, DiagnosticSettings, KeyVaultSecret
    <3> QED  BY <3>1, UnionReads
  <2>2. Calls("generateStorageContainerSas") /\ Changes(reads, sets)
    BY <1>10, <2>1, BuildsChanges, StillChanges
       DEF GenerateStorageContainerSas, Creates
  <2>3. Fits("generateStorageContainerSas", reads, sets)
    BY <1>10, <2>2, FunctionAppCall
       DEF Fits, FunctionAppRank, FunctionAppLastSet, FunctionAppFields,
           Resolved, Shared, Resolvers
  <2> QED  BY <2>2, <2>3 DEF Method
<1>11. CASE CreateFunctionHosts
  <2> DEFINE reads == {}
             sets == {}
  <2>1. Calls("createFunctionHosts") /\ Changes(reads, sets)
    BY <1>11, BuildsChanges, StillChanges, DeclaredReads
       DEF CreateFunctionHosts, Creates, Sets, None
  <2>2. Fits("createFunctionHosts", reads, sets)
    BY <1>11, <2>1, FunctionAppCall
       DEF Fits, FunctionAppRank, FunctionAppLastSet, FunctionAppFields,
           Resolved, Shared, Resolvers
  <2> QED  BY <1>11, <2>1, <2>2 DEF Method
<1>12. CASE InheritedSiteConfig
  <2> DEFINE reads == {}
             sets == {}
  <2>1. Calls("createFunctionAppSiteConfig") /\ Changes(reads, sets)
    BY <1>12, BuildsChanges, StillChanges, DeclaredReads
       DEF InheritedSiteConfig, Creates, Sets, None,
           CreateFunctionAppSiteConfig
  <2>2. Fits("createFunctionAppSiteConfig", reads, sets)
    BY <1>12, <2>1, FunctionAppCall
       DEF Fits, FunctionAppRank, FunctionAppLastSet, FunctionAppFields,
           Resolved, Shared, Resolvers
  <2> QED  BY <2>1, <2>2 DEF Method
<1>13. CASE CreateRoleAssignments
  <2> DEFINE reads == {"dataStorageAccount", "appStorageAccount", "appConfig",
                      "app"}
             sets == {}
           vaults == UNION {KeyVaultRole(<<>>, v, {"app"}) :
                              v \in Coalesce(Field("keyVaults"), {})}
           resources ==
             DataAccountRole
               \union StorageAccountRole(<<>>, {"appStorageAccount", "app"})
               \union When(~props.useConfigOverride,
                        ApplicationConfigurationRole(<<>>, {"appConfig", "app"}))
               \union When(HasCosmosDependencies, CosmosRoles(<<>>, {"app"}))
               \union When(HasEventGridTargets, EventgridTopicRole(<<>>, {"app"}))
               \union vaults
  <2>1. ReadsOnly(resources, reads)
    <3>1. ReadsOnly(DataAccountRole, reads)
      BY EachReads, WhenReads DEF DataAccountRole, StorageAccountRole, RoleAssignment
    <3>3. ReadsOnly(StorageAccountRole(<<>>, {"appStorageAccount", "app"}), reads)
      BY EachReads DEF StorageAccountRole, RoleAssignment
    <3>4. ReadsOnly(When(~props.useConfigOverride,
            ApplicationConfigurationRole(<<>>, {"appConfig", "app"})), reads)
      BY EachReads, WhenReads DEF ApplicationConfigurationRole, RoleAssignment
    <3>2. ReadsOnly(When(HasCosmosDependencies, CosmosRoles(<<>>, {"app"})), reads)
      <4>1. \A role : ReadsOnly(RoleAssignment(<<>> \o <<"cdb", role>>, {"app"}), reads)
        BY EachReads DEF RoleAssignment
      <4>2. ReadsOnly(CosmosRoles(<<>>, {"app"}), reads)
        BY <4>1 DEF CosmosRoles, ReadsOnly
      <4> QED  BY <4>2, WhenReads
    <3>5. ReadsOnly(vaults, reads)
      <4>1. \A v : ReadsOnly(KeyVaultRole(<<>>, v, {"app"}), reads)
        BY EachReads DEF KeyVaultRole, RoleAssignment
      <4> QED  BY <4>1 DEF ReadsOnly
    <3>6. ReadsOnly(When(HasEventGridTargets, EventgridTopicRole(<<>>, {"app"})), reads)
      BY EachReads, WhenReads DEF EventgridTopicRole, RoleAssignment
    <3> QED  BY <3>1, <3>3, <3>4, <3>2, <3>5, <3>6 DEF ReadsOnly
  <2>2. Calls("createRoleAssignments") /\ Changes(reads, sets)
    <3>1. reads \cap Resolved = {} /\ DOMAIN None = {}
      BY DEF Resolved, None
    <3>2. Calls("createRoleAssignments")
      BY <1>13 DEF CreateRoleAssignments
    <3>3. CASE RoleDefinitionThrows
      BY <1>13, <3>3, StillChanges DEF CreateRoleAssignments
    <3>4. CASE ~RoleDefinitionThrows
      <4>1. PICK needs : Builds(needs, resources, None)
        BY <1>13, <3>4 DEF CreateRoleAssignments, Creates
      <4>2. reads \cap Resolved \subseteq needs /\ DOMAIN None \subseteq sets
        BY <3>1
      <4> HIDE DEF resources, reads, sets
      <4>3. Changes(reads, sets)
        BY <2>1, <4>1, <4>2, BuildsChanges
      <4> QED  BY <3>2, <4>3
    <3> QED  BY <3>3, <3>4
  <2>3. Fits("createRoleAssignments", reads, sets)
    BY <1>13, <2>2, FunctionAppCall
       DEF Fits, FunctionAppRank, FunctionAppLastSet, FunctionAppFields,
           Resolved, Shared, Resolvers
  <2> QED  BY <2>2, <2>3 DEF Method
<1> QED  BY <1>1, <1>2, <1>3, <1>4, <1>5, <1>6, <1>7, <1>8, <1>9, <1>10,
            <1>11, <1>12, <1>13

LEMMA EventHandlerMethod ==
    ASSUME PlanInv,
           CreateEventGridSubscriptionDlqStorageAccount \/
           CreateEventGridSubscriptionDlqStorageContainer \/
           CreateServiceBusNamespace \/ CreateServiceBusQueue \/
           CreateServiceBusQueueAuthorizationRule \/ CreateEventGrid \/
           CreateEventGridEventSubscription \/ CreateServiceBusDiagnosticLog
           \/ CreateEventHandlerSiteConfig
    PROVE  \E m, reads, sets : Method(m, reads, sets)
<1>1. CASE CreateEventGridSubscriptionDlqStorageAccount
  <2> DEFINE reads == {"resourceGroup"}
             sets == {"dlqStorageAccount"}
  <2>1. Calls("createEventGridSubscriptionDlqStorageAccount") /\ Changes(reads, sets)
    BY <1>1, BuildsChanges, StillChanges, DeclaredReads, StorageAccountReads
       DEF CreateEventGridSubscriptionDlqStorageAccount, Creates, Sets, None
  <2>2. Fits("createEventGridSubscriptionDlqStorageAccount", reads, sets)
    BY <1>1, <2>1, FunctionAppCall
       DEF Fits, FunctionAppRank, FunctionAppLastSet, FunctionAppFields,
           Resolved, Shared, Resolvers, EventHandlerFields
  <2> QED  BY <2>1, <2>2 DEF Method
<1>2. CASE CreateEventGridSubscriptionDlqStorageContainer
  <2> DEFINE reads == {"dlqStorageAccount", "resourceGroup"}
             sets == {"dlqStorageContainer"}
  <2>1. Calls("createEventGridSubscriptionDlqStorageContainer") /\ Changes(reads, sets)
    BY <1>2, BuildsChanges, StillChanges, DeclaredReads
       DEF CreateEventGridSubscriptionDlqStorageContainer, Creates, Sets,
           None, StorageContainer
  <2>2. Fits("createEventGridSubscriptionDlqStorageContainer", reads, sets)
    BY <1>2, <2>1, FunctionAppCall
       DEF Fits, FunctionAppRank, FunctionAppLastSet, FunctionAppFields,
           Resolved, Shared, Resolvers, EventHandlerFields
  <2> QED  BY <2>1, <2>2 DEF Method
<1>3. CASE CreateServiceBusNamespace
  <2> DEFINE reads == {"resourceGroup"}
             sets == {"namespace", "namespaceGroup"}
  <2>1. /\ ReadsOnly(ServiceBusNamespace(<<>>, {"resourceGroup"}), reads)
    BY EachReads, WhenReads, UnionReads
       DEF ServiceBusNamespace, GeoReplicationDeployment
  <2>2. Calls("createServiceBusNamespace") /\ Changes(reads, sets)
    BY <1>3, <2>1, BuildsChanges, StillChanges, SetsChanges
       DEF CreateServiceBusNamespace, Creates, Sets, None
  <2>3. Fits("createServiceBusNamespace", reads, sets)
    BY <1>3, <2>2, FunctionAppCall
       DEF Fits, FunctionAppRank, FunctionAppLastSet, FunctionAppFields,
           Resolved, Shared, Resolvers, EventHandlerFields
  <2> QED  BY <2>2, <2>3 DEF Method
<1>4. CASE CreateServiceBusQueue
  <2> DEFINE reads == {"namespace", "namespaceGroup"}
             sets == {"queue", "queueGroup"}
  <2>1. /\ ReadsOnly(ServiceBusQueue(<<>>, {"namespace", "namespaceGroup"}), reads)
    BY EachReads, WhenReads, UnionReads
       DEF ServiceBusQueue
  <2>2. Calls("createServiceBusQueue") /\ Changes(reads, sets)
    BY <1>4, <2>1, BuildsChanges, StillChanges, SetsChanges
       DEF CreateServiceBusQueue, Creates, Sets, None, Resolved
  <2>3. Fits("createServiceBusQueue", reads, sets)
    BY <1>4, <2>2, FunctionAppCall
       DEF Fits, FunctionAppRank, FunctionAppLastSet, FunctionAppFields,
           Resolved, Shared, Resolvers, EventHandlerFields
  <2> QED  BY <2>2, <2>3 DEF Method
<1>5. CASE CreateServiceBusQueueAuthorizationRule
  <2> DEFINE reads == {"namespace", "queue", "queueGroup"}
             sets == {"queueAuthorizationRule"}
  <2>1. /\ ReadsOnly(ServiceBusQueueAuthorizationRule(<<>>,
                    {"namespace", "queue", "queueGroup"}), reads)
    BY EachReads, WhenReads, UnionReads
       DEF ServiceBusQueueAuthorizationRule
  <2>2. Calls("createServiceBusQueueAuthorizationRule") /\ Changes(reads, sets)
    BY <1>5, <2>1, BuildsChanges, StillChanges
       DEF CreateServiceBusQueueAuthorizationRule, Creates, Sets, None,
           Resolved
  <2>3. Fits("createServiceBusQueueAuthorizationRule", reads, sets)
    BY <1>5, <2>2, FunctionAppCall
       DEF Fits, FunctionAppRank, FunctionAppLastSet, FunctionAppFields,
           Resolved, Shared, Resolvers, EventHandlerFields
  <2> QED  BY <2>2, <2>3 DEF Method
<1>6. CASE CreateEventGrid
  <2> DEFINE sets == {"eventGridTopic"}
  <2>1. Calls("createEventGrid")
    BY <1>6 DEF CreateEventGrid
  <2>2. CASE props.useExistingTopic
    <3> DEFINE found == IF props.existingTopicNamed
                          THEN [eventGridTopic |-> "existing"] ELSE None
    <3>1. ReadsOnly(SubscriptionProvider, {})
      BY DeclaredReads DEF SubscriptionProvider
    <3>2. DOMAIN found \subseteq sets
      BY DEF None
    <3>3. Builds({}, SubscriptionProvider, found)
      BY <1>6, <2>2 DEF CreateEventGrid, Creates
    <3>4. Fits("createEventGrid", {}, sets)
      BY <2>1, FunctionAppCall
         DEF Fits, FunctionAppRank, FunctionAppLastSet, FunctionAppFields,
             Resolved, Shared, Resolvers, EventHandlerFields
    <3> HIDE DEF found, sets
    <3>5. Changes({}, sets)
      BY <3>1, <3>2, <3>3, BuildsChanges
    <3> QED  BY <2>1, <3>4, <3>5 DEF Method
  <2>3. CASE ~props.useExistingTopic
    <3>1. Builds({"resourceGroup"}, EventgridTopic(<<>>, {"resourceGroup"}),
                 [eventGridTopic |-> "created"])
      BY <1>6, <2>3 DEF CreateEventGrid, Creates
    <3>2. Changes({"resourceGroup"}, sets)
      BY <3>1, BuildsChanges, DeclaredReads DEF EventgridTopic
    <3>3. Fits("createEventGrid", {"resourceGroup"}, sets)
      BY <2>1, FunctionAppCall
         DEF Fits, FunctionAppRank, FunctionAppLastSet, FunctionAppFields,
             Resolved, Shared, Resolvers, EventHandlerFields
    <3> QED  BY <2>1, <3>2, <3>3 DEF Method
  <2> QED  BY <2>2, <2>3
<1>7. CASE CreateEventGridEventSubscription
  <2> DEFINE reads == {"eventGridTopic", "queue", "dlqStorageAccount",
                      "dlqStorageContainer"}
             sets == {"eventSubscription"}
  <2>1. Calls("createEventGridEventSubscription") /\ Changes(reads, sets)
    BY <1>7, BuildsChanges, StillChanges, DeclaredReads
       DEF CreateEventGridEventSubscription, Creates, Sets, None,
           EventgridSubscription, Resolved
  <2>2. Fits("createEventGridEventSubscription", reads, sets)
    BY <1>7, <2>1, FunctionAppCall
       DEF Fits, FunctionAppRank, FunctionAppLastSet, FunctionAppFields,
           Resolved, Shared, Resolvers, EventHandlerFields
  <2> QED  BY <2>1, <2>2 DEF Method
<1>8. CASE CreateServiceBusDiagnosticLog
  <2> DEFINE reads == {"namespace", "commonLogAnalyticsWorkspace"}
             sets == {}
  <2>1. Calls("createServiceBusDiagnosticLog") /\ Changes(reads, sets)
    BY <1>8, BuildsChanges, StillChanges, DeclaredReads
       DEF CreateServiceBusDiagnosticLog, Creates, Sets, None,
           DiagnosticSettings
  <2>2. Fits("createServiceBusDiagnosticLog", reads, sets)
    BY <1>8, <2>1, FunctionAppCall
       DEF Fits, FunctionAppRank, FunctionAppLastSet, FunctionAppFields,
           Resolved, Shared, Resolvers, EventHandlerFields
  <2> QED  BY <2>1, <2>2 DEF Method
<1>9. CASE CreateEventHandlerSiteConfig
  <2> DEFINE reads == {}
             sets == {"queueName", "connectionString", "connectionGroup"}
  <2>1. Calls("createFunctionAppSiteConfig") /\ Changes(reads, sets)
    BY <1>9, BuildsChanges, StillChanges, DeclaredReads
       DEF CreateEventHandlerSiteConfig, Creates, Sets, None
  <2>2. Fits("createFunctionAppSiteConfig", reads, sets)
    BY <1>9, <2>1, FunctionAppCall
       DEF Fits, FunctionAppRank, FunctionAppLastSet, FunctionAppFields,
           Resolved, Shared, Resolvers, EventHandlerFields,
           CreateEventHandlerSiteConfig, FunctionAppClasses, FieldsOf
  <2> QED  BY <2>1, <2>2 DEF Method
<1> QED  BY <1>1, <1>2, <1>3, <1>4, <1>5, <1>6, <1>7, <1>8, <1>9

LEMMA RestApiFunctionMethod ==
    ASSUME PlanInv,
           CreateFunctionApiManagement \/ CreateFunctionNamespaceSecret \/
           CreateApiManagementNamespace \/ CreateApiManagementRoutes \/
           CreateCorsPolicy \/ CreateApiPolicy
    PROVE  \E m, reads, sets : Method(m, reads, sets)
<1>1. CASE CreateFunctionApiManagement
  <2> DEFINE reads == {"resourceGroup"}
             sets == {"apim", "apiName", "apiGroup"}
  <2>1. /\ ReadsOnly(ApiManagementService(<<>>, {"resourceGroup"}), reads)
        /\ ReadsOnly(When(props.certificateKeyVaultId,
                          RoleAssignment(<<"kv">>, {})), reads)
    BY EachReads, WhenReads, UnionReads
       DEF ApiManagementService, RoleAssignment
  <2>2. Calls("createApiManagement") /\ Changes(reads, sets)
    BY <1>1, <2>1, BuildsChanges, StillChanges, UnionReads, SetsChanges
       DEF CreateFunctionApiManagement, Creates, Sets, None
  <2>3. Fits("createApiManagement", reads, sets)
    <3>1. this.class \in FunctionAppClasses
      BY <1>1 DEF CreateFunctionApiManagement, IsRestApiFunction, FunctionAppClasses
    <3> QED  BY <2>2, <3>1, FunctionAppCall
                DEF Fits, FunctionAppRank, FunctionAppLastSet, Resolved,
                    Resolvers, RestApiFunctionFields, FunctionAppFields
  <2> QED  BY <2>2, <2>3 DEF Method
<1>2. CASE CreateFunctionNamespaceSecret
  <2> DEFINE reads == {"app", "authKeyVault"}
             sets == {"namedValueSecret"}
  <2>1. Calls("createNamespaceSecret") /\ Changes(reads, sets)
    BY <1>2, BuildsChanges, StillChanges, DeclaredReads
       DEF CreateFunctionNamespaceSecret, Creates, Sets, None,
           IsRestApiFunction, KeyVaultSecret
  <2>2. Fits("createNamespaceSecret", reads, sets)
    BY <1>2, <2>1, FunctionAppCall
       DEF Fits, FunctionAppRank, FunctionAppLastSet, FunctionAppFields,
           Resolved, Shared, Resolvers, RestApiFunctionFields,
           FunctionAppClasses, CreateFunctionNamespaceSecret,
           IsRestApiFunction
  <2> QED  BY <2>1, <2>2 DEF Method
<1>3. CASE CreateApiManagementNamespace
  <2> DEFINE reads == {"app", "namedValueSecret", "apiName", "apiGroup"}
             sets == {"namedValue", "backend"}
  <2>1. /\ ReadsOnly(NamedValue(<<"am-nv">>,
             {"app", "namedValueSecret", "apiName", "apiGroup"}), reads)
        /\ ReadsOnly(Backend(<<>>, {"app", "apiName", "apiGroup"}), reads)
    BY EachReads, WhenReads, UnionReads
       DEF NamedValue, Backend
  <2>2. Calls("createApiManagementNamespace") /\ Changes(reads, sets)
    BY <1>3, <2>1, BuildsChanges, StillChanges, UnionReads
       DEF CreateApiManagementNamespace, Creates, Sets, None, Resolved
  <2>3. Fits("createApiManagementNamespace", reads, sets)
    BY <1>3, <2>2, FunctionAppCall
       DEF Fits, FunctionAppRank, FunctionAppLastSet, FunctionAppFields,
           Resolved, Shared, Resolvers, RestApiFunctionFields,
           FunctionAppClasses
  <2> QED  BY <2>2, <2>3 DEF Method
<1>4. CASE CreateApiManagementRoutes
  <2> DEFINE reads == {"apiName", "apiGroup"}
             sets == {"managementApi", "apiOperations"}
             operations == UNION {CreateApiOperation(o)
                                    \union CreateApiOperationCachePolicy(o) :
                                    o \in Operations}
  <2>1. ReadsOnly(Api(<<"apim-api">>, reads) \union operations, reads)
    <3>1. \A o : /\ ReadsOnly(CreateApiOperation(o), reads)
                 /\ ReadsOnly(CreateApiOperationCachePolicy(o), reads)
      BY EachReads, WhenReads DEF CreateApiOperation, Operation,
         CreateApiOperationCachePolicy, OperationPolicy
    <3>2. ReadsOnly(operations, reads)
      BY <3>1 DEF ReadsOnly
    <3>3. ReadsOnly(Api(<<"apim-api">>, reads), reads)
      BY EachReads DEF Api
    <3> QED  BY <3>2, <3>3, UnionReads
  <2>2. Calls("createApiManagementRoutes") /\ Changes(reads, sets)
    <3>1. Calls("createApiManagementRoutes")
      BY <1>4 DEF CreateApiManagementRoutes
    <3>2. CASE OperationsClash
      BY <1>4, <3>1, <3>2, StillChanges DEF CreateApiManagementRoutes
    <3>3. CASE ~OperationsClash
      <4>1. Builds(reads, Api(<<"apim-api">>, reads) \union operations,
                   [managementApi |-> "created", apiOperations |-> LastOfEachName])
        BY <1>4, <3>3 DEF CreateApiManagementRoutes, Creates
      <4>2. reads \cap Resolved = {}
        BY DEF Resolved
      <4> HIDE DEF operations, reads
      <4>3. DOMAIN [managementApi |-> "created", apiOperations |-> LastOfEachName]
              \subseteq sets
        OBVIOUS
      <4> HIDE DEF sets
      <4>4. Changes(reads, sets)
        BY <2>1, <4>1, <4>2, <4>3, BuildsChanges
      <4> QED  BY <3>1, <4>4
    <3> QED  BY <3>2, <3>3
  <2>3. Fits("createApiManagementRoutes", reads, sets)
    BY <1>4, <2>2, FunctionAppCall
       DEF Fits, FunctionAppRank, FunctionAppLastSet, FunctionAppFields,
           Resolved, Shared, Resolvers, RestApiFunctionFields,
           FunctionAppClasses
  <2> QED  BY <2>2, <2>3 DEF Method
<1>5. CASE CreateCorsPolicy
  <2> DEFINE reads == {}
             sets == {"corsPolicy"}
  <2>1. Calls("createCorsPolicy") /\ Changes(reads, sets)
    BY <1>5, BuildsChanges, StillChanges, DeclaredReads
       DEF CreateCorsPolicy, Creates, Sets, None
  <2>2. Fits("createCorsPolicy", reads, sets)
    BY <1>5, <2>1, FunctionAppCall
       DEF Fits, FunctionAppRank, FunctionAppLastSet, FunctionAppFields,
           Resolved, Shared, Resolvers, RestApiFunctionFields,
           FunctionAppClasses
  <2> QED  BY <2>1, <2>2 DEF Method
<1>6. CASE CreateApiPolicy
  <2> DEFINE reads == {"corsPolicy", "backend", "apiName", "apiGroup"}
             sets == {}
  <2>1. Calls("createApiPolicy") /\ Changes(reads, sets)
    BY <1>6, BuildsChanges, StillChanges, DeclaredReads
       DEF CreateApiPolicy, Creates, Sets, None, ApiPolicy, Resolved
  <2>2. Fits("createApiPolicy", reads, sets)
    BY <1>6, <2>1, FunctionAppCall
       DEF Fits, FunctionAppRank, FunctionAppLastSet, FunctionAppFields,
           Resolved, Shared, Resolvers, RestApiFunctionFields,
           FunctionAppClasses
  <2> QED  BY <2>1, <2>2 DEF Method
<1> QED  BY <1>1, <1>2, <1>3, <1>4, <1>5, <1>6

LEMMA AppItselfIsAMethod ==
    ASSUME PlanInv, CreateFunctionApp \/ CreateFunctionCodePackage
                      \/ CreateDashboard
    PROVE  \E m, reads, sets : Method(m, reads, sets)
<1>1. CASE CreateFunctionApp
  <2> DEFINE reads == DOMAIN fields[this.id] \cap
                        {"appServicePlan", "appStorageAccount",
                         "deploymentContainer", "applicationInsights",
                         "storageAccountName", "queueName", "connectionString"}
             sets == {"app"}
  <2>1. ReadsOnly(FunctionAppFlexConsumption(<<"function-app-flex">>, reads), reads)
    <3> HIDE DEF reads
    <3>1. /\ ReadsOnly(Suffixed(<<"function-app-flex">>, "fc", reads), reads)
          /\ ReadsOnly(Suffixed(<<"function-app-flex">>, "depl", reads), reads)
      BY DeclaredReads
    <3> QED  BY <3>1, UnionReads DEF FunctionAppFlexConsumption
  <2>2. Calls("createFunctionApp") /\ Changes(reads, sets)
    BY <1>1, <2>1, BuildsChanges DEF CreateFunctionApp, Creates, Resolved
  <2>3. DOMAIN fields[this.id] = FieldsOf[this.class]
    BY ThisIs
  <2>4. Fits("createFunctionApp", reads, sets)
    BY <1>1, <2>2, <2>3, FunctionAppCall
       DEF Fits, FunctionAppRank, FunctionAppLastSet, FunctionAppFields,
           Resolved, Shared, Resolvers
  <2> QED  BY <2>2, <2>4 DEF Method
<1>2. CASE CreateFunctionCodePackage
  <2> DEFINE reads == {}
             sets == {"codeArchive"}
  <2>1. Calls("createCodePackage") /\ Changes(reads, sets)
    BY <1>2, SetsChanges DEF CreateFunctionCodePackage, CreateCodePackage
  <2>2. this.class \in FunctionAppClasses
    <3>1. /\ "createCodePackage" \in DOMAIN RankOf(this.class)
          /\ this.class \in DOMAIN Methods
      BY <2>1, ThisIs, WhenCalled DEF Rank
    <3>2. "createCodePackage" \notin DOMAIN RestApiRank \cup DOMAIN LoadTestingRank
                                       \cup DOMAIN PagesRank \cup DOMAIN WorkerRank
      BY DEF RestApiRank, LoadTestingRank, PagesRank, WorkerRank
    <3> QED  BY <1>2, <3>1, <3>2 DEF RankOf, CreateFunctionCodePackage, IsSite
  <2>3. Fits("createCodePackage", reads, sets)
    BY <2>1, <2>2, FunctionAppCall
       DEF Fits, FunctionAppRank, FunctionAppLastSet, FunctionAppFields,
           Resolved, Resolvers
  <2> QED  BY <2>1, <2>3 DEF Method
<1>3. CASE CreateDashboard
  <2> DEFINE m == "createFunctionDashboard"
             forEvents == IF this.class = "AzureEventHandler"
                            THEN {"namespace", "eventGridTopic"} ELSE {}
             reads == {"app", "resourceGroup", "applicationInsights"} \union forEvents
  <2>1. Calls(m) /\ Changes(reads, {})
    <3>1. CreateFunctionDashboard(reads)
      BY <1>3 DEF CreateDashboard, DashboardNeeds, EventHandlerDashboardNeeds
    <3>2. ReadsOnly(DashBoard(<<"dsh">>, reads), reads)
      BY DeclaredReads DEF DashBoard
    <3> HIDE DEF reads
    <3>3. DOMAIN None = {}
      BY DEF None
    <3> QED  BY <3>1, <3>2, <3>3, BuildsChanges, StillChanges
             DEF CreateFunctionDashboard, Creates
  <2>2. /\ this.class \in FunctionAppClasses
        /\ Rank = FunctionAppRank /\ LastSet = FunctionAppLastSet
        /\ FunctionAppFields \subseteq FieldsOf[this.class]
    <3>1. m \in DOMAIN FunctionAppRank \ Resolvers /\ m \notin Shared
      BY DEF FunctionAppRank, Shared, Resolvers
    <3> QED  BY <2>1, <3>1, FunctionAppCall
  <2>3. this.class = "AzureEventHandler"
          => {"namespace", "eventGridTopic"} \subseteq FieldsOf[this.class]
    BY DEF FieldsOf, EventHandlerFields
  <2>4. Fits(m, reads, {})
    BY <2>2, <2>3 DEF Fits, FunctionAppRank, FunctionAppLastSet,
       FunctionAppFields, Resolved, Resolvers
  <2> QED  BY <2>1, <2>4 DEF Method
<1> QED  BY <1>1, <1>2, <1>3

(* The data account is created later: there is nothing to scan.            *)
LEMMA NothingToScan ==
    ASSUME PlanInv, FieldsInv, EnableMalwareScanningOnDataStorageAccount
    PROVE  \E m, reads, sets : Method(m, reads, sets)
<1> DEFINE m == "enableMalwareScanningOnDataStorageAccount"
<1>1. Calls(m)
  BY DEF EnableMalwareScanningOnDataStorageAccount
<1>2. m \in DOMAIN FunctionAppRank \ Resolvers /\ m \notin Shared
      /\ FunctionAppRank[m] = 12 /\ FunctionAppLastSet["dataStorageAccount"] = 20
      /\ "dataStorageAccount" \notin Resolved
  BY DEF FunctionAppRank, FunctionAppLastSet, Shared, Resolvers, Resolved
<1>3. /\ Rank = FunctionAppRank /\ LastSet = FunctionAppLastSet
      /\ "dataStorageAccount" \in FieldsOf[this.class]
  BY <1>1, <1>2, FunctionAppCall DEF FunctionAppFields
<1>4. m \in Left /\ DOMAIN fields[this.id] = FieldsOf[this.class]
  BY <1>1, WhenCalled, ThisIs
<1>5. ~IsSet("dataStorageAccount")
  <2> SUFFICES ASSUME IsSet("dataStorageAccount") PROVE FALSE
    OBVIOUS
  <2>1. Settled("dataStorageAccount")
    BY <1>3, <1>4 DEF FieldsInv
  <2>2. \A s \in Left \ Resolvers : Rank[s] > LastSet["dataStorageAccount"]
    BY <1>2, <2>1 DEF Settled
  <2>3. Rank[m] > LastSet["dataStorageAccount"]
    BY <1>2, <1>4, <2>2
  <2>4. Rank[m] = 12 /\ LastSet["dataStorageAccount"] = 20
    BY <1>2, <1>3
  <2> QED  BY <2>3, <2>4
<1>6. Changes({}, {})
  BY <1>5, StillChanges DEF EnableMalwareScanningOnDataStorageAccount, Creates,
     Builds, Lacks, Throws
<1>7. Fits(m, {}, {})
  BY <1>2 DEF Fits
<1> QED  BY <1>1, <1>6, <1>7 DEF Method
-----------------------------------------------------------------------------
(* The methods of the other constructs *)

LEMMA RestApiCall ==
    ASSUME PlanInv, NEW m \in DOMAIN RestApiRank \ Resolvers, Calls(m),
           m \notin Shared \/ IsRestApi
    PROVE  /\ this.class \in RestApiClasses /\ m \in DOMAIN Rank
           /\ Rank = RestApiRank /\ LastSet = RestApiLastSet
           /\ FieldsOf[this.class] = RestApiFields
<1>1. /\ this.class \in DOMAIN Methods /\ m \in DOMAIN Rank
  BY ThisIs, WhenCalled
<1>2. this.class \in RestApiClasses
  BY <1>1, FamilyOf DEF Rank, IsRestApi, RestApiClasses
<1>3. Rank = RestApiRank /\ LastSet = RestApiLastSet
  BY <1>2 DEF Rank, RankOf, LastSet, LastSetOf, RestApiClasses, FunctionAppClasses
<1>4. FieldsOf[this.class] = RestApiFields
  BY <1>2 DEF FieldsOf, RestApiClasses
<1> QED  BY <1>1, <1>2, <1>3, <1>4

LEMMA SiteCall ==
    ASSUME PlanInv, NEW m \in DOMAIN SiteRank \ Resolvers, Calls(m),
           m \notin Shared \/ IsSite
    PROVE  /\ m \in DOMAIN Rank /\ Rank = SiteRank /\ LastSet = SiteLastSet
           /\ FieldsOf[this.class] = SiteFields
<1>1. /\ this.class \in DOMAIN Methods /\ m \in DOMAIN Rank
  BY ThisIs, WhenCalled
<1>2. this.class = "AzureSiteWithWebApp"
  BY <1>1, FamilyOf DEF Rank, IsSite
<1>3. Rank = SiteRank /\ LastSet = SiteLastSet /\ FieldsOf[this.class] = SiteFields
  BY <1>2 DEF Rank, RankOf, LastSet, LastSetOf, RestApiClasses,
     FunctionAppClasses, FieldsOf
<1> QED  BY <1>1, <1>3

LEMMA LoadTestingCall ==
    ASSUME PlanInv, NEW m \in DOMAIN LoadTestingRank \ Shared, Calls(m)
    PROVE  /\ m \in DOMAIN Rank
           /\ Rank = LoadTestingRank /\ LastSet = LoadTestingLastSet
           /\ FieldsOf[this.class] = LoadTestingFields
<1>1. /\ this.class \in DOMAIN Methods /\ m \in DOMAIN Rank
  BY ThisIs, WhenCalled
<1>2. this.class = "AzureLoadTesting"
  BY <1>1, FamilyOf DEF Rank
<1>3. /\ Rank = LoadTestingRank /\ LastSet = LoadTestingLastSet
      /\ FieldsOf[this.class] = LoadTestingFields
  BY <1>2 DEF Rank, RankOf, LastSet, LastSetOf, RestApiClasses,
     FunctionAppClasses, FieldsOf
<1> QED  BY <1>1, <1>3

LEMMA PagesCall ==
    ASSUME PlanInv, NEW m \in DOMAIN PagesRank \ Shared, Calls(m)
    PROVE  /\ m \in DOMAIN Rank
           /\ Rank = PagesRank /\ LastSet = PagesLastSet
           /\ FieldsOf[this.class] = PagesFields
<1>1. /\ this.class \in DOMAIN Methods /\ m \in DOMAIN Rank
  BY ThisIs, WhenCalled
<1>2. this.class = "CloudflarePagesStaticSite"
  BY <1>1, FamilyOf DEF Rank
<1>3. /\ Rank = PagesRank /\ LastSet = PagesLastSet
      /\ FieldsOf[this.class] = PagesFields
  BY <1>2 DEF Rank, RankOf, LastSet, LastSetOf, RestApiClasses,
     FunctionAppClasses, FieldsOf
<1> QED  BY <1>1, <1>3

LEMMA WorkerCall ==
    ASSUME PlanInv, NEW m \in DOMAIN WorkerRank \ Shared, Calls(m)
    PROVE  /\ m \in DOMAIN Rank
           /\ Rank = WorkerRank /\ LastSet = WorkerLastSet
           /\ FieldsOf[this.class] = WorkerFields
<1>1. /\ this.class \in DOMAIN Methods /\ m \in DOMAIN Rank
  BY ThisIs, WhenCalled
<1>2. this.class = "CloudflareWorkerSite"
  BY <1>1, FamilyOf DEF Rank
<1>3. /\ Rank = WorkerRank /\ LastSet = WorkerLastSet
      /\ FieldsOf[this.class] = WorkerFields
  BY <1>2 DEF Rank, RankOf, LastSet, LastSetOf, RestApiClasses,
     FunctionAppClasses, FieldsOf
<1> QED  BY <1>1, <1>3

LEMMA RestApiMethod ==
    ASSUME PlanInv,
           CreateApiManagement \/ CreateNamespaceSecretRole \/
           CreateNamespaceSecret \/ CreateSubscriptionKeySecret \/
           CreateApiManagementLogger \/ CreateApiDiagnostic \/
           CreateDiagnosticLog \/ CreateRedisCache \/ CreateRedisCacheSecret
           \/ CreateRedisCacheNamespace \/ CreateRedisCacheApiManagement
    PROVE  \E m, reads, sets : Method(m, reads, sets)
<1>1. CASE CreateApiManagement
  <2> DEFINE reads == {"resourceGroup"}
             sets == {"apim", "apiName", "apiGroup"}
  <2>1. /\ ReadsOnly(ApiManagementService(<<>>, {"resourceGroup"}), reads)
        /\ ReadsOnly(When(props.certificateKeyVaultId,
                          RoleAssignment(<<"kv">>, {})), reads)
    BY EachReads, WhenReads, UnionReads
       DEF ApiManagementService, RoleAssignment
  <2>2. Calls("createApiManagement") /\ Changes(reads, sets)
    BY <1>1, <2>1, BuildsChanges, StillChanges, UnionReads, SetsChanges
       DEF CreateApiManagement, Creates, Sets, None
  <2>3. Fits("createApiManagement", reads, sets)
    BY <1>1, <2>2, RestApiCall
       DEF Fits, RestApiRank, RestApiLastSet, RestApiFields, Resolved, Shared,
           Resolvers, CreateApiManagement
  <2> QED  BY <2>2, <2>3 DEF Method
<1>2. CASE CreateNamespaceSecretRole
  <2> DEFINE reads == {"apim", "authKeyVault"}
             sets == {"namedValueRoleAssignment"}
  <2>1. Calls("createNamespaceSecretRole") /\ Changes(reads, sets)
    BY <1>2, BuildsChanges, StillChanges, DeclaredReads
       DEF CreateNamespaceSecretRole, Creates, Sets, None, IfOwned,
           RoleAssignment
  <2>2. Fits("createNamespaceSecretRole", reads, sets)
    BY <1>2, <2>1, RestApiCall
       DEF Fits, RestApiRank, RestApiLastSet, RestApiFields, Resolved, Shared,
           Resolvers
  <2> QED  BY <2>1, <2>2 DEF Method
<1>3. CASE CreateNamespaceSecret
  <2> DEFINE reads == {"authKeyVault", "applicationInsights"}
             sets == {"namedValueSecret"}
  <2>1. Calls("createNamespaceSecret") /\ Changes(reads, sets)
    BY <1>3, BuildsChanges, StillChanges, DeclaredReads
       DEF CreateNamespaceSecret, Creates, Sets, None, IfOwned, KeyVaultSecret
  <2>2. Fits("createNamespaceSecret", reads, sets)
    BY <1>3, <2>1, RestApiCall
       DEF Fits, RestApiRank, RestApiLastSet, RestApiFields, Resolved, Shared,
           Resolvers, CreateNamespaceSecret
  <2> QED  BY <2>1, <2>2 DEF Method
<1>4. CASE CreateSubscriptionKeySecret
  <2> DEFINE reads == {"apim", "resourceGroup", "authKeyVault"}
             sets == {}
  <2>1. /\ ReadsOnly(Subscription(<<>>, {"apim", "resourceGroup"}), reads)
        /\ ReadsOnly(KeyVaultSecret(
             <<"key-vault-api-subscription-key-secret">>,
             {"apim", "authKeyVault"}), reads)
    BY EachReads, WhenReads, UnionReads
       DEF Subscription, KeyVaultSecret
  <2>2. Calls("createSubscriptionKeySecret") /\ Changes(reads, sets)
    BY <1>4, <2>1, BuildsChanges, StillChanges, UnionReads
       DEF CreateSubscriptionKeySecret, Creates, Sets, None, IfOwned
  <2>3. Fits("createSubscriptionKeySecret", reads, sets)
    BY <1>4, <2>2, RestApiCall
       DEF Fits, RestApiRank, RestApiLastSet, RestApiFields, Resolved, Shared,
           Resolvers
  <2> QED  BY <2>2, <2>3 DEF Method
<1>5. CASE CreateApiManagementLogger
  <2> DEFINE reads == {"apim", "namedValueSecret", "applicationInsights"}
             sets == {"logger"}
  <2>1. /\ ReadsOnly(NamedValue(<<"am-nv">>, {"apim", "namedValueSecret"}), reads)
        /\ ReadsOnly(Logger(<<"am-logger">>, {"apim", "applicationInsights"}), reads)
    BY EachReads, WhenReads, UnionReads
       DEF NamedValue, Logger
  <2>2. Calls("createApiManagementLogger") /\ Changes(reads, sets)
    BY <1>5, <2>1, BuildsChanges, StillChanges, UnionReads
       DEF CreateApiManagementLogger, Creates, Sets, None, Resolved
  <2>3. Fits("createApiManagementLogger", reads, sets)
    BY <1>5, <2>2, RestApiCall
       DEF Fits, RestApiRank, RestApiLastSet, RestApiFields, Resolved, Shared,
           Resolvers
  <2> QED  BY <2>2, <2>3 DEF Method
<1>6. CASE CreateApiDiagnostic
  <2> DEFINE reads == {"apim", "logger"}
             sets == {}
  <2>1. /\ ReadsOnly(When(props.diagnosticAppInsights,
             ApiDiagnostic(<<"all-apis-app-insights">>, {"apim", "logger"})), reads)
        /\ ReadsOnly(When(props.diagnosticAzMonitor,
             ApiDiagnostic(<<"all-apis-az-monitor">>, {"apim"})), reads)
    BY EachReads, WhenReads, UnionReads
       DEF ApiDiagnostic
  <2>2. Calls("createApiDiagnostic") /\ Changes(reads, sets)
    BY <1>6, <2>1, BuildsChanges, StillChanges, UnionReads
       DEF CreateApiDiagnostic, Creates, Sets, None, IfOwned, Resolved
  <2>3. Fits("createApiDiagnostic", reads, sets)
    BY <1>6, <2>2, RestApiCall
       DEF Fits, RestApiRank, RestApiLastSet, RestApiFields, Resolved, Shared,
           Resolvers
  <2> QED  BY <2>2, <2>3 DEF Method
<1>7. CASE CreateDiagnosticLog
  <2> DEFINE reads == {"apim", "commonLogAnalyticsWorkspace"}
             sets == {}
  <2>1. Calls("createDiagnosticLog") /\ Changes(reads, sets)
    BY <1>7, BuildsChanges, StillChanges, DeclaredReads
       DEF CreateDiagnosticLog, Creates, Sets, None, IfOwned,
           DiagnosticSettings
  <2>2. Fits("createDiagnosticLog", reads, sets)
    BY <1>7, <2>1, RestApiCall
       DEF Fits, RestApiRank, RestApiLastSet, RestApiFields, Resolved, Shared,
           Resolvers, CreateDiagnosticLog
  <2> QED  BY <2>1, <2>2 DEF Method
<1>8. CASE CreateRedisCache
  <2> DEFINE reads == {"resourceGroup"}
             sets == {"redisCluster", "redisDatabase"}
  <2>1. /\ ReadsOnly(ManagedRedis(<<>>, {"resourceGroup"}), reads)
    BY EachReads, WhenReads, UnionReads
       DEF ManagedRedis
  <2>2. Calls("createRedisCache") /\ Changes(reads, sets)
    BY <1>8, <2>1, BuildsChanges, StillChanges
       DEF CreateRedisCache, Creates, Sets, None
  <2>3. Fits("createRedisCache", reads, sets)
    BY <1>8, <2>2, RestApiCall
       DEF Fits, RestApiRank, RestApiLastSet, RestApiFields, Resolved, Shared,
           Resolvers
  <2> QED  BY <2>2, <2>3 DEF Method
<1>9. CASE CreateRedisCacheSecret
  <2> DEFINE reads == {"redisCluster", "redisDatabase", "authKeyVault",
                      "namedValueRoleAssignment"}
             sets == {"redisNamedValueSecret"}
  <2>1. Calls("createRedisCacheSecret") /\ Changes(reads, sets)
    BY <1>9, BuildsChanges, StillChanges, DeclaredReads
       DEF CreateRedisCacheSecret, Creates, Sets, None, KeyVaultSecret,
           Resolved
  <2>2. Fits("createRedisCacheSecret", reads, sets)
    BY <1>9, <2>1, RestApiCall
       DEF Fits, RestApiRank, RestApiLastSet, RestApiFields, Resolved, Shared,
           Resolvers
  <2> QED  BY <2>1, <2>2 DEF Method
<1>10. CASE CreateRedisCacheNamespace
  <2> DEFINE reads == {"apim", "redisNamedValueSecret"}
             sets == {"redisNamedValue"}
  <2>1. Calls("createRedisCacheNamespace") /\ Changes(reads, sets)
    BY <1>10, BuildsChanges, StillChanges, DeclaredReads
       DEF CreateRedisCacheNamespace, Creates, Sets, None, NamedValue
  <2>2. Fits("createRedisCacheNamespace", reads, sets)
    BY <1>10, <2>1, RestApiCall
       DEF Fits, RestApiRank, RestApiLastSet, RestApiFields, Resolved, Shared,
           Resolvers
  <2> QED  BY <2>1, <2>2 DEF Method
<1>11. CASE CreateRedisCacheApiManagement
  <2> DEFINE reads == {"apim", "redisNamedValue", "redisCluster"}
             sets == {}
  <2>1. Calls("createRedisCacheApiManagement") /\ Changes(reads, sets)
    BY <1>11, BuildsChanges, StillChanges, DeclaredReads
       DEF CreateRedisCacheApiManagement, Creates, Sets, None, Cache
  <2>2. Fits("createRedisCacheApiManagement", reads, sets)
    BY <1>11, <2>1, RestApiCall
       DEF Fits, RestApiRank, RestApiLastSet, RestApiFields, Resolved, Shared,
           Resolvers
  <2> QED  BY <2>1, <2>2 DEF Method
<1> QED  BY <1>1, <1>2, <1>3, <1>4, <1>5, <1>6, <1>7, <1>8, <1>9, <1>10, <1>11

LEMMA SiteMethod ==
    ASSUME PlanInv,
           CreateSiteAppServicePlan \/ CreateSiteStorageAccount \/
           CreateSiteStorageContainer \/ CreateSiteCodePackage \/
           CreateWebAppSiteConfig \/ CreateWebApp \/ CreateSiteDiagnosticLog
    PROVE  \E m, reads, sets : Method(m, reads, sets)
<1>1. CASE CreateSiteAppServicePlan
  <2> DEFINE reads == {"resourceGroup"}
             sets == {"appServicePlan"}
  <2>1. Calls("createSiteAppServicePlan") /\ Changes(reads, sets)
    BY <1>1, BuildsChanges, StillChanges, DeclaredReads
       DEF CreateSiteAppServicePlan, Creates, Sets, None, AppServicePlan
  <2>2. Fits("createSiteAppServicePlan", reads, sets)
    BY <1>1, <2>1, SiteCall
       DEF Fits, SiteRank, SiteLastSet, SiteFields, Resolved, Shared,
           Resolvers
  <2> QED  BY <2>1, <2>2 DEF Method
<1>2. CASE CreateSiteStorageAccount
  <2> DEFINE reads == {"resourceGroup"}
             sets == {"storageAccount"}
  <2>1. Calls("createSiteStorageAccount") /\ Changes(reads, sets)
    BY <1>2, BuildsChanges, StillChanges, DeclaredReads, StorageAccountReads
       DEF CreateSiteStorageAccount, Creates, Sets, None
  <2>2. Fits("createSiteStorageAccount", reads, sets)
    BY <1>2, <2>1, SiteCall
       DEF Fits, SiteRank, SiteLastSet, SiteFields, Resolved, Shared,
           Resolvers
  <2> QED  BY <2>1, <2>2 DEF Method
<1>3. CASE CreateSiteStorageContainer
  <2> DEFINE reads == {"storageAccount", "resourceGroup"}
             sets == {"storageContainer"}
  <2>1. Calls("createSiteStorageContainer") /\ Changes(reads, sets)
    BY <1>3, BuildsChanges, StillChanges, DeclaredReads
       DEF CreateSiteStorageContainer, Creates, Sets, None, StorageContainer
  <2>2. Fits("createSiteStorageContainer", reads, sets)
    BY <1>3, <2>1, SiteCall
       DEF Fits, SiteRank, SiteLastSet, SiteFields, Resolved, Shared,
           Resolvers
  <2> QED  BY <2>1, <2>2 DEF Method
<1>4. CASE CreateSiteCodePackage
  <2> DEFINE reads == {}
             sets == {"codeArchive"}
  <2>1. Calls("createCodePackage") /\ Changes(reads, sets)
    BY <1>4, BuildsChanges, StillChanges, DeclaredReads, SetsChanges
       DEF CreateSiteCodePackage, Creates, Sets, None
  <2>2. Fits("createCodePackage", reads, sets)
    BY <1>4, <2>1, SiteCall
       DEF Fits, SiteRank, SiteLastSet, SiteFields, Resolved, Shared,
           Resolvers, CreateSiteCodePackage
  <2> QED  BY <2>1, <2>2 DEF Method
<1>5. CASE CreateWebAppSiteConfig
  <2> DEFINE reads == {}
             sets == {"environmentVariables"}
  <2>1. Calls("createWebAppSiteConfig") /\ Changes(reads, sets)
    BY <1>5, BuildsChanges, StillChanges, DeclaredReads
       DEF CreateWebAppSiteConfig, Creates, Sets, None
  <2>2. Fits("createWebAppSiteConfig", reads, sets)
    BY <1>5, <2>1, SiteCall
       DEF Fits, SiteRank, SiteLastSet, SiteFields, Resolved, Shared,
           Resolvers
  <2> QED  BY <2>1, <2>2 DEF Method
<1>6. CASE CreateWebApp
  <2> DEFINE reads == {"appServicePlan", "environmentVariables"}
             sets == {"webApp", "appSettings"}
  <2>1. Calls("createWebApp") /\ Changes(reads, sets)
    BY <1>6, BuildsChanges, StillChanges, DeclaredReads
       DEF CreateWebApp, Creates, Sets, None, LinuxWebApp, Resolved
  <2>2. Fits("createWebApp", reads, sets)
    BY <1>6, <2>1, SiteCall
       DEF Fits, SiteRank, SiteLastSet, SiteFields, Resolved, Shared,
           Resolvers
  <2> QED  BY <2>1, <2>2 DEF Method
<1>7. CASE CreateSiteDiagnosticLog
  <2> DEFINE reads == {"webApp", "commonLogAnalyticsWorkspace"}
             sets == {}
  <2>1. Calls("createDiagnosticLog") /\ Changes(reads, sets)
    BY <1>7, BuildsChanges, StillChanges, DeclaredReads
       DEF CreateSiteDiagnosticLog, Creates, Sets, None, DiagnosticSettings
  <2>2. Fits("createDiagnosticLog", reads, sets)
    BY <1>7, <2>1, SiteCall
       DEF Fits, SiteRank, SiteLastSet, SiteFields, Resolved, Shared,
           Resolvers, CreateSiteDiagnosticLog
  <2> QED  BY <2>1, <2>2 DEF Method
<1> QED  BY <1>1, <1>2, <1>3, <1>4, <1>5, <1>6, <1>7

LEMMA LoadTestingMethod ==
    ASSUME PlanInv,
           CreateVirtualNetwork \/ CreatePublicIp \/ CreateNatGateway \/
           CreateSubnet \/ CreateLoadTest \/ DeployLoadTests
    PROVE  \E m, reads, sets : Method(m, reads, sets)
<1>1. CASE CreateVirtualNetwork
  <2> DEFINE reads == {"resourceGroup"}
             sets == {"virtualNetwork"}
  <2>1. Calls("createVirtualNetwork") /\ Changes(reads, sets)
    BY <1>1, BuildsChanges, StillChanges, DeclaredReads
       DEF CreateVirtualNetwork, Creates, Sets, None, VirtualNetwork
  <2>2. Fits("createVirtualNetwork", reads, sets)
    BY <1>1, <2>1, LoadTestingCall
       DEF Fits, LoadTestingRank, LoadTestingLastSet, LoadTestingFields,
           Resolved, Shared, Resolvers
  <2> QED  BY <2>1, <2>2 DEF Method
<1>2. CASE CreatePublicIp
  <2> DEFINE reads == {"resourceGroup"}
             sets == {"publicIp"}
  <2>1. Calls("createPublicIp") /\ Changes(reads, sets)
    BY <1>2, BuildsChanges, StillChanges, DeclaredReads
       DEF CreatePublicIp, Creates, Sets, None, PublicIPAddress
  <2>2. Fits("createPublicIp", reads, sets)
    BY <1>2, <2>1, LoadTestingCall
       DEF Fits, LoadTestingRank, LoadTestingLastSet, LoadTestingFields,
           Resolved, Shared, Resolvers
  <2> QED  BY <2>1, <2>2 DEF Method
<1>3. CASE CreateNatGateway
  <2> DEFINE reads == {"publicIp"}
             sets == {"natGateway"}
  <2>1. Calls("createNatGateway") /\ Changes(reads, sets)
    BY <1>3, BuildsChanges, StillChanges, DeclaredReads
       DEF CreateNatGateway, Creates, Sets, None, NatGateway
  <2>2. Fits("createNatGateway", reads, sets)
    BY <1>3, <2>1, LoadTestingCall
       DEF Fits, LoadTestingRank, LoadTestingLastSet, LoadTestingFields,
           Resolved, Shared, Resolvers
  <2> QED  BY <2>1, <2>2 DEF Method
<1>4. CASE CreateSubnet
  <2> DEFINE reads == {"virtualNetwork", "natGateway"}
             sets == {"subnet"}
  <2>1. Calls("createSubnet") /\ Changes(reads, sets)
    BY <1>4, BuildsChanges, StillChanges, DeclaredReads
       DEF CreateSubnet, Creates, Sets, None, Subnet
  <2>2. Fits("createSubnet", reads, sets)
    BY <1>4, <2>1, LoadTestingCall
       DEF Fits, LoadTestingRank, LoadTestingLastSet, LoadTestingFields,
           Resolved, Shared, Resolvers
  <2> QED  BY <2>1, <2>2 DEF Method
<1>5. CASE CreateLoadTest
  <2> DEFINE reads == {"resourceGroup"}
             sets == {"loadTest"}
  <2>1. Calls("createLoadTest") /\ Changes(reads, sets)
    BY <1>5, BuildsChanges, StillChanges, DeclaredReads
       DEF CreateLoadTest, Creates, Sets, None, LoadTest
  <2>2. Fits("createLoadTest", reads, sets)
    BY <1>5, <2>1, LoadTestingCall
       DEF Fits, LoadTestingRank, LoadTestingLastSet, LoadTestingFields,
           Resolved, Shared, Resolvers
  <2> QED  BY <2>1, <2>2 DEF Method
<1>6. CASE DeployLoadTests
  <2> DEFINE reads == {"loadTest", "subnet"}
             sets == {}
             tests == UNION {Suffixed(<<"deploy", test>>, "command", reads) :
                               test \in props.loadTests}
  <2>1. Calls("deployLoadTests") /\ Changes(reads, sets)
    <3>1. ReadsOnly(tests, reads)
      <4> HIDE DEF reads
      <4>1. \A test : ReadsOnly(Suffixed(<<"deploy", test>>, "command", reads), reads)
        BY DeclaredReads
      <4> QED  BY <4>1 DEF ReadsOnly
    <3>2. PICK needs : Builds(needs, tests, None)
      BY <1>6 DEF DeployLoadTests, Creates
    <3>3. reads \cap Resolved \subseteq needs /\ DOMAIN None \subseteq sets
      BY DEF Resolved, None
    <3> HIDE DEF reads, sets, tests
    <3> QED  BY <1>6, <3>1, <3>2, <3>3, BuildsChanges DEF DeployLoadTests
  <2>2. Fits("deployLoadTests", reads, sets)
    BY <1>6, <2>1, LoadTestingCall
       DEF Fits, LoadTestingRank, LoadTestingLastSet, LoadTestingFields,
           Resolved, Shared, Resolvers
  <2> QED  BY <2>1, <2>2 DEF Method
<1> QED  BY <1>1, <1>2, <1>3, <1>4, <1>5, <1>6

LEMMA PagesMethod ==
    ASSUME PlanInv,
           ResolveSecrets \/ ResolveEnvironmentVariables \/ CreateProject \/
           CreateDomain \/ CreateRecord \/ DeploySite
    PROVE  \E m, reads, sets : Method(m, reads, sets)
<1>1. CASE ResolveSecrets
  <2> DEFINE reads == {}
             sets == {"deploymentConfigs"}
  <2>1. Calls("resolveSecrets") /\ Changes(reads, sets)
    BY <1>1, BuildsChanges, StillChanges, DeclaredReads
       DEF ResolveSecrets, Creates, Sets, None, DeploymentConfigs
  <2>2. Fits("resolveSecrets", reads, sets)
    BY <1>1, <2>1, PagesCall
       DEF Fits, PagesRank, PagesLastSet, PagesFields, Resolved, Shared,
           Resolvers
  <2> QED  BY <2>1, <2>2 DEF Method
<1>2. CASE ResolveEnvironmentVariables
  <2> DEFINE reads == {}
             sets == {"deploymentConfigs"}
  <2>1. Calls("resolveEnvironmentVariables") /\ Changes(reads, sets)
    BY <1>2, BuildsChanges, StillChanges, DeclaredReads
       DEF ResolveEnvironmentVariables, Creates, Sets, None, DeploymentConfigs
  <2>2. Fits("resolveEnvironmentVariables", reads, sets)
    BY <1>2, <2>1, PagesCall
       DEF Fits, PagesRank, PagesLastSet, PagesFields, Resolved, Shared,
           Resolvers
  <2> QED  BY <2>1, <2>2 DEF Method
<1>3. CASE CreateProject
  <2> DEFINE reads == {"deploymentConfigs"}
             sets == {"sitePagesProject"}
  <2>1. Calls("createProject") /\ Changes(reads, sets)
    BY <1>3, BuildsChanges, StillChanges, DeclaredReads
       DEF CreateProject, Creates, Sets, None, PagesProject, Resolved
  <2>2. Fits("createProject", reads, sets)
    BY <1>3, <2>1, PagesCall
       DEF Fits, PagesRank, PagesLastSet, PagesFields, Resolved, Shared,
           Resolvers
  <2> QED  BY <2>1, <2>2 DEF Method
<1>4. CASE CreateDomain
  <2> DEFINE reads == {"sitePagesProject"}
             sets == {"sitePagesDomain"}
  <2>1. Calls("createDomain") /\ Changes(reads, sets)
    BY <1>4, BuildsChanges, StillChanges, DeclaredReads
       DEF CreateDomain, Creates, Sets, None, PagesDomain
  <2>2. Fits("createDomain", reads, sets)
    BY <1>4, <2>1, PagesCall
       DEF Fits, PagesRank, PagesLastSet, PagesFields, Resolved, Shared,
           Resolvers
  <2> QED  BY <2>1, <2>2 DEF Method
<1>5. CASE CreateRecord
  <2> DEFINE reads == {"sitePagesProject"}
             sets == {"sitePagesCnameRecord"}
  <2>1. Calls("createRecord") /\ Changes(reads, sets)
    BY <1>5, BuildsChanges, StillChanges, DeclaredReads
       DEF CreateRecord, Creates, Sets, None, Record
  <2>2. Fits("createRecord", reads, sets)
    BY <1>5, <2>1, PagesCall
       DEF Fits, PagesRank, PagesLastSet, PagesFields, Resolved, Shared,
           Resolvers
  <2> QED  BY <2>1, <2>2 DEF Method
<1>6. CASE DeploySite
  <2> DEFINE reads == {"sitePagesProject"}
             sets == {}
  <2>1. Calls("deploySite") /\ Changes(reads, sets)
    BY <1>6, BuildsChanges, StillChanges, DeclaredReads
       DEF DeploySite, Creates, Sets, None, PagesDeployment
  <2>2. Fits("deploySite", reads, sets)
    BY <1>6, <2>1, PagesCall
       DEF Fits, PagesRank, PagesLastSet, PagesFields, Resolved, Shared,
           Resolvers
  <2> QED  BY <2>1, <2>2 DEF Method
<1> QED  BY <1>1, <1>2, <1>3, <1>4, <1>5, <1>6

LEMMA WorkerMethod ==
    ASSUME PlanInv,
           ResolveWorkerEnvironmentVariables \/ CreateWorker \/
           CreateWorkerDomain \/ CreateRuleset \/ CreateZoneSetting
    PROVE  \E m, reads, sets : Method(m, reads, sets)
<1>1. CASE ResolveWorkerEnvironmentVariables
  <2> DEFINE reads == {}
             sets == {"bindings"}
  <2>1. Calls("resolveWorkerEnvironmentVariables") /\ Changes(reads, sets)
    BY <1>1, BuildsChanges, StillChanges, DeclaredReads
       DEF ResolveWorkerEnvironmentVariables, Creates, Sets, None
  <2>2. Fits("resolveWorkerEnvironmentVariables", reads, sets)
    BY <1>1, <2>1, WorkerCall
       DEF Fits, WorkerRank, WorkerLastSet, WorkerFields, Resolved, Shared,
           Resolvers
  <2> QED  BY <2>1, <2>2 DEF Method
<1>2. CASE CreateWorker
  <2> DEFINE reads == {"bindings"}
             sets == {"siteWorkerScript"}
  <2>1. Calls("createWorker") /\ Changes(reads, sets)
    <3>1. ReadsOnly(WorkerScript(reads), reads)
      <4>1. \A route : ReadsOnly(WorkerRoute(route), reads)
        BY DEF WorkerRoute, ReadsOnly, IsNew, Resource
      <4>2. ReadsOnly(UNION {WorkerRoute(r) : r \in props.routes}, reads)
        BY <4>1 DEF ReadsOnly
      <4>3. ReadsOnly(Child("worker-script", reads), reads)
        BY DeclaredReads
      <4> QED  BY <4>2, <4>3, UnionReads DEF WorkerScript
    <3>2. reads \cap Resolved = {}
      BY DEF Resolved
    <3> QED  BY <1>2, <3>1, <3>2, BuildsChanges DEF CreateWorker, Creates
  <2>2. Fits("createWorker", reads, sets)
    BY <1>2, <2>1, WorkerCall
       DEF Fits, WorkerRank, WorkerLastSet, WorkerFields, Resolved, Shared,
           Resolvers
  <2> QED  BY <2>1, <2>2 DEF Method
<1>3. CASE CreateWorkerDomain
  <2> DEFINE reads == {"siteWorkerScript"}
             sets == {"siteWorkerDomain"}
  <2>1. Calls("createWorkerDomain") /\ Changes(reads, sets)
    BY <1>3, BuildsChanges, StillChanges, DeclaredReads
       DEF CreateWorkerDomain, Creates, Sets, None, WorkerDomain
  <2>2. Fits("createWorkerDomain", reads, sets)
    BY <1>3, <2>1, WorkerCall
       DEF Fits, WorkerRank, WorkerLastSet, WorkerFields, Resolved, Shared,
           Resolvers
  <2> QED  BY <2>1, <2>2 DEF Method
<1>4. CASE CreateRuleset
  <2> DEFINE reads == {}
             sets == {"siteRuleSet"}
  <2>1. Calls("createRuleset") /\ Changes(reads, sets)
    BY <1>4, BuildsChanges, StillChanges, DeclaredReads
       DEF CreateRuleset, Creates, Sets, None, RuleSet
  <2>2. Fits("createRuleset", reads, sets)
    BY <1>4, <2>1, WorkerCall
       DEF Fits, WorkerRank, WorkerLastSet, WorkerFields, Resolved, Shared,
           Resolvers
  <2> QED  BY <2>1, <2>2 DEF Method
<1>5. CASE CreateZoneSetting
  <2> DEFINE reads == {}
             sets == {"siteZoneSetting"}
  <2>1. Calls("createZoneSetting") /\ Changes(reads, sets)
    BY <1>5, BuildsChanges, StillChanges, DeclaredReads
       DEF CreateZoneSetting, Creates, Sets, None, ZoneSetting
  <2>2. Fits("createZoneSetting", reads, sets)
    BY <1>5, <2>1, WorkerCall
       DEF Fits, WorkerRank, WorkerLastSet, WorkerFields, Resolved, Shared,
           Resolvers
  <2> QED  BY <2>1, <2>2 DEF Method
<1> QED  BY <1>1, <1>2, <1>3, <1>4, <1>5

(* Two methods that two kinds of constructs have.                          *)
LEMMA SharedMethod ==
    ASSUME PlanInv, ResolveApiKeyVault \/ ResolveZone
    PROVE  \E m, reads, sets : Method(m, reads, sets)
<1>1. this.class \in DOMAIN Methods /\ DOMAIN fields[this.id] = FieldsOf[this.class]
  BY ThisIs
<1>2. CASE ResolveApiKeyVault
  <2> DEFINE m == "resolveApiKeyVault"
  <2>1. Calls(m) /\ Changes({}, {"authKeyVault"})
    BY <1>2, SetsChanges DEF ResolveApiKeyVault
  <2>2. m \in DOMAIN Rank /\ Belongs(this.class, Rank[m])
    BY <2>1, WhenCalled
  <2>3. m \notin DOMAIN SiteRank \cup DOMAIN LoadTestingRank
                   \cup DOMAIN PagesRank \cup DOMAIN WorkerRank
    BY DEF SiteRank, LoadTestingRank, PagesRank, WorkerRank
  <2>4. this.class \in FunctionAppClasses \cup RestApiClasses
    BY <2>2, <2>3 DEF Rank, RankOf
  <2>5. CASE this.class \in FunctionAppClasses
    <3>1. m \in DOMAIN FunctionAppRank \ Resolvers /\ FunctionAppRank[m] = 28
      BY DEF FunctionAppRank, Resolvers
    <3>2. /\ Rank = FunctionAppRank /\ LastSet = FunctionAppLastSet
          /\ FieldsOf[this.class] = RestApiFunctionFields
      BY <2>1, <2>5, <3>1, FunctionAppCall
    <3>3. Fits(m, {}, {"authKeyVault"})
      BY <3>1, <3>2 DEF Fits, FunctionAppLastSet, RestApiFunctionFields, Resolved
    <3> QED  BY <2>1, <3>3 DEF Method
  <2>6. CASE this.class \in RestApiClasses
    <3>1. m \in DOMAIN RestApiRank \ Resolvers /\ RestApiRank[m] = 2
      BY DEF RestApiRank, Resolvers
    <3>2. /\ Rank = RestApiRank /\ LastSet = RestApiLastSet
          /\ FieldsOf[this.class] = RestApiFields
      BY <2>1, <2>6, <3>1, RestApiCall DEF IsRestApi, RestApiClasses
    <3>3. Fits(m, {}, {"authKeyVault"})
      BY <3>1, <3>2 DEF Fits, RestApiLastSet, RestApiFields, Resolved
    <3> QED  BY <2>1, <3>3 DEF Method
  <2> QED  BY <2>4, <2>5, <2>6
<1>3. CASE ResolveZone
  <2> DEFINE m == "resolveZone"
  <2>1. Calls(m) /\ Changes({}, {"siteZone"})
    BY <1>3, BuildsChanges, SetsChanges, StillChanges, DeclaredReads
       DEF ResolveZone, Creates, Zone
  <2>2. m \in DOMAIN Rank
    BY <2>1, WhenCalled
  <2>3. m \notin DOMAIN SiteRank \cup DOMAIN LoadTestingRank
                   \cup DOMAIN FunctionAppRank \cup DOMAIN RestApiRank
    BY DEF SiteRank, LoadTestingRank, FunctionAppRank, RestApiRank
  <2>4. this.class \in {"CloudflarePagesStaticSite", "CloudflareWorkerSite"}
    BY <1>1, <2>2, <2>3, ClassesAre
       DEF Rank, RankOf, FunctionAppClasses, RestApiClasses
  <2>5. /\ m \in DOMAIN PagesRank /\ PagesRank[m] = 1
        /\ m \in DOMAIN WorkerRank /\ WorkerRank[m] = 1 /\ m \notin Resolvers
    BY DEF PagesRank, WorkerRank, Resolvers
  <2>6. \/ /\ Rank = PagesRank /\ LastSet = PagesLastSet
           /\ FieldsOf[this.class] = PagesFields
        \/ /\ Rank = WorkerRank /\ LastSet = WorkerLastSet
           /\ FieldsOf[this.class] = WorkerFields
    BY <2>4 DEF Rank, RankOf, LastSet, LastSetOf, RestApiClasses,
       FunctionAppClasses, FieldsOf
  <2>7. Fits(m, {}, {"siteZone"})
    BY <2>5, <2>6 DEF Fits, PagesLastSet, WorkerLastSet, PagesFields,
       WorkerFields, Resolved
  <2> QED  BY <2>1, <2>7 DEF Method
<1> QED  BY <1>2, <1>3
-----------------------------------------------------------------------------
(* The methods that are called twice set nothing that anybody has read.    *)
Resolves(f) ==
    /\ Changes({}, {f})
    /\ f \in DOMAIN fields[this.id] =>
         \/ fields'[this.id][f] = Field(f)
         \/ ~IsSet(f) /\ (f # "resourceGroup" => fields'[this.id][f] = "existing")

LEMMA ResolverResolves ==
    ASSUME PlanInv, FieldsInv,
           \/ CreateResourceGroup \/ ResolveCommonLogAnalyticsWorkspace
           \/ ResolveApplicationInsights
    PROVE  \E m \in Resolvers, f \in Resolved : Calls(m) /\ Resolves(f)
<1>1. this.id \in DOMAIN fields
  BY ThisIs
<1>2. CASE CreateResourceGroup
  <2> DEFINE f == "resourceGroup"
  <2>1. Calls("createResourceGroup")
    BY <1>2 DEF CreateResourceGroup
  <2>2. CASE IsSet(f)
    <3>1. Returns
      BY <1>2, <2>2 DEF CreateResourceGroup
    <3> QED  BY <2>1, <3>1, StillChanges
                DEF Returns, Resolves, Resolvers, Resolved, Field
  <2>3. CASE ~IsSet(f)
    <3>1. Changes({}, {f})
      BY <1>2, <2>3, BuildsChanges, DeclaredReads
         DEF CreateResourceGroup, Creates, ResourceGroup
    <3> QED  BY <2>1, <2>3, <3>1 DEF Resolves, Resolvers, Resolved
  <2> QED  BY <2>2, <2>3
<1>3. ASSUME NEW m \in Resolvers,
             NEW f \in {"commonLogAnalyticsWorkspace", "applicationInsights"},
             Calls(m), Returns \/ (\E values : /\ Sets(values)
                                               /\ DOMAIN values = {f}
                                               /\ values[f] = "existing")
      PROVE  \E k \in Resolvers, g \in Resolved : Calls(k) /\ Resolves(g)
  <2>1. f \in Resolved
    BY DEF Resolved
  <2>2. CASE Returns
    BY <1>3, <2>1, <2>2, StillChanges DEF Returns, Resolves, Field
  <2>3. ASSUME NEW values, Sets(values), DOMAIN values = {f}, values[f] = "existing"
        PROVE  Resolves(f)
    <3>1. Changes({}, {f})
      BY <2>3, SetsChanges
    <3>2. fields' = fields \/ fields' = With(values)
      BY <2>3 DEF Sets, Creates, Builds
    <3>3. f \in DOMAIN fields[this.id] =>
            fields'[this.id][f] = Field(f) \/ fields'[this.id][f] = "existing"
      BY <1>1, <2>3, <3>2 DEF With, Field
    <3>4. f \in DOMAIN fields[this.id] => Field(f) \in {NotSet, "existing"}
      BY DEF FieldsInv
    <3> QED  BY <3>1, <3>3, <3>4 DEF Resolves, IsSet
  <2> QED  BY <1>3, <2>1, <2>2, <2>3
<1>4. CASE ResolveCommonLogAnalyticsWorkspace
  <2>1. /\ Calls("resolveCommonLogAnalyticsWorkspace")
        /\ Returns \/ Sets([commonLogAnalyticsWorkspace |-> "existing"])
        /\ "resolveCommonLogAnalyticsWorkspace" \in Resolvers
    BY <1>4 DEF ResolveCommonLogAnalyticsWorkspace, Resolvers
  <2> QED  BY <1>3, <2>1
<1>5. CASE ResolveApplicationInsights
  <2>1. /\ Calls("resolveApplicationInsights")
        /\ Returns \/ Sets([applicationInsights |-> "existing"])
        /\ "resolveApplicationInsights" \in Resolvers
    BY <1>5 DEF ResolveApplicationInsights, Resolvers
  <2> QED  BY <1>3, <2>1
<1> QED  BY <1>2, <1>4, <1>5

LEMMA ResolverKeeps ==
    ASSUME PlanInv, FieldsInv, TemplateInv,
           NEW m \in Resolvers, NEW g \in Resolved, Calls(m), Resolves(g)
    PROVE  PlanInv' /\ FieldsInv' /\ TemplateInv'
<1>1. /\ Changes({}, {g}) /\ plan' = plan /\ Left' \subseteq Left
  BY WhenCalled DEF Resolves
<1>2. this' = this /\ Rank' = Rank /\ LastSet' = LastSet
  BY <1>1 DEF this, Rank, LastSet
<1>3. this = plan[1] /\ this.id \in DOMAIN fields /\ 1 \in DOMAIN plan
      /\ DOMAIN fields[this.id] = FieldsOf[this.class]
  BY ThisIs
<1>4. PlanInv'
  BY <1>1, CallKeepsPlan DEF Changes
<1>5. ASSUME NEW f \in DOMAIN fields[this.id], Settled(f)
      PROVE  fields'[this.id][f] = Field(f) /\ Settled(f)'
  <2>1. CASE f \in Resolved
    <3>1. IsSet(f)
      BY <1>5, <2>1 DEF Settled
    <3>2. fields'[this.id][f] = Field(f)
      BY <1>1, <3>1 DEF Resolves, Changes
    <3> QED  BY <1>2, <2>1, <3>1, <3>2 DEF Settled, IsSet, Field
  <2>2. CASE f \notin Resolved
    BY <1>1, <1>2, <1>5, <2>2 DEF Settled, Changes
  <2> QED  BY <2>1, <2>2
<1>6. FieldsInv'
  <2>1. \A id \in DOMAIN fields' : \E class \in DOMAIN FieldsOf :
           DOMAIN fields'[id] = FieldsOf[class]
    BY <1>1 DEF FieldsInv, Changes
  <2>2. \A f \in {"commonLogAnalyticsWorkspace", "applicationInsights"} :
           f \in DOMAIN fields'[this.id] => fields'[this.id][f] \in {NotSet, "existing"}
    <3> SUFFICES ASSUME NEW f \in {"commonLogAnalyticsWorkspace", "applicationInsights"},
                        f \in DOMAIN fields[this.id]
                 PROVE  fields'[this.id][f] \in {NotSet, "existing"}
      BY <1>1, <1>3 DEF Changes
    <3>1. Field(f) \in {NotSet, "existing"} /\ f # "resourceGroup"
      BY DEF FieldsInv
    <3> QED  BY <1>1, <3>1 DEF Resolves, Changes
  <2>3. \A i \in DOMAIN plan' : i # 1 =>
           fields'[plan'[i].id] = [f \in FieldsOf[plan'[i].class] |-> NotSet]
    <3> SUFFICES ASSUME NEW i \in DOMAIN plan, i # 1
                 PROVE  fields'[plan[i].id] = [f \in FieldsOf[plan[i].class] |-> NotSet]
      BY <1>1
    <3>1. plan[i].id \in DOMAIN fields /\ plan[i].id # this.id
      BY <1>3 DEF PlanInv
    <3> QED  BY <1>1, <3>1 DEF FieldsInv, Changes
  <2>4. "dataStorageAccount" \in DOMAIN fields'[this.id]
          /\ fields'[this.id]["dataStorageAccount"] # NotSet
          => Settled("dataStorageAccount")'
    <3> DEFINE f == "dataStorageAccount"
    <3> SUFFICES ASSUME f \in DOMAIN fields[this.id], fields'[this.id][f] # NotSet
                 PROVE  Settled(f)'
      BY <1>1, <1>3 DEF Changes
    <3>1. IsSet(f)
      BY <1>1 DEF Changes, IsSet, Field, Resolved
    <3> QED  BY <1>5, <3>1 DEF FieldsInv
  <2> QED  BY <1>2, <2>1, <2>2, <2>3, <2>4 DEF FieldsInv, Field, IsSet
<1>7. TemplateInv'
  <2> SUFFICES ASSUME NEW r \in template'
               PROVE  /\ r.of \in DOMAIN fields'
                      /\ \A i \in DOMAIN plan : r.of = plan[i].id => i = 1
                      /\ DOMAIN r.reads \subseteq DOMAIN fields'[r.of]
                      /\ \A f \in DOMAIN r.reads :
                           /\ r.reads[f] = fields'[r.of][f]
                           /\ r.of = this.id => Settled(f)'
    BY <1>1, <1>2 DEF TemplateInv
  <2>1. CASE r \in template
    <3>1. /\ r.of \in DOMAIN fields
          /\ \A i \in DOMAIN plan : r.of = plan[i].id => i = 1
          /\ DOMAIN r.reads \subseteq DOMAIN fields[r.of]
          /\ \A f \in DOMAIN r.reads :
               /\ r.reads[f] = fields[r.of][f]
               /\ r.of = this.id => Settled(f)
      BY <2>1 DEF TemplateInv
    <3>2. /\ r.of \in DOMAIN fields' /\ DOMAIN fields'[r.of] = DOMAIN fields[r.of]
          /\ r.of # this.id => fields'[r.of] = fields[r.of]
      BY <1>1, <3>1 DEF Changes
    <3>3. CASE r.of # this.id
      BY <3>1, <3>2, <3>3
    <3>4. CASE r.of = this.id
      <4>1. \A f \in DOMAIN r.reads : fields'[this.id][f] = Field(f) /\ Settled(f)'
        BY <1>5, <3>1, <3>4
      <4> QED  BY <3>1, <3>2, <3>4, <4>1 DEF Field
    <3> QED  BY <3>3, <3>4
  <2>2. CASE r \notin template
    <3>1. r.of = this.id /\ DOMAIN r.reads = {}
      BY <1>1, <2>2 DEF Changes, IsNew
    <3>2. this.id \in DOMAIN fields'
      BY <1>1, <1>3 DEF Changes
    <3>3. \A i \in DOMAIN plan : r.of = plan[i].id => i = 1
      BY <1>3, <3>1 DEF PlanInv
    <3> QED  BY <3>1, <3>2, <3>3
  <2> QED  BY <2>1, <2>2
<1> QED  BY <1>4, <1>6, <1>7
-----------------------------------------------------------------------------
(* Every step of a construct is one of its methods *)

ConstructStep ==
    \/ FunctionAppStep \/ EventHandlerStep \/ InheritedSiteConfig
    \/ CreateFunctionCodePackage \/ CreateDashboard \/ RestApiStep
    \/ SitesStep \/ CloudflareStep \/ RestApiFunctionStep

AMethod ==
    \/ \E m, reads, sets : Method(m, reads, sets)
    \/ \E m \in Resolvers, f \in Resolved : Calls(m) /\ Resolves(f)

LEMMA EveryMethod ==
    ASSUME PlanInv, FieldsInv, ConstructStep
    PROVE  AMethod
<1>1. CASE FunctionAppStep
  BY <1>1, FunctionAppMethod, AppItselfIsAMethod, ResolverResolves
     DEF FunctionAppStep, AMethod
<1>2. CASE EventHandlerStep
  BY <1>2, EventHandlerMethod, NothingToScan DEF EventHandlerStep, AMethod
<1>3. CASE InheritedSiteConfig \/ CreateFunctionCodePackage \/ CreateDashboard
  BY <1>3, FunctionAppMethod, AppItselfIsAMethod DEF AMethod
<1>4. CASE RestApiStep
  BY <1>4, RestApiMethod, SharedMethod DEF RestApiStep, AMethod
<1>5. CASE SitesStep
  BY <1>5, SiteMethod, LoadTestingMethod DEF SitesStep, AMethod
<1>6. CASE CloudflareStep
  BY <1>6, PagesMethod, WorkerMethod, SharedMethod DEF CloudflareStep, AMethod
<1>7. CASE RestApiFunctionStep
  BY <1>7, RestApiFunctionMethod DEF RestApiFunctionStep, AMethod
<1> QED  BY <1>1, <1>2, <1>3, <1>4, <1>5, <1>6, <1>7 DEF ConstructStep

LEMMA AMethodKeeps ==
    ASSUME PlanInv, FieldsInv, TemplateInv, AMethod
    PROVE  PlanInv' /\ FieldsInv' /\ TemplateInv'
BY MethodKeeps, ResolverKeeps DEF AMethod

(* What methods change in the props is none of these.                      *)
KeepsProps ==
    \A p \in NamedProps : p \in DOMAIN props' /\ props'[p] = props[p]

LEMMA ConstructsKeepProps ==
    ASSUME PropsInv, ConstructStep
    PROVE  KeepsProps
<1>1. NamedProps \subseteq DOMAIN props
  BY DEF PropsInv
<1>2. ASSUME FunctionAppStep PROVE UNCHANGED props
  BY <1>2
     DEF FunctionAppStep, Creates, Sets, Returns, Throws, CreateFunctionHosts,
         CreateResourceGroup, ResolveCommonLogAnalyticsWorkspace,
         ResolveApplicationInsights, CreateAppServicePlan,
         CreatedParsedAppConfigurations, CreateAppConfiguration,
         CreateAppConfigurations, CreateStorageAccount,
         CreateStorageDeploymentContainer, CreateStorageContainer,
         CreateDataStorageAccount, CreateDataStorageContainer,
         GenerateStorageContainerSas, CreateFunctionApp, CreateRoleAssignments
<1>3. ASSUME EventHandlerStep PROVE UNCHANGED props
  BY <1>3
     DEF EventHandlerStep, Creates, Sets, Returns, Throws,
         CreateEventGridSubscriptionDlqStorageAccount,
         CreateEventGridSubscriptionDlqStorageContainer,
         CreateServiceBusNamespace, CreateServiceBusQueue,
         CreateServiceBusQueueAuthorizationRule, CreateEventGrid,
         CreateEventGridEventSubscription, CreateServiceBusDiagnosticLog,
         EnableMalwareScanningOnDataStorageAccount,
         CreateEventHandlerSiteConfig
<1>4. ASSUME InheritedSiteConfig \/ CreateFunctionCodePackage \/ CreateDashboard
      PROVE  UNCHANGED props
  BY <1>4 DEF InheritedSiteConfig, CreateFunctionAppSiteConfig,
     CreateFunctionCodePackage, CreateCodePackage, CreateDashboard,
     CreateFunctionDashboard, Creates, Sets, Returns
<1>5. ASSUME RestApiStep PROVE UNCHANGED props
  BY <1>5
     DEF RestApiStep, Creates, Sets, Returns, Throws, IfOwned,
         ResolveApiKeyVault, CreateApiManagement, CreateNamespaceSecretRole,
         CreateNamespaceSecret, CreateSubscriptionKeySecret,
         CreateApiManagementLogger, CreateApiDiagnostic, CreateDiagnosticLog,
         CreateRedisCache, CreateRedisCacheSecret, CreateRedisCacheNamespace,
         CreateRedisCacheApiManagement
<1>6. ASSUME SitesStep PROVE KeepsProps
  <2>1. CASE CreateWebApp
    BY <1>1, <2>1 DEF CreateWebApp, KeepsProps, NamedProps
  <2>2. CASE ~CreateWebApp
    <3>1. UNCHANGED props
      BY <1>6, <2>2
         DEF SitesStep, Creates, Sets, Returns, Throws,
             CreateSiteAppServicePlan, CreateSiteStorageAccount,
             CreateSiteStorageContainer, CreateSiteCodePackage,
             CreateWebAppSiteConfig, CreateSiteDiagnosticLog,
             CreateVirtualNetwork, CreatePublicIp, CreateNatGateway,
             CreateSubnet, CreateLoadTest, DeployLoadTests
    <3> QED  BY <1>1, <3>1 DEF KeepsProps
  <2> QED  BY <2>1, <2>2
<1>7. ASSUME CloudflareStep PROVE KeepsProps
  <2>1. CASE ResolveSecrets \/ ResolveEnvironmentVariables
    BY <1>1, <2>1 DEF ResolveSecrets, ResolveEnvironmentVariables,
       DeploymentConfigs, KeepsProps, NamedProps
  <2>2. CASE ResolveWorkerEnvironmentVariables
    BY <1>1, <2>2 DEF ResolveWorkerEnvironmentVariables, KeepsProps,
       NamedProps
  <2>3. ASSUME \/ ResolveZone \/ CreateProject \/ CreateDomain \/ CreateRecord
               \/ DeploySite \/ CreateWorker \/ CreateWorkerDomain
               \/ CreateRuleset \/ CreateZoneSetting
        PROVE  UNCHANGED props
    BY <2>3 DEF ResolveZone, CreateProject, CreateDomain, CreateRecord,
       DeploySite, CreateWorker, CreateWorkerDomain, CreateRuleset,
       CreateZoneSetting, Creates, Sets, Returns, Throws
  <2> QED  BY <1>1, <1>7, <2>1, <2>2, <2>3 DEF CloudflareStep, KeepsProps
<1>8. ASSUME RestApiFunctionStep PROVE UNCHANGED props
  BY <1>8 DEF RestApiFunctionStep, CreateFunctionNamespaceSecret,
     CreateFunctionApiManagement, CreateApiManagementNamespace,
     CreateApiManagementRoutes, CreateCorsPolicy, CreateApiPolicy, Creates,
     Sets, Returns, Throws
<1> QED  BY <1>1, <1>2, <1>3, <1>4, <1>5, <1>6, <1>7, <1>8
         DEF ConstructStep, KeepsProps
-----------------------------------------------------------------------------
(* The steps of Next *)

(* A call is the end of its method, unless it resolves something.          *)
LEMMA CallLeaves ==
    ASSUME PlanInv, NEW m, Calls(m)
    PROVE  /\ plan' = plan /\ Left' \subseteq Left /\ Left \subseteq Left' \cup {m}
           /\ m \in Left /\ m \in DOMAIN Rank
           /\ m \notin Resolvers => m \notin Left'
<1>1. /\ plan' = plan /\ Left' \subseteq Left /\ m \in Left /\ m \in DOMAIN Rank
      /\ \A s \in Left' \ Resolvers : Rank[m] < Rank[s]
  BY WhenCalled
<1>2. /\ todo \in Seq(DOMAIN Rank) /\ todo # <<>>
      /\ m = Head(todo) /\ todo' = Tail(todo)
  BY DEF Calls, PlanInv
<1>3. \A i \in DOMAIN todo :
         i # 1 => i - 1 \in DOMAIN todo' /\ todo'[i - 1] = todo[i]
  <2>1. /\ Len(todo') = Len(todo) - 1 /\ todo' \in Seq(DOMAIN Rank)
        /\ \A i \in 1..Len(todo') : todo'[i] = todo[i + 1]
    BY <1>2, HeadTailProperties
  <2> SUFFICES ASSUME NEW i \in DOMAIN todo, i # 1
               PROVE  i - 1 \in DOMAIN todo' /\ todo'[i - 1] = todo[i]
    OBVIOUS
  <2>2. i \in 1..Len(todo) /\ Len(todo) \in Nat
    BY <1>2
  <2>3. i - 1 \in 1..Len(todo') /\ (i - 1) + 1 = i
    BY <2>1, <2>2
  <2> QED  BY <2>1, <2>3
<1>4. todo[1] = m
  BY <1>2
<1>5. Left \subseteq Left' \cup {m}
  BY <1>3, <1>4 DEF Left
<1>6. m \notin Resolvers => m \notin Left'
  <2>1. Rank[m] \in Nat
    BY <1>1, RanksAreNumbers DEF Rank
  <2>2. ~(Rank[m] < Rank[m])
    BY <2>1
  <2> QED  BY <1>1, <2>2
<1> QED  BY <1>1, <1>5, <1>6

LEMMA WhatAMethodLeaves ==
    ASSUME PlanInv, AMethod
    PROVE  /\ plan' = plan /\ Left' \subseteq Left
           /\ DOMAIN fields' = DOMAIN fields
           /\ \A id \in DOMAIN fields : DOMAIN fields'[id] = DOMAIN fields[id]
           /\ "createFunctionHosts" \in Left \ Left' => CreateFunctionHosts
<1>1. CASE \E m, reads, sets : Method(m, reads, sets)
  BY <1>1, CallLeaves DEF Method, Changes
<1>2. CASE \E m \in Resolvers, f \in Resolved : Calls(m) /\ Resolves(f)
  <2>1. "createFunctionHosts" \notin Resolvers
    BY DEF Resolvers
  <2> QED  BY <1>2, <2>1, CallLeaves DEF Resolves, Changes
<1> QED  BY <1>1, <1>2 DEF AMethod

LEMMA AMethodKeepsRequest ==
    ASSUME PlanInv, HostKeyInv, AMethod, UNCHANGED hostKey
    PROVE  HostKeyInv'
<1>1. plan' = plan /\ Left' \subseteq Left
  BY WhatAMethodLeaves
<1> QED  BY <1>1 DEF HostKeyInv

(* The request is made by the one construct that makes it, once.           *)
LEMMA SecretKeepsRequest ==
    ASSUME PlanInv, HostKeyInv, CreateFunctionNamespaceSecret
    PROVE  HostKeyInv'
<1> DEFINE m == "createNamespaceSecret"
<1>1. Calls(m) /\ this.class = "AzureRestApiFunction"
  BY DEF CreateFunctionNamespaceSecret, IsRestApiFunction
<1>2. /\ plan' = plan /\ m \in Left /\ m \in DOMAIN Rank
      /\ \A s \in Left' \ Resolvers : Rank[m] < Rank[s]
      /\ this = plan[1] /\ 1 \in DOMAIN plan
  BY <1>1, WhenCalled, ThisIs
<1>3. m \notin Left'
  <2>1. m \notin Resolvers /\ Rank[m] \in Nat
    BY <1>2, RanksAreNumbers DEF Resolvers, Rank
  <2>2. ~(Rank[m] < Rank[m])
    BY <2>1
  <2> QED  BY <1>2, <2>1, <2>2
<1>4. \A i \in DOMAIN plan : plan[i].class = "AzureRestApiFunction" => i = 1
  BY <1>1, <1>2 DEF PlanInv
<1>5. hostKey = NoRequest
  BY <1>1, <1>2 DEF HostKeyInv
<1>6. hostKey' \in {NoRequest, [NoRequest EXCEPT !.state = "previewing"],
                    [NoRequest EXCEPT !.state = "asking"]}
  BY <1>5 DEF CreateFunctionNamespaceSecret
<1>7. MaxRetries \in Nat \ {0}
  BY MaxRetriesAssumption
<1>8. /\ hostKey'.state \in {"none", "previewing", "asking", "given", "failed"}
      /\ hostKey'.tries = 0 /\ hostKey'.ready = FALSE
      /\ DOMAIN hostKey' = {"state", "tries", "ready"}
  BY <1>6 DEF NoRequest
<1>9. \A i \in DOMAIN plan' : plan'[i].class = "AzureRestApiFunction" => i = 1
  BY <1>2, <1>4
<1>10. 0 < MaxRetries /\ 0 \in 0..MaxRetries
  BY <1>7
<1> QED  BY <1>3, <1>8, <1>9, <1>10 DEF HostKeyInv

LEMMA ConstructKeeps ==
    ASSUME BuiltInv, ConstructStep, UNCHANGED deployments,
           UNCHANGED hostKey \/ CreateFunctionNamespaceSecret,
           UNCHANGED hostJson \/ CreateFunctionHosts
    PROVE  BuiltInv'
<1>1. PlanInv /\ PropsInv /\ HostKeyInv /\ FieldsInv /\ TemplateInv
  BY DEF BuiltInv
<1>2. AMethod /\ KeepsProps
  BY <1>1, EveryMethod, ConstructsKeepProps
<1>3. PlanInv' /\ FieldsInv' /\ TemplateInv'
  BY <1>1, <1>2, AMethodKeeps
<1>4. HostKeyInv'
  BY <1>1, <1>2, AMethodKeepsRequest, SecretKeepsRequest
<1>5. PropsInv'
  <2>1. hostJson' = NotSet \/ DOMAIN hostJson' = DOMAIN props.appHosts
    BY <1>1 DEF PropsInv, CreateFunctionHosts, HostsConfig
  <2> QED  BY <1>1, <1>2, <2>1 DEF PropsInv, KeepsProps, NamedProps
<1>6. IsFiniteSet(DOMAIN fields')
  BY <1>1, <1>2, WhatAMethodLeaves DEF BuiltInv
<1> QED  BY <1>3, <1>4, <1>5, <1>6 DEF BuiltInv

LEMMA HostKeepsBuilt ==
    ASSUME BuiltInv, AskHostForItsKey \/ HostStarts, UNCHANGED deployments
    PROVE  BuiltInv'
<1>1. PlanInv /\ PropsInv /\ HostKeyInv /\ FieldsInv /\ TemplateInv
  BY DEF BuiltInv
<1>2. UNCHANGED <<props, plan, todo, fields, template, status, hostJson>>
  BY DEF AskHostForItsKey, HostStarts, restVars, synthVars
<1>3. PlanInv' /\ PropsInv' /\ FieldsInv' /\ TemplateInv'
  BY <1>1, <1>2 DEF PlanInv, PropsInv, FieldsInv, TemplateInv, this, Rank,
     LastSet, Left, Settled, IsSet, Field, InitResources
<1>4. HostKeyInv'
  <2>1. hostKey # NoRequest
    BY DEF AskHostForItsKey, HostStarts, NoRequest
  <2>2. \A i \in DOMAIN plan' :
           /\ plan'[i].class = "AzureRestApiFunction"
           /\ i = 1 => "createNamespaceSecret" \in Left'
           => hostKey' = NoRequest
    BY <1>1, <1>2, <2>1 DEF HostKeyInv, Left
  <2>3. MaxRetries \in Nat \ {0}
    BY MaxRetriesAssumption
  <2>4. CASE AskHostForItsKey
    <3>1. hostKey.state = "asking" /\ hostKey.tries < MaxRetries
          /\ hostKey.tries \in 0..MaxRetries
      BY <1>1, <2>4 DEF AskHostForItsKey, HostKeyInv
    <3>2. hostKey.ready \in BOOLEAN /\ DOMAIN hostKey = {"state", "tries", "ready"}
      BY <1>1 DEF HostKeyInv
    <3>3. CASE hostKey' = [hostKey EXCEPT !.state = "given"]
      <4>1. /\ hostKey'.state = "given" /\ hostKey'.tries = hostKey.tries
            /\ hostKey'.ready = hostKey.ready /\ DOMAIN hostKey' = DOMAIN hostKey
        BY <3>2, <3>3
      <4> QED  BY <2>2, <3>1, <3>2, <4>1 DEF HostKeyInv
    <3>4. CASE hostKey' = [hostKey EXCEPT
                  !.tries = @ + 1,
                  !.state = IF hostKey.tries + 1 < MaxRetries
                              THEN "asking" ELSE "failed"]
      <4>1. /\ hostKey'.state = IF hostKey.tries + 1 < MaxRetries
                                  THEN "asking" ELSE "failed"
            /\ hostKey'.tries = hostKey.tries + 1
            /\ hostKey'.ready = hostKey.ready /\ DOMAIN hostKey' = DOMAIN hostKey
        BY <3>2, <3>4
      <4>2. hostKey.tries + 1 \in 0..MaxRetries
        BY <2>3, <3>1
      <4> QED  BY <2>2, <3>2, <4>1, <4>2 DEF HostKeyInv
    <3> QED  BY <2>4, <3>3, <3>4 DEF AskHostForItsKey
  <2>5. CASE HostStarts
    <3>1. /\ hostKey'.state = hostKey.state /\ hostKey'.tries = hostKey.tries
          /\ hostKey'.ready = TRUE /\ DOMAIN hostKey' = DOMAIN hostKey
      BY <1>1, <2>5 DEF HostStarts, HostKeyInv
    <3> QED  BY <1>1, <2>2, <3>1 DEF HostKeyInv
  <2> QED  BY <2>4, <2>5
<1> QED  BY <1>2, <1>3, <1>4 DEF BuiltInv

LEMMA FinishKeepsBuilt ==
    ASSUME BuiltInv, Finish, UNCHANGED <<hostJson, hostKey, deployments>>
    PROVE  BuiltInv'
<1>1. PlanInv /\ PropsInv /\ HostKeyInv /\ FieldsInv /\ TemplateInv
  BY DEF BuiltInv
<1>2. /\ UNCHANGED <<props, plan, todo, fields, template, hostJson, hostKey>>
      /\ status' = "done" /\ todo = <<>> /\ Len(plan) = 1
  BY DEF Finish
<1>3. PropsInv' /\ HostKeyInv' /\ FieldsInv' /\ TemplateInv'
  BY <1>1, <1>2 DEF PropsInv, HostKeyInv, FieldsInv, TemplateInv, this, Rank,
     LastSet, Left, Settled, IsSet, Field
<1>4. PlanInv'
  BY <1>1, <1>2 DEF PlanInv, this, Rank, InitResources
<1> QED  BY <1>2, <1>3, <1>4 DEF BuiltInv

LEMMA StartOfMethods ==
    ASSUME NEW class \in DOMAIN Methods
    PROVE  \E n \in 0..Len(Methods[class]) :
             Methods[class] = SubSeq(Methods[class], n + 1, Len(Methods[class]))
<1> DEFINE M == Methods[class]
<1>1. M \in Seq(DOMAIN RankOf(class))
  BY AllAreOrdered
<1> HIDE DEF M
<1>2. Len(M) \in Nat /\ SubSeq(M, 1, Len(M)) = M
  BY <1>1
<1> QED  BY <1>2 DEF M

LEMMA NextKeepsBuilt ==
    ASSUME BuiltInv, NextConstruct(InitResources(plan[2])),
           UNCHANGED <<hostJson, hostKey, deployments>>
    PROVE  BuiltInv'
<1>1. PlanInv /\ PropsInv /\ HostKeyInv /\ FieldsInv /\ TemplateInv
  BY DEF BuiltInv
<1>2. /\ UNCHANGED <<props, fields, template, status, hostJson, hostKey>>
      /\ status = "synth" /\ todo = <<>> /\ Len(plan) > 1
      /\ plan' = Tail(plan) /\ todo' = Methods[plan[2].class]
  BY DEF NextConstruct, InitResources
<1>3. /\ plan' \in Seq(Constructs) /\ plan' # <<>>
      /\ \A i \in DOMAIN plan' : /\ i + 1 \in DOMAIN plan /\ i + 1 # 1
                                 /\ plan'[i] = plan[i + 1]
      /\ \A i, j \in DOMAIN plan' : i # j => i + 1 # j + 1
      /\ plan'[1] = plan[2] /\ 1 \in DOMAIN plan' /\ 2 \in DOMAIN plan
  <2>1. plan \in Seq(Constructs) /\ plan # <<>>
    BY <1>1 DEF PlanInv
  <2>2. /\ plan' \in Seq(Constructs) /\ Len(plan') = Len(plan) - 1
        /\ \A i \in 1..Len(plan') : plan'[i] = plan[i + 1]
    BY <1>2, <2>1, HeadTailProperties
  <2>3. /\ DOMAIN plan' = 1..Len(plan') /\ DOMAIN plan = 1..Len(plan)
        /\ Len(plan) \in Nat /\ Len(plan') >= 1
    BY <1>2, <2>1, <2>2
  <2>4. \A i \in DOMAIN plan' : i + 1 \in DOMAIN plan /\ i + 1 # 1
    BY <2>2, <2>3
  <2>5. \A i, j \in DOMAIN plan' : i # j => i + 1 # j + 1
    BY <2>3
  <2>6. plan'[1] = plan[2] /\ 1 \in DOMAIN plan' /\ 2 \in DOMAIN plan
    BY <2>2, <2>3
  <2>7. plan' # <<>>
    BY <2>3
  <2> QED  BY <2>2, <2>3, <2>4, <2>5, <2>6, <2>7
<1>4. this' = plan[2] /\ this'.class \in DOMAIN Methods
  BY <1>1, <1>3 DEF this, PlanInv
<1>5. /\ todo' \in Seq(DOMAIN RankOf(this'.class)) /\ Ordered(todo', this'.class)
      /\ \E n \in 0..Len(Methods[this'.class]) :
           todo' = SubSeq(Methods[this'.class], n + 1, Len(Methods[this'.class]))
  BY <1>2, <1>4, AllAreOrdered, StartOfMethods
<1>6. PlanInv'
  <2>1. \A i \in DOMAIN plan' :
           /\ plan'[i].class \in DOMAIN Methods
           /\ plan'[i].id \in DOMAIN fields'
           /\ DOMAIN fields'[plan'[i].id] = FieldsOf[plan'[i].class]
    BY <1>1, <1>2, <1>3 DEF PlanInv
  <2>2. \A i, j \in DOMAIN plan' : i # j =>
           /\ plan'[i].id # plan'[j].id
           /\ "AzureRestApiFunction" \notin {plan'[i].class} \intersect {plan'[j].class}
    BY <1>1, <1>3 DEF PlanInv
  <2>3. /\ (todo \in Seq(DOMAIN Rank))' /\ Ordered(todo, this.class)'
        /\ (\E n \in 0..Len(InitResources(this)) :
              todo = SubSeq(InitResources(this), n + 1, Len(InitResources(this))))'
    BY <1>5 DEF Rank, Ordered, InitResources
  <2>4. status' = "synth"
    BY <1>2
  <2> QED  BY <1>3, <2>1, <2>2, <2>3, <2>4 DEF PlanInv
<1>7. HostKeyInv'
  <2>1. \A i \in DOMAIN plan' : plan'[i].class = "AzureRestApiFunction"
                                  => hostKey = NoRequest
    BY <1>1, <1>3 DEF HostKeyInv
  <2> QED  BY <1>1, <1>2, <2>1 DEF HostKeyInv
<1>8. \A i \in DOMAIN plan' :
         fields'[plan'[i].id] = [f \in FieldsOf[plan'[i].class] |-> NotSet]
  BY <1>1, <1>2, <1>3 DEF FieldsInv
<1>9. FieldsInv'
  <2>1. fields'[this'.id] = [f \in FieldsOf[this'.class] |-> NotSet]
    BY <1>3, <1>4, <1>8
  <2>2. \A f \in DOMAIN fields'[this'.id] : fields'[this'.id][f] = NotSet
    BY <2>1
  <2>3. \A id \in DOMAIN fields' : \E class \in DOMAIN FieldsOf :
           DOMAIN fields'[id] = FieldsOf[class]
    BY <1>1, <1>2 DEF FieldsInv
  <2> QED  BY <1>8, <2>2, <2>3 DEF FieldsInv, Field, IsSet
<1>10. TemplateInv'
  <2> SUFFICES ASSUME NEW r \in template
               PROVE  /\ r.of \in DOMAIN fields
                      /\ \A i \in DOMAIN plan' : r.of # plan'[i].id
                      /\ DOMAIN r.reads \subseteq DOMAIN fields[r.of]
                      /\ \A f \in DOMAIN r.reads : r.reads[f] = fields[r.of][f]
    BY <1>2, <1>3, <1>4 DEF TemplateInv
  <2>1. \A i \in DOMAIN plan' : r.of # plan'[i].id
    BY <1>1, <1>3 DEF TemplateInv
  <2> QED  BY <1>1, <2>1 DEF TemplateInv
<1>11. PropsInv'
  BY <1>1, <1>2 DEF PropsInv
<1> QED  BY <1>2, <1>6, <1>7, <1>9, <1>10, <1>11 DEF BuiltInv

(* A deployment begins, the first one or a later one.                      *)
Begun ==
    /\ plan \in Seq(Constructs) /\ plan # <<>>
    /\ \A i \in DOMAIN plan : plan[i].class \in DOMAIN Methods
    /\ \A i, j \in DOMAIN plan : i # j =>
         /\ plan[i].id # plan[j].id
         /\ "AzureRestApiFunction" \notin {plan[i].class} \intersect {plan[j].class}
    /\ todo = InitResources(this) /\ fields = NewFields(plan)
    /\ template = {} /\ status = "synth" /\ hostKey = NoRequest
    /\ PropsInv /\ deployments \in 1..MaxDeployments

LEMMA NewFieldsAre ==
    ASSUME NEW constructs,
           \A i, j \in DOMAIN constructs : i # j => constructs[i].id # constructs[j].id
    PROVE  /\ DOMAIN NewFields(constructs) = {constructs[i].id : i \in DOMAIN constructs}
           /\ \A i \in DOMAIN constructs :
                NewFields(constructs)[constructs[i].id]
                  = [f \in FieldsOf[constructs[i].class] |-> NotSet]
<1> DEFINE at(id) == CHOOSE i \in DOMAIN constructs : constructs[i].id = id
<1>1. ASSUME NEW i \in DOMAIN constructs PROVE at(constructs[i].id) = i
  <2>1. /\ at(constructs[i].id) \in DOMAIN constructs
        /\ constructs[at(constructs[i].id)].id = constructs[i].id
    BY <1>1
  <2> HIDE DEF at
  <2> QED  BY <2>1
<1>2. NewFields(constructs)
        = [id \in {constructs[i].id : i \in DOMAIN constructs} |->
             [f \in FieldsOf[constructs[at(id)].class] |-> NotSet]]
  BY DEF NewFields
<1> HIDE DEF at
<1> QED  BY <1>1, <1>2

LEMMA BegunIsBuilt == Begun => BuiltInv
<1> SUFFICES ASSUME Begun PROVE BuiltInv
  OBVIOUS
<1>1. /\ plan \in Seq(Constructs) /\ plan # <<>> /\ 1 \in DOMAIN plan
      /\ this = plan[1] /\ this.class \in DOMAIN Methods
      /\ todo = Methods[this.class] /\ template = {} /\ status = "synth"
      /\ \A i, j \in DOMAIN plan : i # j => plan[i].id # plan[j].id
  BY DEF Begun, this, InitResources
<1>2. /\ DOMAIN fields = {plan[i].id : i \in DOMAIN plan}
      /\ \A i \in DOMAIN plan :
           fields[plan[i].id] = [f \in FieldsOf[plan[i].class] |-> NotSet]
  BY <1>1, NewFieldsAre DEF Begun
<1>3. /\ todo \in Seq(DOMAIN Rank) /\ Ordered(todo, this.class)
      /\ \E n \in 0..Len(InitResources(this)) :
           todo = SubSeq(InitResources(this), n + 1, Len(InitResources(this)))
  BY <1>1, AllAreOrdered, StartOfMethods DEF Rank, InitResources
<1>4. PlanInv
  BY <1>1, <1>2, <1>3 DEF PlanInv, Begun
<1>5. HostKeyInv
  <2>1. 0 \in 0..MaxRetries
    BY MaxRetriesAssumption
  <2> QED  BY <2>1 DEF HostKeyInv, Begun, NoRequest
<1>6. FieldsInv
  <2>1. \A f \in DOMAIN fields[this.id] : Field(f) = NotSet
    <3>1. fields[this.id] = [f \in FieldsOf[this.class] |-> NotSet]
      BY <1>1, <1>2
    <3> QED  BY <3>1 DEF Field
  <2>2. \A id \in DOMAIN fields : \E class \in DOMAIN FieldsOf :
           DOMAIN fields[id] = FieldsOf[class]
    <3> SUFFICES ASSUME NEW i \in DOMAIN plan
                 PROVE  \E class \in DOMAIN FieldsOf :
                          DOMAIN fields[plan[i].id] = FieldsOf[class]
      BY <1>2
    <3>1. plan[i].class \in DOMAIN FieldsOf
      BY ClassesAre DEF Begun
    <3>2. DOMAIN fields[plan[i].id] = FieldsOf[plan[i].class]
      BY <1>2
    <3> QED  BY <3>1, <3>2
  <2> QED  BY <1>2, <2>1, <2>2 DEF FieldsInv, IsSet
<1>7. TemplateInv
  BY <1>1 DEF TemplateInv
<1>8. IsFiniteSet(DOMAIN fields)
  <2>1. IsFiniteSet(DOMAIN plan)
    BY <1>1, FS_Interval
  <2>2. IsFiniteSet({plan[i].id : i \in DOMAIN plan})
    <3> DEFINE ids == {plan[i].id : i \in DOMAIN plan}
               id == [i \in DOMAIN plan |-> plan[i].id]
    <3>1. id \in Surjection(DOMAIN plan, ids)
      BY DEF Surjection
    <3> HIDE DEF id, ids
    <3>2. IsFiniteSet(ids)
      BY <2>1, <3>1, FS_Surjection
    <3> QED  BY <3>2 DEF ids
  <2> QED  BY <1>2, <2>2
<1> QED  BY <1>4, <1>5, <1>6, <1>7, <1>8 DEF BuiltInv, Begun

LEMMA InitIsBegun == Init => Begun
<1> SUFFICES ASSUME Init PROVE Begun
  OBVIOUS
<1>1. PICK c \in Choices :
        /\ props = c.props /\ StartsWith(c.plan, InitResources(c.plan[1]))
        /\ fields = NewFields(c.plan) /\ hostJson = c.hostJson
  BY DEF Init
<1>2. /\ plan = c.plan /\ template = {} /\ status = "synth"
      /\ todo = InitResources(plan[1])
  BY <1>1 DEF StartsWith
<1>3. plan \in Seq(Constructs) /\ plan # <<>> /\ this = plan[1]
  BY <1>2, ChoicesAssumption DEF this
<1>4. PropsInv
  BY <1>1, ChoicesAssumption DEF PropsInv
<1>5. hostKey = NoRequest /\ deployments \in 1..MaxDeployments
  BY DeploymentsAssumption DEF Init
<1> QED  BY <1>1, <1>2, <1>3, <1>4, <1>5, ChoicesAssumption DEF Begun

LEMMA RedeployBegins ==
    ASSUME BuiltInv, Redeploy
    PROVE  Begun' /\ DOMAIN fields = {this.id} /\ Len(plan) = 1
<1>1. PlanInv /\ PropsInv
  BY DEF BuiltInv
<1>2. /\ plan' = plan /\ this' = this /\ todo' = InitResources(this)
      /\ fields' = NewFields(plan) /\ template' = {} /\ status' = "synth"
      /\ hostKey' = NoRequest /\ hostJson' = hostJson
  BY DEF Redeploy, this
<1>3. PropsInv'
  <2>1. PICK config \in HostConfigs :
          props' = [props EXCEPT !.appHosts = config.app,
                                 !.commonHosts = config.common]
    BY DEF Redeploy
  <2>2. DOMAIN props' = DOMAIN props /\ props'.appHosts = config.app
    BY <1>1, <2>1 DEF PropsInv, NamedProps
  <2> QED  BY <1>1, <1>2, <2>2 DEF PropsInv, NamedProps
<1>4. deployments' \in 1..MaxDeployments
  <2>1. deployments \in 1..MaxDeployments /\ deployments < MaxDeployments
        /\ deployments' = deployments + 1 /\ MaxDeployments \in Nat \ {0}
    BY DeploymentsAssumption DEF BuiltInv, Redeploy
  <2> QED  BY <2>1
<1>5. DOMAIN fields = {this.id}
  <2>1. Cardinality(DOMAIN fields) = 1 /\ IsFiniteSet(DOMAIN fields)
    BY DEF Redeploy, BuiltInv
  <2>2. \E x : DOMAIN fields = {x}
    BY <2>1, FS_Singleton
  <2> QED  BY <1>1, <2>2, ThisIs
<1>6. Len(plan) = 1
  <2>1. \A i \in DOMAIN plan : plan[i].id = plan[1].id /\ 1 \in DOMAIN plan
    BY <1>1, <1>5, ThisIs DEF PlanInv
  <2>2. \A i \in DOMAIN plan : i = 1
    BY <1>1, <2>1 DEF PlanInv
  <2>3. plan \in Seq(Constructs) /\ plan # <<>>
    BY <1>1 DEF PlanInv
  <2>4. Len(plan) \in DOMAIN plan
    BY <2>3
  <2> QED  BY <2>2, <2>4
<1>7. Begun'
  BY <1>1, <1>2, <1>3, <1>4 DEF Begun, PlanInv, InitResources
<1> QED  BY <1>5, <1>6, <1>7
-----------------------------------------------------------------------------
(* host.json *)

LEMMA FunctionAppsHaveHosts ==
    PlanInv /\ this.id \in FunctionApps /\ todo = InitResources(this)
      => "createFunctionHosts" \in Left
<1> SUFFICES ASSUME PlanInv, this.id \in FunctionApps, todo = InitResources(this)
             PROVE  "createFunctionHosts" \in Left
  OBVIOUS
<1>1. /\ this.class \in DOMAIN Methods
      /\ DOMAIN fields[this.id] = FieldsOf[this.class]
  BY ThisIs
<1>2. "app" \in FieldsOf[this.class]
  BY <1>1 DEF FunctionApps, IsOf, FieldsOf, FunctionAppFields,
     EventHandlerFields, RestApiFunctionFields
<1>3. this.class \in FunctionAppClasses
  <2>1. "app" \notin RestApiFields \cup SiteFields \cup LoadTestingFields
                      \cup PagesFields \cup WorkerFields
    BY DEF RestApiFields, SiteFields, LoadTestingFields, PagesFields, WorkerFields
  <2> QED  BY <1>1, <1>2, <2>1, ClassesAre DEF FieldsOf, FunctionAppClasses
<1>4. /\ 14 \in DOMAIN FunctionAppMethods
      /\ FunctionAppMethods[14] = "createFunctionHosts"
      /\ 26 \in DOMAIN EventHandlerMethods
      /\ EventHandlerMethods[26] = "createFunctionHosts"
  BY DEF FunctionAppMethods, EventHandlerMethods
<1>5. /\ 14 \in DOMAIN RestApiFunctionMethods
      /\ RestApiFunctionMethods[14] = "createFunctionHosts"
  <2>1. /\ 14 \in DOMAIN RestApiFunctionMethods
        /\ RestApiFunctionMethods[14] = FunctionAppMethods[14]
    BY RestApiFunctionIsOrdered
  <2> QED  BY <1>4, <2>1
<1>6. \E i \in DOMAIN Methods[this.class] :
         Methods[this.class][i] = "createFunctionHosts"
  BY <1>3, <1>4, <1>5 DEF Methods, FunctionAppClasses
<1> QED  BY <1>6 DEF Left, InitResources

LEMMA BegunHosts == Begun => HostsInv
<1> SUFFICES ASSUME Begun, NEW id \in FunctionApps,
                    \/ id \notin {plan[i].id : i \in DOMAIN plan}
                    \/ id = this.id /\ "createFunctionHosts" \notin Left
             PROVE  FALSE
  BY DEF HostsInv
<1>1. BuiltInv
  BY BegunIsBuilt
<1>2. id \in {plan[i].id : i \in DOMAIN plan}
  <2>1. \A i, j \in DOMAIN plan : i # j => plan[i].id # plan[j].id
    BY DEF Begun
  <2>2. DOMAIN fields = {plan[i].id : i \in DOMAIN plan}
    BY <2>1, NewFieldsAre DEF Begun
  <2> QED  BY <2>2 DEF FunctionApps
<1>3. "createFunctionHosts" \in Left
  BY <1>1, <1>2, FunctionAppsHaveHosts DEF Begun, BuiltInv
<1> QED  BY <1>2, <1>3

LEMMA ConstructKeepsHostsInv ==
    ASSUME BuiltInv, HostsInv, ConstructStep,
           UNCHANGED hostJson \/ CreateFunctionHosts
    PROVE  HostsInv'
<1>1. PlanInv /\ PropsInv /\ FieldsInv
  BY DEF BuiltInv
<1>2. AMethod /\ KeepsProps
  BY <1>1, EveryMethod, ConstructsKeepProps
<1>3. /\ plan' = plan /\ this' = this
      /\ DOMAIN fields' = DOMAIN fields
      /\ \A id \in DOMAIN fields : DOMAIN fields'[id] = DOMAIN fields[id]
      /\ "createFunctionHosts" \in Left \ Left' => CreateFunctionHosts
  BY <1>1, <1>2, WhatAMethodLeaves DEF this
<1>4. CASE CreateFunctionHosts
  <2>1. HostsAsConfigured'
    BY <1>2, <1>4 DEF CreateFunctionHosts, HostsConfig, Coalesce,
       HostsAsConfigured, KeepsProps, NamedProps
  <2> QED  BY <2>1 DEF HostsInv
<1>5. CASE ~CreateFunctionHosts
  <2>1. HostsAsConfigured' = HostsAsConfigured
    BY <1>2, <1>5 DEF HostsAsConfigured, KeepsProps, NamedProps
  <2>2. FunctionApps' = FunctionApps
    BY <1>3 DEF FunctionApps, IsOf
  <2>3. "createFunctionHosts" \notin Left' => "createFunctionHosts" \notin Left
    BY <1>3, <1>5
  <2> QED  BY <1>3, <2>1, <2>2, <2>3 DEF HostsInv
<1> QED  BY <1>4, <1>5

LEMMA NextKeepsHostsInv ==
    ASSUME BuiltInv, HostsInv, NextConstruct(InitResources(plan[2])),
           UNCHANGED <<hostJson, hostKey, deployments>>
    PROVE  HostsInv'
<1>1. PlanInv /\ BuiltInv'
  BY NextKeepsBuilt DEF BuiltInv
<1>2. /\ UNCHANGED <<props, fields, hostJson>>
      /\ todo = <<>> /\ plan' = Tail(plan) /\ todo' = InitResources(plan[2])
      /\ Len(plan) > 1
  BY DEF NextConstruct
<1>3. /\ this' = plan[2] /\ this = plan[1]
      /\ \A i \in DOMAIN plan : i = 1 \/ \E j \in DOMAIN plan' : plan'[j] = plan[i]
  <2>1. plan \in Seq(Constructs) /\ plan # <<>> /\ Len(plan) \in Nat
    BY <1>1 DEF PlanInv
  <2>2. /\ plan' \in Seq(Constructs) /\ Len(plan') = Len(plan) - 1
        /\ \A i \in 1..Len(plan') : plan'[i] = plan[i + 1]
    BY <1>2, <2>1, HeadTailProperties
  <2>3. this' = plan[2] /\ this = plan[1]
    BY <1>2, <2>1, <2>2 DEF this
  <2>4. ASSUME NEW i \in DOMAIN plan, i # 1
        PROVE  \E j \in DOMAIN plan' : plan'[j] = plan[i]
    <3>1. i - 1 \in DOMAIN plan' /\ i - 1 \in 1..Len(plan') /\ (i - 1) + 1 = i
      BY <2>1, <2>2, <2>4
    <3> QED  BY <2>2, <3>1
  <2> QED  BY <2>3, <2>4
<1>4. FunctionApps' = FunctionApps /\ HostsAsConfigured' = HostsAsConfigured
  BY <1>2 DEF FunctionApps, IsOf, HostsAsConfigured
<1>5. this'.id \in FunctionApps => "createFunctionHosts" \in Left'
  <2>1. (PlanInv /\ this.id \in FunctionApps /\ todo = InitResources(this)
           => "createFunctionHosts" \in Left)'
    BY FunctionAppsHaveHosts, PTL
  <2>2. (todo = InitResources(this))'
    BY <1>2, <1>3 DEF InitResources
  <2> QED  BY <1>1, <1>4, <2>1, <2>2 DEF BuiltInv
<1>6. "createFunctionHosts" \notin Left
  BY <1>2 DEF Left
<1> SUFFICES ASSUME NEW id \in FunctionApps,
                    \/ id \notin {plan'[i].id : i \in DOMAIN plan'}
                    \/ id = this'.id /\ "createFunctionHosts" \notin Left'
             PROVE  HostsAsConfigured
  BY <1>4 DEF HostsInv
<1>7. id \notin {plan'[i].id : i \in DOMAIN plan'}
  BY <1>5
<1>8. id = this.id \/ id \notin {plan[i].id : i \in DOMAIN plan}
  BY <1>3, <1>7
<1> QED  BY <1>6, <1>8 DEF HostsInv
-----------------------------------------------------------------------------
(* What methods leave alone *)

AppFields == {"appStorageAccount", "storageAccountName", "appConfig"}
BusFields == {"namespaceGroup", "queueGroup", "queueAuthorizationRule",
              "connectionString", "connectionGroup"}

NoSubscription(resources) == \A r \in resources : r.id # <<"es">>

(* Of what the invariant is about, only these fields are set, resources    *)
(* stay, and an existing queue of an event handler is not subscribed.      *)
SetsOnly(sets) ==
    /\ template \subseteq template'
    /\ \A f \in (AppFields \cup BusFields) \cap DOMAIN fields[this.id] :
         f \in sets \/ fields'[this.id][f] = fields[this.id][f]
    /\ this.class = "AzureEventHandler" /\ props.queueUseExisting =>
         \A r \in template' : r \in template \/ r.id # <<"es">>

LEMMA BuildsAdds ==
    ASSUME PlanInv, NEW needs, NEW resources, NEW values,
           Builds(needs, resources, values), status' # "thrown"
    PROVE  /\ ~Lacks(needs) /\ template' = template \union resources
           /\ \A f \in DOMAIN fields[this.id] :
                fields'[this.id][f] = IF f \in DOMAIN values THEN values[f]
                                      ELSE fields[this.id][f]
<1>1. this.id \in DOMAIN fields
  BY ThisIs
<1>2. ~(Lacks(needs) \/ Clashes(resources))
  BY DEF Builds
<1> QED  BY <1>1, <1>2 DEF Builds, With

LEMMA BuildsSetsOnly ==
    ASSUME PlanInv, NEW needs, NEW resources, NEW values, NEW sets,
           Builds(needs, resources, values), status' # "thrown",
           DOMAIN values \cap (AppFields \cup BusFields) \subseteq sets,
           this.class = "AzureEventHandler" /\ props.queueUseExisting
             => NoSubscription(resources)
    PROVE  SetsOnly(sets)
BY BuildsAdds DEF SetsOnly, NoSubscription

LEMMA StillSetsOnly ==
    ASSUME NEW sets, Returns \/ Throws, status' # "thrown"
    PROVE  SetsOnly(sets)
BY DEF Returns, Throws, SetsOnly

(* Ids are sequences; what the kind at their end is not, they are not.     *)
IsId(id) == \E S : id \in Seq(S)

LEMMA IdsAre ==
    /\ IsId(<<>>)
    /\ \A a : IsId(<<a>>)
    /\ \A a, b : IsId(<<a, b>>)
    /\ \A id, a : IsId(id) => IsId(Append(id, a))
<1>1. IsId(<<>>)
  BY DEF IsId
<1>2. ASSUME NEW a PROVE IsId(<<a>>)
  <2>1. <<a>> \in Seq({a})
    OBVIOUS
  <2> QED  BY <2>1 DEF IsId
<1>3. ASSUME NEW a, NEW b PROVE IsId(<<a, b>>)
  <2>1. <<a, b>> \in Seq({a, b})
    OBVIOUS
  <2> QED  BY <2>1 DEF IsId
<1>4. ASSUME NEW id, NEW a, IsId(id) PROVE IsId(Append(id, a))
  <2>1. PICK S : id \in Seq(S)
    BY <1>4 DEF IsId
  <2>2. S \subseteq S \cup {a}
    OBVIOUS
  <2>3. id \in Seq(S \cup {a})
    BY <2>1, <2>2, SeqMonotonic
  <2>4. Append(id, a) \in Seq(S \cup {a})
    BY <2>3
  <2> QED  BY <2>4 DEF IsId
<1> QED  BY <1>1, <1>2, <1>3, <1>4

LEMMA OtherKinds ==
    /\ NoSubscription({})
    /\ \A id, suffix, reads :
         IsId(id) /\ suffix # "es" => NoSubscription(Suffixed(id, suffix, reads))
    /\ \A R, S : NoSubscription(R) /\ NoSubscription(S)
         => NoSubscription(R \union S)
    /\ \A condition, R : NoSubscription(R) => NoSubscription(When(condition, R))
    /\ \A F : (\A R \in F : NoSubscription(R)) => NoSubscription(UNION F)
<1>1. ASSUME NEW id, NEW suffix, NEW reads, IsId(id), suffix # "es"
      PROVE  NoSubscription(Suffixed(id, suffix, reads))
  <2>1. PICK S : id \in Seq(S)
    BY <1>1 DEF IsId
  <2> DEFINE T == S \cup {suffix}
  <2>2. Append(id, suffix) # <<"es">>
    <3> SUFFICES ASSUME Append(id, suffix) = <<"es">> PROVE FALSE
      OBVIOUS
    <3>1. S \subseteq T /\ suffix \in T
      OBVIOUS
    <3>2. id \in Seq(T)
      BY <2>1, <3>1, SeqMonotonic
    <3> HIDE DEF T
    <3>3. /\ Len(id) \in Nat /\ Len(Append(id, suffix)) = Len(id) + 1
          /\ Append(id, suffix)[Len(id) + 1] = suffix
      <4>1. Len(id) \in Nat /\ Len(Append(id, suffix)) = Len(id) + 1
        BY <2>1
      <4>2. Append(id, suffix)[Len(id) + 1] = suffix
        BY <3>1, <3>2, <4>1, AppendProperties
      <4> QED  BY <4>1, <4>2
    <3>4. Len(<<"es">>) = 1 /\ <<"es">>[1] = "es"
      OBVIOUS
    <3>5. Len(id) + 1 = 1
      BY <3>3, <3>4
    <3>6. Append(id, suffix)[1] = suffix
      BY <3>3, <3>5
    <3>7. suffix = "es"
      BY <3>4, <3>6
    <3> QED  BY <1>1, <3>7
  <2>3. \A r \in Suffixed(id, suffix, reads) : r.id = Append(id, suffix)
    BY DEF Suffixed, Resource
  <2> QED  BY <2>2, <2>3 DEF NoSubscription
<1> QED  BY <1>1 DEF NoSubscription, When
-----------------------------------------------------------------------------
(* What stays true *)

BusMethods ==
    {"createServiceBusNamespace", "createServiceBusQueue",
     "createServiceBusQueueAuthorizationRule", "createFunctionAppSiteConfig"}

(* The props that decide, one by one.                                      *)
LEMMA PropsStay ==
    ASSUME KeepsProps
    PROVE  /\ props'.dataStorageAccount = props.dataStorageAccount
           /\ props'.useConfigOverride = props.useConfigOverride
           /\ props'.namespaceUseExisting = props.namespaceUseExisting
           /\ props'.namespaceNamed = props.namespaceNamed
           /\ props'.namespaceGroup = props.namespaceGroup
           /\ props'.queueUseExisting = props.queueUseExisting
           /\ props'.queueNamed = props.queueNamed
BY DEF KeepsProps, NamedProps

LEMMA GroupsStay ==
    ASSUME KeepsProps
    PROVE  /\ InvalidServiceBus' = InvalidServiceBus
           /\ GroupOfNamespace' = GroupOfNamespace
           /\ GroupOfQueue' = GroupOfQueue
           /\ GroupOfKey' = GroupOfKey /\ OwnKey' = OwnKey
BY PropsStay DEF InvalidServiceBus, GroupOfNamespace, GroupOfQueue,
   GroupOfKey, OwnKey, NamespaceResourceGroup

LEMMA OthersStay ==
    ASSUME KeepsProps, plan' = plan, NEW id, id # this.id,
           fields'[id] = fields[id], template \subseteq template',
           \A r \in template' : r \in template \/ r.of = this.id
    PROVE  /\ Granted(id) => Granted(id)'
           /\ Connected(id) => Connected(id)'
<1>1. this' = this
  BY DEF this
<1>2. \A m : Ran(m, id)' <=> Ran(m, id)
  BY <1>1 DEF Ran
<1>3. \A x : Has(id, x)' <=> Has(id, x)
  BY DEF Has
<1>4. Granted(id) => Granted(id)'
  BY <1>2, <1>3, PropsStay DEF Granted
<1>5. Connected(id) => Connected(id)'
  BY <1>2, <1>3, PropsStay, GroupsStay DEF Connected
<1> QED  BY <1>4, <1>5

LEMMA GrantedStays ==
    ASSUME PlanInv, KeepsProps, AppFields \subseteq DOMAIN fields[this.id],
           NEW m, Calls(m), m # "createRoleAssignments", SetsOnly(BusFields),
           Granted(this.id)
    PROVE  Granted(this.id)'
<1>1. /\ this' = this /\ this.id \in {plan[i].id : i \in DOMAIN plan}
      /\ plan' = plan /\ Left \subseteq Left' \cup {m}
  BY CallLeaves, ThisIs DEF this
<1>2. Ran("createRoleAssignments", this.id)'
        => Ran("createRoleAssignments", this.id)
  BY <1>1 DEF Ran
<1>3. \A x : Has(this.id, x) => Has(this.id, x)'
  BY <1>1 DEF Has, SetsOnly
<1>4. \A f \in AppFields : fields'[this.id][f] = fields[this.id][f]
  BY DEF SetsOnly, AppFields, BusFields
<1>5. /\ fields'[this.id].appStorageAccount = fields[this.id].appStorageAccount
      /\ fields'[this.id].storageAccountName = fields[this.id].storageAccountName
      /\ fields'[this.id].appConfig = fields[this.id].appConfig
  BY <1>4 DEF AppFields
<1> QED  BY <1>1, <1>2, <1>3, <1>5, PropsStay DEF Granted

LEMMA ConnectedStays ==
    ASSUME PlanInv, KeepsProps, BusFields \subseteq DOMAIN fields[this.id],
           this.class = "AzureEventHandler",
           NEW m, Calls(m), m \notin BusMethods, SetsOnly(AppFields),
           Connected(this.id)
    PROVE  Connected(this.id)'
<1>1. /\ this' = this /\ this.id \in {plan[i].id : i \in DOMAIN plan}
      /\ plan' = plan /\ Left' \subseteq Left /\ Left \subseteq Left' \cup {m}
  BY CallLeaves, ThisIs DEF this
<1>2. \A n \in BusMethods : Ran(n, this.id)' <=> Ran(n, this.id)
  BY <1>1 DEF Ran
<1>3. props.queueUseExisting /\ ~Has(this.id, <<"es">>)
        => ~Has(this.id, <<"es">>)'
  BY <1>1 DEF Has, SetsOnly
<1>4. \A f \in BusFields : fields'[this.id][f] = fields[this.id][f]
  BY DEF SetsOnly, AppFields, BusFields
<1>5. /\ fields'[this.id].namespaceGroup = fields[this.id].namespaceGroup
      /\ fields'[this.id].queueGroup = fields[this.id].queueGroup
      /\ fields'[this.id].queueAuthorizationRule
           = fields[this.id].queueAuthorizationRule
      /\ fields'[this.id].connectionString = fields[this.id].connectionString
      /\ fields'[this.id].connectionGroup = fields[this.id].connectionGroup
  BY <1>4 DEF BusFields
<1>6. /\ Ran("createServiceBusNamespace", this.id)'
           <=> Ran("createServiceBusNamespace", this.id)
      /\ Ran("createServiceBusQueue", this.id)'
           <=> Ran("createServiceBusQueue", this.id)
      /\ Ran("createServiceBusQueueAuthorizationRule", this.id)'
           <=> Ran("createServiceBusQueueAuthorizationRule", this.id)
      /\ Ran("createFunctionAppSiteConfig", this.id)'
           <=> Ran("createFunctionAppSiteConfig", this.id)
  BY <1>2 DEF BusMethods
<1> QED  BY <1>1, <1>3, <1>5, <1>6, PropsStay, GroupsStay DEF Connected
-----------------------------------------------------------------------------
(* What the methods set and declare *)

LEMMA MoreSets ==
    ASSUME NEW sets, SetsOnly({})
    PROVE  SetsOnly(sets)
BY DEF SetsOnly

LEMMA DeclaredKinds ==
    /\ \A id, suffix, reads :
         IsId(id) /\ suffix # "es" => NoSubscription(Suffixed(id, suffix, reads))
    /\ \A id, reads : IsId(id) => /\ NoSubscription(StorageAccount(id, reads))
                                  /\ NoSubscription(RoleAssignment(id, reads))
<1>1. \A id, suffix, reads :
         IsId(id) /\ suffix # "es" => NoSubscription(Suffixed(id, suffix, reads))
  BY OtherKinds
<1>2. ASSUME NEW id, NEW reads, IsId(id)
      PROVE  NoSubscription(StorageAccount(id, reads))
  <2>1. /\ NoSubscription(Suffixed(id, "sa", reads))
        /\ NoSubscription(Suffixed(id, "blob-props", reads))
    BY <1>1, <1>2
  <2> QED  BY <2>1, OtherKinds DEF StorageAccount
<1>3. ASSUME NEW id, NEW reads, IsId(id)
      PROVE  NoSubscription(RoleAssignment(id, reads))
  BY <1>1, <1>3 DEF RoleAssignment
<1> QED  BY <1>1, <1>2, <1>3

Quiet ==
    \E m : /\ Calls(m) /\ m # "createRoleAssignments"
           /\ m \in BusMethods => this.class # "AzureEventHandler"
           /\ SetsOnly({})

LEMMA QuietCall ==
    ASSUME NEW m, Calls(m), m # "createRoleAssignments", m \notin BusMethods,
           SetsOnly({})
    PROVE  Quiet
BY DEF Quiet

(* One resource of another kind, or none.                                  *)
LEMMA QuietlyBuilds ==
    ASSUME PlanInv, status' # "thrown",
           NEW needs, NEW id, NEW suffix, NEW reads, NEW values,
           Creates(needs, Suffixed(id, suffix, reads), values),
           IsId(id), suffix # "es",
           DOMAIN values \cap (AppFields \cup BusFields) = {}
    PROVE  SetsOnly({})
BY BuildsSetsOnly, DeclaredKinds DEF Creates

LEMMA QuietlySets ==
    ASSUME PlanInv, status' # "thrown", NEW values, Sets(values),
           DOMAIN values \cap (AppFields \cup BusFields) = {}
    PROVE  SetsOnly({})
BY BuildsSetsOnly, OtherKinds DEF Creates, Sets

LEMMA QuietMethods ==
    ASSUME PlanInv, status' # "thrown",
           CreateResourceGroup \/ ResolveCommonLogAnalyticsWorkspace \/
           ResolveApplicationInsights \/ CreateAppServicePlan \/
           CreatedParsedAppConfigurations \/ CreateAppConfigurations \/
           CreateStorageDeploymentContainer \/ CreateDataStorageContainer \/
           GenerateStorageContainerSas \/ CreateFunctionHosts \/
           CreateFunctionApp \/ InheritedSiteConfig \/
           CreateFunctionCodePackage \/ CreateDashboard
    PROVE  Quiet
<1>0. IsId(<<>>) /\ \A a : IsId(<<a>>)
  BY IdsAre
<1>1. CASE CreateResourceGroup
  <2>1. SetsOnly({})
    BY <1>0, <1>1, QuietlyBuilds, StillSetsOnly
       DEF CreateResourceGroup, ResourceGroup, AppFields, BusFields
  <2> QED  BY <1>1, <2>1, QuietCall DEF CreateResourceGroup, BusMethods
<1>2. CASE ResolveCommonLogAnalyticsWorkspace
  <2>1. SetsOnly({})
    BY <1>2, QuietlySets, StillSetsOnly
       DEF ResolveCommonLogAnalyticsWorkspace, AppFields, BusFields
  <2> QED  BY <1>2, <2>1, QuietCall
           DEF ResolveCommonLogAnalyticsWorkspace, BusMethods
<1>3. CASE ResolveApplicationInsights
  <2>1. SetsOnly({})
    BY <1>3, QuietlySets, StillSetsOnly
       DEF ResolveApplicationInsights, AppFields, BusFields
  <2> QED  BY <1>3, <2>1, QuietCall DEF ResolveApplicationInsights, BusMethods
<1>4. CASE CreateAppServicePlan
  <2>1. SetsOnly({})
    BY <1>0, <1>4, QuietlyBuilds
       DEF CreateAppServicePlan, AppServicePlan, AppFields, BusFields
  <2> QED  BY <1>4, <2>1, QuietCall DEF CreateAppServicePlan, BusMethods
<1>5. CASE CreatedParsedAppConfigurations
  <2>1. SetsOnly({})
    BY <1>5, QuietlySets
       DEF CreatedParsedAppConfigurations, AppFields, BusFields
  <2> QED  BY <1>5, <2>1, QuietCall DEF CreatedParsedAppConfigurations, BusMethods
<1>6. CASE CreateAppConfigurations
  <2>1. SetsOnly({})
    BY <1>6, QuietlySets DEF CreateAppConfigurations, AppFields, BusFields
  <2> QED  BY <1>6, <2>1, QuietCall DEF CreateAppConfigurations, BusMethods
<1>7. CASE CreateStorageDeploymentContainer
  <2>1. SetsOnly({})
    BY <1>0, <1>7, QuietlyBuilds
       DEF CreateStorageDeploymentContainer, StorageContainer, AppFields, BusFields
  <2> QED  BY <1>7, <2>1, QuietCall
           DEF CreateStorageDeploymentContainer, BusMethods
<1>8. CASE CreateDataStorageContainer
  <2>1. SetsOnly({})
    BY <1>0, <1>8, QuietlyBuilds, StillSetsOnly
       DEF CreateDataStorageContainer, StorageContainer, AppFields, BusFields
  <2> QED  BY <1>8, <2>1, QuietCall DEF CreateDataStorageContainer, BusMethods
<1>9. CASE GenerateStorageContainerSas
  <2> DEFINE kv == KeyVault(<<>>, {"resourceGroup"})
             ds == DiagnosticSettings(<<"data-key-vault">>,
                                      {"commonLogAnalyticsWorkspace"})
             secret == KeyVaultSecret(<<"sas-token-secret">>,
                                      {"dataStorageAccount", "resourceGroup"})
             needs == {"dataStorageAccount", "commonLogAnalyticsWorkspace",
                       "resourceGroup"}
             values == [dataKeyVault |-> "created"]
  <2>1. NoSubscription(kv) /\ NoSubscription(ds) /\ NoSubscription(secret)
    BY <1>0, DeclaredKinds DEF KeyVault, DiagnosticSettings, KeyVaultSecret
  <2>2. /\ Calls("generateStorageContainerSas")
        /\ Returns \/ Creates(needs, kv \union ds \union secret, values)
    BY <1>9 DEF GenerateStorageContainerSas
  <2>3. DOMAIN values \cap (AppFields \cup BusFields) = {}
    BY DEF AppFields, BusFields
  <2> HIDE DEF kv, ds, secret, needs, values
  <2>4. NoSubscription(kv \union ds \union secret)
    BY <2>1, OtherKinds
  <2>5. SetsOnly({})
    BY <2>2, <2>3, <2>4, BuildsSetsOnly, StillSetsOnly DEF Creates
  <2> QED  BY <2>2, <2>5, QuietCall DEF BusMethods
<1>10. CASE CreateFunctionHosts
  <2>1. SetsOnly({})
    BY <1>10, StillSetsOnly DEF CreateFunctionHosts
  <2> QED  BY <1>10, <2>1, QuietCall DEF CreateFunctionHosts, BusMethods
<1>11. CASE CreateFunctionApp
  <2>1. PICK needs, reads :
          /\ Calls("createFunctionApp")
          /\ Creates(needs, FunctionAppFlexConsumption(<<"function-app-flex">>, reads),
                     [app |-> "created"])
    BY <1>11 DEF CreateFunctionApp
  <2>2. NoSubscription(FunctionAppFlexConsumption(<<"function-app-flex">>, reads))
    <3>1. /\ NoSubscription(Suffixed(<<"function-app-flex">>, "fc", reads))
          /\ NoSubscription(Suffixed(<<"function-app-flex">>, "depl", reads))
      BY <1>0, DeclaredKinds
    <3> QED  BY <3>1, OtherKinds DEF FunctionAppFlexConsumption
  <2>3. SetsOnly({})
    BY <2>1, <2>2, BuildsSetsOnly DEF Creates, AppFields, BusFields
  <2> QED  BY <2>1, <2>3, QuietCall DEF BusMethods
<1>12. CASE InheritedSiteConfig
  BY <1>12, StillSetsOnly
     DEF InheritedSiteConfig, CreateFunctionAppSiteConfig, Quiet
<1>13. CASE CreateFunctionCodePackage
  <2>1. SetsOnly({})
    BY <1>13, QuietlySets
       DEF CreateFunctionCodePackage, CreateCodePackage, AppFields, BusFields
  <2> QED  BY <1>13, <2>1, QuietCall
           DEF CreateFunctionCodePackage, CreateCodePackage, BusMethods
<1>14. CASE CreateDashboard
  <2>1. PICK needs : CreateFunctionDashboard(needs)
    BY <1>14 DEF CreateDashboard
  <2>2. DOMAIN None = {}
    BY DEF None
  <2>3. SetsOnly({})
    BY <1>0, <2>1, <2>2, QuietlyBuilds, StillSetsOnly
       DEF CreateFunctionDashboard, DashBoard
  <2> QED  BY <2>1, <2>3, QuietCall DEF CreateFunctionDashboard, BusMethods
<1> QED  BY <1>1, <1>2, <1>3, <1>4, <1>5, <1>6, <1>7, <1>8, <1>9, <1>10,
            <1>11, <1>12, <1>13, <1>14
GrantedKept ==
    this.class \in FunctionAppClasses /\ Granted(this.id) => Granted(this.id)'

ConnectedKept ==
    this.class = "AzureEventHandler" /\ Connected(this.id) => Connected(this.id)'

LEMMA TheirFields ==
    ASSUME PlanInv
    PROVE  /\ this.class \in FunctionAppClasses
                => FunctionAppFields \subseteq DOMAIN fields[this.id]
           /\ this.class = "AzureEventHandler"
                => EventHandlerFields = DOMAIN fields[this.id]
           /\ AppFields \subseteq FunctionAppFields
           /\ AppFields \cup BusFields \subseteq EventHandlerFields
<1>1. DOMAIN fields[this.id] = FieldsOf[this.class]
  BY ThisIs
<1>2. FunctionAppFields \subseteq EventHandlerFields \cap RestApiFunctionFields
  BY DEF EventHandlerFields, RestApiFunctionFields
<1>3. /\ this.class \in FunctionAppClasses
           => FunctionAppFields \subseteq DOMAIN fields[this.id]
      /\ this.class = "AzureEventHandler"
           => EventHandlerFields = DOMAIN fields[this.id]
  BY <1>1, <1>2 DEF FunctionAppClasses, FieldsOf
<1>4. /\ AppFields \subseteq FunctionAppFields
      /\ AppFields \cup BusFields \subseteq EventHandlerFields
  BY DEF FunctionAppFields, EventHandlerFields, AppFields, BusFields
<1> QED  BY <1>3, <1>4

LEMMA GrantedIsKept ==
    ASSUME PlanInv, KeepsProps, NEW m, Calls(m), m # "createRoleAssignments",
           SetsOnly(BusFields)
    PROVE  GrantedKept
<1> SUFFICES ASSUME this.class \in FunctionAppClasses, Granted(this.id)
             PROVE  Granted(this.id)'
  BY DEF GrantedKept
<1>1. AppFields \subseteq DOMAIN fields[this.id]
  BY TheirFields
<1> QED  BY <1>1, GrantedStays

LEMMA ConnectedIsKept ==
    ASSUME PlanInv, KeepsProps, NEW m, Calls(m), m \notin BusMethods,
           SetsOnly(AppFields)
    PROVE  ConnectedKept
<1> SUFFICES ASSUME this.class = "AzureEventHandler", Connected(this.id)
             PROVE  Connected(this.id)'
  BY DEF ConnectedKept
<1>1. BusFields \subseteq DOMAIN fields[this.id]
  BY TheirFields
<1> QED  BY <1>1, ConnectedStays

LEMMA QuietKeeps ==
    ASSUME PlanInv, KeepsProps, Quiet
    PROVE  GrantedKept /\ ConnectedKept
<1>1. PICK m : /\ Calls(m) /\ m # "createRoleAssignments"
               /\ m \in BusMethods => this.class # "AzureEventHandler"
               /\ SetsOnly({})
  BY DEF Quiet
<1>2. SetsOnly(AppFields) /\ SetsOnly(BusFields)
  BY <1>1, MoreSets
<1>3. GrantedKept
  BY <1>1, <1>2, GrantedIsKept
<1>4. ConnectedKept
  <2>1. CASE m \in BusMethods
    BY <1>1, <2>1 DEF ConnectedKept
  <2>2. CASE m \notin BusMethods
    BY <1>1, <1>2, <2>2, ConnectedIsKept
  <2> QED  BY <2>1, <2>2
<1> QED  BY <1>3, <1>4

(* The methods of the constructs that are no function apps.                *)
LEMMA NotOfAnApp ==
    ASSUME PlanInv, NEW m, Calls(m), m \notin DOMAIN FunctionAppRank
    PROVE  this.class \notin FunctionAppClasses
BY WhenCalled DEF Rank, RankOf

LEMMA OthersAreNoApps ==
    ASSUME PlanInv,
           \/ RestApiStep /\ ~ResolveApiKeyVault
           \/ SitesStep \/ CloudflareStep
    PROVE  this.class \notin FunctionAppClasses
<1> DEFINE others ==
             {"createNamespaceSecretRole", "createSubscriptionKeySecret",
              "createApiManagementLogger", "createApiDiagnostic",
              "createRedisCache", "createRedisCacheSecret",
              "createRedisCacheNamespace", "createRedisCacheApiManagement"}
             \cup {"createSiteAppServicePlan", "createSiteStorageAccount",
                   "createSiteStorageContainer", "createWebAppSiteConfig",
                   "createWebApp"}
             \cup {"createVirtualNetwork", "createPublicIp", "createNatGateway",
                   "createSubnet", "createLoadTest", "deployLoadTests"}
             \cup DOMAIN PagesRank \cup DOMAIN WorkerRank
<1>1. ASSUME RestApiStep, ~ResolveApiKeyVault
      PROVE  IsRestApi \/ \E m \in others : Calls(m)
  BY <1>1 DEF RestApiStep, CreateApiManagement, CreateNamespaceSecretRole,
     CreateNamespaceSecret, CreateSubscriptionKeySecret,
     CreateApiManagementLogger, CreateApiDiagnostic, CreateDiagnosticLog,
     CreateRedisCache, CreateRedisCacheSecret, CreateRedisCacheNamespace,
     CreateRedisCacheApiManagement
<1>2. ASSUME SitesStep
      PROVE  IsSite \/ \E m \in others : Calls(m)
  BY <1>2 DEF SitesStep, CreateSiteAppServicePlan, CreateSiteStorageAccount,
     CreateSiteStorageContainer, CreateSiteCodePackage, CreateWebAppSiteConfig,
     CreateWebApp, CreateSiteDiagnosticLog, CreateVirtualNetwork,
     CreatePublicIp, CreateNatGateway, CreateSubnet, CreateLoadTest,
     DeployLoadTests
<1>3. ASSUME CloudflareStep
      PROVE  \E m \in others : Calls(m)
  BY <1>3 DEF CloudflareStep, ResolveZone, ResolveSecrets,
     ResolveEnvironmentVariables, CreateProject, CreateDomain, CreateRecord,
     DeploySite, ResolveWorkerEnvironmentVariables, CreateWorker,
     CreateWorkerDomain, CreateRuleset, CreateZoneSetting, PagesRank,
     WorkerRank
<1>4. IsRestApi \/ IsSite => this.class \notin FunctionAppClasses
  BY DEF IsRestApi, IsSite, FunctionAppClasses
<1>5. others \cap DOMAIN FunctionAppRank = {}
  BY DEF FunctionAppRank, PagesRank, WorkerRank
<1> HIDE DEF others
<1> QED  BY <1>1, <1>2, <1>3, <1>4, <1>5, NotOfAnApp

(* A function of a REST API subscribes nothing.                            *)
LEMMA RestApiFunctionQuiet ==
    ASSUME PlanInv, status' # "thrown",
           RestApiFunctionStep \/ ResolveApiKeyVault
    PROVE  Quiet
<1>1. CASE ResolveApiKeyVault
  <2>1. SetsOnly({})
    BY <1>1, QuietlySets DEF ResolveApiKeyVault, AppFields, BusFields
  <2> QED  BY <1>1, <2>1, QuietCall DEF ResolveApiKeyVault, BusMethods
<1>2. CASE RestApiFunctionStep
  <2>1. PICK m, needs, resources, values :
          /\ Calls(m) /\ m \notin BusMethods /\ m # "createRoleAssignments"
          /\ IsRestApiFunction \/ FunctionAppRank[m] \in 28..34
          /\ m \in DOMAIN FunctionAppRank \ Resolvers
          /\ m \notin Shared \/ IsRestApiFunction
          /\ Returns \/ Throws \/ Creates(needs, resources, values)
          /\ DOMAIN values \cap (AppFields \cup BusFields) = {}
    <3> DEFINE Fine(m, values) ==
                 /\ m \notin BusMethods /\ m # "createRoleAssignments"
                 /\ IsRestApiFunction \/ FunctionAppRank[m] \in 28..34
                 /\ m \in DOMAIN FunctionAppRank \ Resolvers
                 /\ m \notin Shared \/ IsRestApiFunction
                 /\ DOMAIN values \cap (AppFields \cup BusFields) = {}
    <3>1. CASE CreateFunctionNamespaceSecret
      <4>1. Fine("createNamespaceSecret", [namedValueSecret |-> "created"])
        BY <3>1 DEF CreateFunctionNamespaceSecret, FunctionAppRank, BusMethods,
           Resolvers, AppFields, BusFields
      <4> QED  BY <3>1, <4>1 DEF CreateFunctionNamespaceSecret
    <3>2. CASE CreateFunctionApiManagement
      <4>1. /\ Fine("createApiManagement",
                    [apiName |-> "existing", apiGroup |-> "existing"])
            /\ \A g : Fine("createApiManagement",
                    [apim |-> "created", apiName |-> "created", apiGroup |-> g])
        BY <3>2 DEF CreateFunctionApiManagement, FunctionAppRank, BusMethods,
           Resolvers, AppFields, BusFields
      <4> QED  BY <3>2, <4>1 DEF CreateFunctionApiManagement, Sets
    <3>3. CASE CreateApiManagementNamespace
      <4>1. Fine("createApiManagementNamespace",
                 [namedValue |-> "created", backend |-> "created"])
        BY DEF FunctionAppRank, BusMethods, Shared, Resolvers, AppFields,
           BusFields
      <4> QED  BY <3>3, <4>1 DEF CreateApiManagementNamespace
    <3>4. CASE CreateApiManagementRoutes
      <4>1. \A x : Fine("createApiManagementRoutes",
                        [managementApi |-> "created", apiOperations |-> x])
        BY DEF FunctionAppRank, BusMethods, Shared, Resolvers, AppFields,
           BusFields
      <4> QED  BY <3>4, <4>1 DEF CreateApiManagementRoutes
    <3>5. CASE CreateCorsPolicy
      <4>1. \A x : Fine("createCorsPolicy", [corsPolicy |-> x])
        BY DEF FunctionAppRank, BusMethods, Shared, Resolvers, AppFields,
           BusFields
      <4> QED  BY <3>5, <4>1 DEF CreateCorsPolicy, Sets
    <3>6. CASE CreateApiPolicy
      <4>1. Fine("createApiPolicy", None)
        BY DEF FunctionAppRank, BusMethods, Shared, Resolvers, AppFields,
           BusFields, None
      <4> QED  BY <3>6, <4>1 DEF CreateApiPolicy
    <3> QED  BY <1>2, <3>1, <3>2, <3>3, <3>4, <3>5, <3>6
             DEF RestApiFunctionStep
  <2>2. this.class # "AzureEventHandler"
    <3>1. CASE IsRestApiFunction
      BY <3>1 DEF IsRestApiFunction
    <3>2. CASE ~IsRestApiFunction
      <4>1. this.class = "AzureRestApiFunction"
        BY <2>1, <3>2, FunctionAppCall
      <4> QED  BY <4>1
    <3> QED  BY <3>1, <3>2
  <2>3. SetsOnly({})
    BY <2>1, <2>2, BuildsSetsOnly, StillSetsOnly DEF Creates
  <2> QED  BY <2>1, <2>3, QuietCall
<1> QED  BY <1>1, <1>2
-----------------------------------------------------------------------------
(* The accounts and the configuration store of an app *)

(* What an app may read, by its props.                                     *)
LEMMA GrantedAfter ==
    ASSUME PlanInv, KeepsProps, this.class \in FunctionAppClasses,
           NEW m, Calls(m), m # "createRoleAssignments", SetsOnly(AppFields),
           fields'[this.id].appStorageAccount \in {NotSet, "app"},
           fields'[this.id].storageAccountName = "data"
             => props.dataStorageAccount,
           fields'[this.id].appConfig = "existing" => ~props.useConfigOverride,
           Granted(this.id)
    PROVE  Granted(this.id)'
<1>1. /\ this' = this /\ this.id \in {plan[i].id : i \in DOMAIN plan}
      /\ plan' = plan /\ Left \subseteq Left' \cup {m}
  BY CallLeaves, ThisIs DEF this
<1>2. Ran("createRoleAssignments", this.id)'
        => Ran("createRoleAssignments", this.id)
  BY <1>1 DEF Ran
<1>3. \A x : Has(this.id, x) => Has(this.id, x)'
  BY <1>1 DEF Has, SetsOnly
<1> QED  BY <1>1, <1>2, <1>3, PropsStay DEF Granted

LEMMA AccountsKeep ==
    ASSUME PlanInv, KeepsProps, status' # "thrown",
           CreateAppConfiguration \/ CreateStorageAccount \/
           CreateStorageContainer \/ CreateDataStorageAccount
    PROVE  GrantedKept /\ ConnectedKept
<1> DEFINE before == fields[this.id]
           after == fields'[this.id]
<1>0. /\ NoSubscription({})
      /\ \A a, reads : /\ NoSubscription(StorageAccount(<<a>>, reads))
                       /\ NoSubscription(Suffixed(<<a>>, "sc", reads))
                       /\ NoSubscription(Suffixed(<<a>>, "ac", reads))
  BY IdsAre, DeclaredKinds, OtherKinds
<1>1. PICK m, needs, resources, values :
        /\ Calls(m) /\ m \notin BusMethods /\ m # "createRoleAssignments"
        /\ Returns \/ Creates(needs, resources, values)
        /\ NoSubscription(resources)
        /\ DOMAIN values \cap (AppFields \cup BusFields) \subseteq AppFields
        /\ "appStorageAccount" \in DOMAIN values
             => values["appStorageAccount"] = "app"
        /\ "storageAccountName" \in DOMAIN values =>
             \/ values["storageAccountName"] = "data" /\ props.dataStorageAccount
             \/ values["storageAccountName"] = Field("appStorageAccount")
        /\ "appConfig" \in DOMAIN values =>
             \/ values["appConfig"] = "existing" /\ ~props.useConfigOverride
             \/ values["appConfig"] = "created"
  <2> DEFINE Fine(m, resources, values) ==
        /\ m \notin BusMethods /\ m # "createRoleAssignments"
        /\ NoSubscription(resources)
        /\ DOMAIN values \cap (AppFields \cup BusFields) \subseteq AppFields
        /\ "appStorageAccount" \in DOMAIN values
             => values["appStorageAccount"] = "app"
        /\ "storageAccountName" \in DOMAIN values =>
             \/ values["storageAccountName"] = "data" /\ props.dataStorageAccount
             \/ values["storageAccountName"] = Field("appStorageAccount")
        /\ "appConfig" \in DOMAIN values =>
             \/ values["appConfig"] = "existing" /\ ~props.useConfigOverride
             \/ values["appConfig"] = "created"
  <2>1. CASE CreateAppConfiguration
    <3>1. Fine("createAppConfiguration",
               ConfigurationStore(<<"app-configuration">>, {"resourceGroup"}),
               [appConfig |-> "created"])
      BY <1>0 DEF ConfigurationStore, BusMethods, AppFields, BusFields
    <3>2. ~props.useConfigOverride
            => Fine("createAppConfiguration", {}, [appConfig |-> "existing"])
      BY <1>0 DEF BusMethods, AppFields, BusFields
    <3> HIDE DEF Fine
    <3>3. /\ Calls("createAppConfiguration")
          /\ \/ Creates({"resourceGroup"},
                  ConfigurationStore(<<"app-configuration">>, {"resourceGroup"}),
                  [appConfig |-> "created"])
             \/ Returns
             \/ /\ ~props.useConfigOverride
                /\ Creates({}, {}, [appConfig |-> "existing"])
      BY <2>1 DEF CreateAppConfiguration, Sets
    <3>4. \E needs, resources, values :
            /\ Fine("createAppConfiguration", resources, values)
            /\ Returns \/ Creates(needs, resources, values)
      BY <3>1, <3>2, <3>3
    <3> QED  BY <3>3, <3>4 DEF Fine
  <2>2. CASE CreateStorageAccount
    <3>1. Fine("createStorageAccount",
               StorageAccount(<<"storage-account">>, {"resourceGroup"}),
               [appStorageAccount |-> "app"])
      BY <1>0 DEF BusMethods, AppFields, BusFields
    <3> QED  BY <2>2, <3>1 DEF CreateStorageAccount
  <2>3. CASE CreateStorageContainer
    <3>1. Fine("createStorageContainer",
               StorageContainer(<<"storage-container">>,
                                {"appStorageAccount", "resourceGroup"}),
               [storageContainer |-> "created",
                storageAccountName |-> Field("appStorageAccount")])
      BY <1>0 DEF StorageContainer, BusMethods, AppFields, BusFields
    <3> QED  BY <2>3, <3>1 DEF CreateStorageContainer
  <2>4. CASE CreateDataStorageAccount
    <3>1. props.dataStorageAccount =>
            Fine("createDataStorageAccount",
                 StorageAccount(<<"data-storage-account">>, {"resourceGroup"}),
                 [dataStorageAccount |-> "data", storageAccountName |-> "data"])
      BY <1>0 DEF BusMethods, AppFields, BusFields
    <3>2. Fine("createDataStorageAccount", {}, None)
      BY <1>0 DEF BusMethods, AppFields, BusFields, None
    <3> HIDE DEF Fine
    <3>3. /\ Calls("createDataStorageAccount")
          /\ \/ Returns
             \/ /\ props.dataStorageAccount
                /\ Creates({"resourceGroup"},
                     StorageAccount(<<"data-storage-account">>, {"resourceGroup"}),
                     [dataStorageAccount |-> "data", storageAccountName |-> "data"])
      BY <2>4 DEF CreateDataStorageAccount
    <3>4. \E needs, resources, values :
            /\ Fine("createDataStorageAccount", resources, values)
            /\ Returns \/ Creates(needs, resources, values)
      BY <3>1, <3>2, <3>3
    <3> QED  BY <3>3, <3>4 DEF Fine
  <2> HIDE DEF Fine
  <2> QED  BY <2>1, <2>2, <2>3, <2>4
<1>2. SetsOnly(AppFields)
  BY <1>1, BuildsSetsOnly, StillSetsOnly DEF Creates
<1>3. ConnectedKept
  BY <1>1, <1>2, ConnectedIsKept
<1>4. GrantedKept
  <2> SUFFICES ASSUME this.class \in FunctionAppClasses, Granted(this.id)
               PROVE  Granted(this.id)'
    BY DEF GrantedKept
  <2>1. AppFields \subseteq DOMAIN fields[this.id]
    BY TheirFields
  <2>2. /\ before.appStorageAccount \in {NotSet, "app"}
        /\ before.storageAccountName = "data" => props.dataStorageAccount
        /\ before.appConfig = "existing" => ~props.useConfigOverride
    BY DEF Granted
  <2>3. \A f \in AppFields :
           \/ after[f] = before[f]
           \/ f \in DOMAIN values /\ after[f] = values[f]
    <3>1. CASE Returns
      BY <3>1 DEF Returns
    <3>2. CASE Creates(needs, resources, values)
      BY <2>1, <3>2, BuildsAdds DEF Creates
    <3> QED  BY <1>1, <3>1, <3>2
  <2>4. NotSet # "data" /\ "app" # "data"
    BY NotSetAssumption
  <2>5. /\ after.appStorageAccount \in {NotSet, "app"}
        /\ after.storageAccountName = "data" => props.dataStorageAccount
        /\ after.appConfig = "existing" => ~props.useConfigOverride
    BY <1>1, <2>2, <2>3, <2>4 DEF AppFields, Field
  <2> QED  BY <1>1, <1>2, <2>5, GrantedAfter
<1> QED  BY <1>3, <1>4
-----------------------------------------------------------------------------
(* The roles of an app *)

(* What the managers append to the ids they are given.                     *)
LEMMA ShortIds ==
    /\ \A a : Append(<<>>, a) = <<a>>
    /\ \A a, b : Append(<<a>>, b) = <<a, b>>
    /\ \A a, b, c : Append(<<a, b>>, c) = <<a, b, c>>
    /\ \A a, b : <<>> \o <<a, b>> = <<a, b>>
<1>1. ASSUME NEW S, NEW s \in Seq(S), NEW e \in S, NEW t \in Seq(S),
             Len(t) = Len(s) + 1, \A i \in 1..Len(s) : t[i] = s[i],
             t[Len(s) + 1] = e
      PROVE  Append(s, e) = t
  <2>1. /\ Append(s, e) \in Seq(S) /\ Len(Append(s, e)) = Len(s) + 1
        /\ \A i \in 1..Len(s) : Append(s, e)[i] = s[i]
        /\ Append(s, e)[Len(s) + 1] = e
    BY AppendProperties
  <2>2. Len(s) \in Nat
    OBVIOUS
  <2>3. \A i \in 1..(Len(s) + 1) : i \in 1..Len(s) \/ i = Len(s) + 1
    BY <2>2
  <2>4. \A i \in 1..Len(t) : Append(s, e)[i] = t[i]
    BY <1>1, <2>1, <2>3
  <2> QED  BY <1>1, <2>1, <2>4, SeqEqual
<1>2. \A a : Append(<<>>, a) = <<a>>
  OBVIOUS
<1>3. ASSUME NEW a, NEW b PROVE Append(<<a>>, b) = <<a, b>>
  <2>1. /\ <<a>> \in Seq({a, b}) /\ <<a, b>> \in Seq({a, b})
        /\ Len(<<a>>) = 1 /\ Len(<<a, b>>) = 2
        /\ <<a>>[1] = a /\ <<a, b>>[1] = a /\ <<a, b>>[2] = b
    OBVIOUS
  <2>2. \A i \in 1..1 : i = 1
    OBVIOUS
  <2> DEFINE s == <<a>>
             t == <<a, b>>
  <2> HIDE DEF s, t
  <2>3. /\ s \in Seq({a, b}) /\ t \in Seq({a, b}) /\ Len(s) = 1 /\ Len(t) = 2
        /\ \A i \in 1..Len(s) : t[i] = s[i]
        /\ t[Len(s) + 1] = b /\ Len(t) = Len(s) + 1
    BY <2>1, <2>2 DEF s, t
  <2>4. Append(s, b) = t
    BY <1>1, <2>3
  <2> QED  BY <2>4 DEF s, t
<1>4. ASSUME NEW a, NEW b, NEW c PROVE Append(<<a, b>>, c) = <<a, b, c>>
  <2> DEFINE s == <<a, b>>
             t == <<a, b, c>>
  <2>1. /\ s \in Seq({a, b, c}) /\ t \in Seq({a, b, c})
        /\ Len(s) = 2 /\ Len(t) = 3
        /\ s[1] = a /\ s[2] = b /\ t[1] = a /\ t[2] = b /\ t[3] = c
    OBVIOUS
  <2> HIDE DEF s, t
  <2>2. \A i \in 1..2 : i = 1 \/ i = 2
    OBVIOUS
  <2>3. /\ \A i \in 1..Len(s) : t[i] = s[i]
        /\ t[Len(s) + 1] = c /\ Len(t) = Len(s) + 1
    BY <2>1, <2>2
  <2>4. Append(s, c) = t
    BY <1>1, <2>1, <2>3
  <2> QED  BY <2>4 DEF s, t
<1>5. ASSUME NEW a, NEW b PROVE <<>> \o <<a, b>> = <<a, b>>
  <2>1. <<a, b>> \in Seq({a, b})
    OBVIOUS
  <2> QED  BY <2>1, ConcatEmptySeq
<1> QED  BY <1>2, <1>3, <1>4, <1>5

LEMMA RolesKeep ==
    ASSUME PlanInv, KeepsProps, status' # "thrown", CreateRoleAssignments
    PROVE  GrantedKept /\ ConnectedKept
<1> DEFINE m == "createRoleAssignments"
           own == StorageAccountRole(<<>>, {"appStorageAccount", "app"})
           store == When(~props.useConfigOverride,
                      ApplicationConfigurationRole(<<>>, {"appConfig", "app"}))
           cosmos == When(HasCosmosDependencies, CosmosRoles(<<>>, {"app"}))
           topics == When(HasEventGridTargets, EventgridTopicRole(<<>>, {"app"}))
           vaults == UNION {KeyVaultRole(<<>>, v, {"app"}) :
                              v \in Coalesce(Field("keyVaults"), {})}
           resources == DataAccountRole \union own \union store \union cosmos
                          \union topics \union vaults
<1>1. /\ Calls(m)
      /\ \E needs : Returns \/ Throws \/ Creates(needs, resources, None)
  BY DEF CreateRoleAssignments
<1>2. /\ \E r \in own : r.of = this.id /\ r.id = <<"sa", "role">>
      /\ props.dataStorageAccount => \E r \in DataAccountRole :
           r.of = this.id /\ r.id = <<"data", "sa", "role">>
      /\ ~props.useConfigOverride => \E r \in store :
           r.of = this.id /\ r.id = <<"ac", "role">>
  <2>1. \A id, reads : \E r \in RoleAssignment(id, reads) :
           r.of = this.id /\ r.id = Append(id, "role")
    BY DEF RoleAssignment, Suffixed, Resource
  <2>2. /\ Append(Append(<<>>, "sa"), "role") = <<"sa", "role">>
        /\ Append(Append(<<>>, "ac"), "role") = <<"ac", "role">>
        /\ Append(Append(<<"data">>, "sa"), "role") = <<"data", "sa", "role">>
    <3>1. \A a, b : Append(Append(<<>>, a), b) = <<a, b>>
      BY ShortIds, Zenon
    <3>2. ASSUME NEW a, NEW b, NEW c
          PROVE  Append(Append(<<a>>, b), c) = <<a, b, c>>
      <4>1. Append(<<a>>, b) = <<a, b>> /\ Append(<<a, b>>, c) = <<a, b, c>>
        BY ShortIds
      <4> QED  BY <4>1, Zenon
    <3> QED  BY <3>1, <3>2, Zenon
  <2>3. \E r \in own : r.of = this.id /\ r.id = <<"sa", "role">>
    BY <2>1, <2>2 DEF StorageAccountRole
  <2>4. props.dataStorageAccount => \E r \in DataAccountRole :
           r.of = this.id /\ r.id = <<"data", "sa", "role">>
    BY <2>1, <2>2 DEF DataAccountRole, StorageAccountRole, When
  <2>5. ~props.useConfigOverride => \E r \in store :
           r.of = this.id /\ r.id = <<"ac", "role">>
    BY <2>1, <2>2 DEF ApplicationConfigurationRole, When
  <2> QED  BY <2>3, <2>4, <2>5
<1>3. NoSubscription(resources)
  <2>1. \A id, reads : IsId(id) => NoSubscription(RoleAssignment(id, reads))
    BY DeclaredKinds
  <2>2. /\ IsId(<<"sa">>) /\ IsId(<<"data", "sa">>) /\ IsId(<<"ac">>)
        /\ IsId(<<"egt">>) /\ \A v : IsId(<<"kv", v>>) /\ IsId(<<"cdb", v>>)
    BY IdsAre
  <2>3. NoSubscription(DataAccountRole) /\ NoSubscription(own)
    BY ShortIds, <2>1, <2>2, OtherKinds DEF DataAccountRole, StorageAccountRole
  <2>4. NoSubscription(store) /\ NoSubscription(topics)
    BY ShortIds, <2>1, <2>2, OtherKinds DEF ApplicationConfigurationRole, EventgridTopicRole
  <2>5. NoSubscription(CosmosRoles(<<>>, {"app"}))
    <3>1. \A role : NoSubscription(RoleAssignment(<<>> \o <<"cdb", role>>, {"app"}))
      BY ShortIds, <2>1, <2>2
    <3> QED  BY <3>1, OtherKinds DEF CosmosRoles
  <2>6. NoSubscription(cosmos)
    BY <2>5, OtherKinds
  <2>7. NoSubscription(vaults)
    <3>1. \A v : NoSubscription(KeyVaultRole(<<>>, v, {"app"}))
      BY ShortIds, <2>1, <2>2 DEF KeyVaultRole
    <3> QED  BY <3>1, OtherKinds
  <2> HIDE DEF own, store, cosmos, topics, vaults
  <2> QED  BY <2>3, <2>4, <2>6, <2>7, OtherKinds
<1>4. PICK needs : Creates(needs, resources, None)
  <2>1. ~props.subscriptionId => Throws
    BY DEF CreateRoleAssignments, RoleDefinitionThrows
  <2>2. ~Throws
    BY DEF Throws
  <2> QED  BY <2>1, <2>2 DEF CreateRoleAssignments, RoleDefinitionThrows
<1> HIDE DEF resources, own, store
<1>5. Builds(needs, resources, None) /\ DOMAIN None = {}
  BY <1>4 DEF Creates, None
<1>6. SetsOnly(AppFields) /\ SetsOnly(BusFields)
  BY <1>3, <1>5, BuildsSetsOnly
<1>7. ConnectedKept
  BY <1>1, <1>6, ConnectedIsKept DEF BusMethods
<1>8. GrantedKept
  <2> SUFFICES ASSUME this.class \in FunctionAppClasses, Granted(this.id)
               PROVE  Granted(this.id)'
    BY DEF GrantedKept
  <2>1. this' = this
    BY <1>1 DEF Calls, this
  <2>2. template' = template \union resources
    BY <1>5, BuildsAdds
  <2>3. /\ Has(this.id, <<"sa", "role">>)'
        /\ props.dataStorageAccount => Has(this.id, <<"data", "sa", "role">>)'
        /\ ~props.useConfigOverride => Has(this.id, <<"ac", "role">>)'
    BY <1>2, <2>1, <2>2 DEF Has, resources
  <2>4. AppFields \subseteq DOMAIN fields[this.id]
    BY TheirFields
  <2>5. /\ fields'[this.id].appStorageAccount = fields[this.id].appStorageAccount
        /\ fields'[this.id].storageAccountName = fields[this.id].storageAccountName
        /\ fields'[this.id].appConfig = fields[this.id].appConfig
    BY <1>5, <2>4, BuildsAdds DEF AppFields
  <2> QED  BY <2>1, <2>3, <2>5, PropsStay DEF Granted
<1> QED  BY <1>7, <1>8
-----------------------------------------------------------------------------
(* The namespace, the queue and the key of an event handler *)

LEMMA EventHandlerCall ==
    ASSUME PlanInv, NEW m \in DOMAIN FunctionAppRank \ Resolvers, Calls(m),
           m \notin Shared, FunctionAppRank[m] \in 4..12
    PROVE  this.class = "AzureEventHandler"
<1>1. this.class \in FunctionAppClasses /\ m \in DOMAIN Rank
      /\ Rank = FunctionAppRank
  BY FunctionAppCall
<1>2. Belongs(this.class, Rank[m])
  BY WhenCalled
<1> QED  BY <1>1, <1>2 DEF Belongs

LEMMA EventHandlerQuiet ==
    ASSUME PlanInv, status' # "thrown",
           CreateEventGridSubscriptionDlqStorageAccount \/
           CreateEventGridSubscriptionDlqStorageContainer \/
           CreateEventGrid \/ CreateEventGridEventSubscription \/
           CreateServiceBusDiagnosticLog \/
           EnableMalwareScanningOnDataStorageAccount
    PROVE  Quiet
<1>0. IsId(<<>>) /\ \A a : IsId(<<a>>)
  BY IdsAre
<1>1. CASE CreateEventGridSubscriptionDlqStorageAccount
  <2>1. NoSubscription(StorageAccount(
            <<"eventgrid-subscription-dlq-storage-account">>, {"resourceGroup"}))
    BY <1>0, DeclaredKinds
  <2>2. SetsOnly({})
    BY <1>1, <2>1, BuildsSetsOnly, StillSetsOnly
       DEF CreateEventGridSubscriptionDlqStorageAccount, Creates, AppFields,
           BusFields
  <2> QED  BY <1>1, <2>2, QuietCall
           DEF CreateEventGridSubscriptionDlqStorageAccount, BusMethods
<1>2. CASE CreateEventGridSubscriptionDlqStorageContainer
  <2>1. SetsOnly({})
    BY <1>0, <1>2, QuietlyBuilds, StillSetsOnly
       DEF CreateEventGridSubscriptionDlqStorageContainer, StorageContainer,
           AppFields, BusFields
  <2> QED  BY <1>2, <2>1, QuietCall
           DEF CreateEventGridSubscriptionDlqStorageContainer, BusMethods
<1>3. CASE CreateEventGrid
  <2>1. SetsOnly({})
    <3>1. NoSubscription(SubscriptionProvider)
      BY <1>0, OtherKinds DEF SubscriptionProvider
    <3>2. CASE props.useExistingTopic
      <4> DEFINE found == IF props.existingTopicNamed
                            THEN [eventGridTopic |-> "existing"] ELSE None
      <4>1. DOMAIN found \cap (AppFields \cup BusFields) = {}
        BY DEF None, AppFields, BusFields
      <4>2. Builds({}, SubscriptionProvider, found)
        BY <1>3, <3>2 DEF CreateEventGrid, Creates
      <4> HIDE DEF found
      <4> QED  BY <3>1, <4>1, <4>2, BuildsSetsOnly
    <3>3. CASE ~props.useExistingTopic
      BY <1>0, <1>3, <3>3, QuietlyBuilds
         DEF CreateEventGrid, EventgridTopic, AppFields, BusFields
    <3> QED  BY <3>2, <3>3
  <2> QED  BY <1>3, <2>1, QuietCall DEF CreateEventGrid, BusMethods
<1>4. CASE CreateEventGridEventSubscription
  <2>1. CASE Returns
    BY <1>4, <2>1, StillSetsOnly, QuietCall
       DEF CreateEventGridEventSubscription, BusMethods
  <2>2. CASE ~Returns
    <3>1. PICK needs, resources :
            /\ ~props.queueUseExisting
            /\ Creates(needs, resources, [eventSubscription |-> "created"])
      BY <1>4, <2>2 DEF CreateEventGridEventSubscription
    <3>2. SetsOnly({})
      BY <3>1, BuildsSetsOnly DEF Creates, AppFields, BusFields
    <3> QED  BY <1>4, <3>2, QuietCall
             DEF CreateEventGridEventSubscription, BusMethods
  <2> QED  BY <2>1, <2>2
<1>5. CASE CreateServiceBusDiagnosticLog
  <2>1. DOMAIN None = {}
    BY DEF None
  <2>2. SetsOnly({})
    BY <1>0, <1>5, <2>1, QuietlyBuilds, StillSetsOnly
       DEF CreateServiceBusDiagnosticLog, DiagnosticSettings
  <2> QED  BY <1>5, <2>2, QuietCall DEF CreateServiceBusDiagnosticLog, BusMethods
<1>6. CASE EnableMalwareScanningOnDataStorageAccount
  <2>1. DOMAIN None = {}
    BY DEF None
  <2>2. SetsOnly({})
    BY <1>0, <1>6, <2>1, QuietlyBuilds, StillSetsOnly
       DEF EnableMalwareScanningOnDataStorageAccount, DefenderForStorage
  <2> QED  BY <1>6, <2>2, QuietCall
           DEF EnableMalwareScanningOnDataStorageAccount, BusMethods
<1> QED  BY <1>1, <1>2, <1>3, <1>4, <1>5, <1>6

(* One method of the four sets its own fields, the others stay.            *)
LEMMA BusMethodLeaves ==
    ASSUME PlanInv, KeepsProps, this.class = "AzureEventHandler",
           NEW m \in BusMethods, Calls(m), SetsOnly(BusFields),
           Connected(this.id)
    PROVE  /\ this' = this
           /\ Ran(m, this.id)' /\ ~Ran(m, this.id)
           /\ \A n \in BusMethods : n = m \/ (Ran(n, this.id)' <=> Ran(n, this.id))
           /\ props.queueUseExisting => ~Has(this.id, <<"es">>)'
<1>1. /\ this' = this /\ this.id \in {plan[i].id : i \in DOMAIN plan}
      /\ plan' = plan /\ Left' \subseteq Left /\ Left \subseteq Left' \cup {m}
      /\ m \in Left
  BY CallLeaves, ThisIs DEF this
<1>2. m \notin Left'
  BY CallLeaves DEF BusMethods, Resolvers
<1>3. Ran(m, this.id)' /\ ~Ran(m, this.id)
  BY <1>1, <1>2 DEF Ran
<1>4. \A n \in BusMethods : n = m \/ (Ran(n, this.id)' <=> Ran(n, this.id))
  BY <1>1 DEF Ran
<1>5. props.queueUseExisting => ~Has(this.id, <<"es">>)'
  BY <1>1 DEF Has, SetsOnly, Connected
<1> QED  BY <1>1, <1>3, <1>4, <1>5

LEMMA NamespaceKeeps ==
    ASSUME PlanInv, KeepsProps, status' # "thrown", CreateServiceBusNamespace
    PROVE  GrantedKept /\ ConnectedKept
<1> DEFINE m == "createServiceBusNamespace"
<1>1. Calls(m)
  BY DEF CreateServiceBusNamespace
<1>2. /\ ~InvalidServiceBus
      /\ \E needs, resources, n :
           /\ NoSubscription(resources)
           /\ Builds(needs, resources,
                     [namespace |-> n, namespaceGroup |-> GroupOfNamespace])
  <2>1. ~Throws
    BY DEF Throws
  <2>2. NoSubscription({}) /\ NoSubscription(ServiceBusNamespace(<<>>, {"resourceGroup"}))
    <3>1. /\ NoSubscription(Suffixed(<<>>, "sn", {"resourceGroup"}))
          /\ NoSubscription(Suffixed(<<>>, "sn-geo", {"resourceGroup"}))
      BY IdsAre, DeclaredKinds
    <3> QED  BY <3>1, OtherKinds DEF ServiceBusNamespace, GeoReplicationDeployment
  <2>3. CASE props.namespaceUseExisting /\ props.namespaceNamed
    BY <2>1, <2>2, <2>3
       DEF CreateServiceBusNamespace, Sets, Creates, GroupOfNamespace
  <2>4. CASE ~(props.namespaceUseExisting /\ props.namespaceNamed)
    BY <2>1, <2>2, <2>4
       DEF CreateServiceBusNamespace, Creates, GroupOfNamespace
  <2> QED  BY <2>3, <2>4
<1>3. PICK needs, resources, n :
           /\ NoSubscription(resources)
           /\ Builds(needs, resources,
                     [namespace |-> n, namespaceGroup |-> GroupOfNamespace])
  BY <1>2
<1>4. SetsOnly(BusFields)
  BY <1>3, BuildsSetsOnly DEF AppFields, BusFields
<1>5. GrantedKept
  BY <1>1, <1>4, GrantedIsKept
<1>6. ConnectedKept
  <2> SUFFICES ASSUME this.class = "AzureEventHandler", Connected(this.id)
               PROVE  Connected(this.id)'
    BY DEF ConnectedKept
  <2>1. BusFields \subseteq DOMAIN fields[this.id]
    BY TheirFields
  <2>2. \A f \in BusFields :
           fields'[this.id][f] = IF f = "namespaceGroup" THEN GroupOfNamespace
                                 ELSE fields[this.id][f]
    BY <1>3, <2>1, BuildsAdds DEF BusFields
  <2>3. m \in BusMethods
    BY DEF BusMethods
  <2>4. /\ this' = this /\ \A x \in BusMethods :
             x = m \/ (Ran(x, this.id)' <=> Ran(x, this.id))
        /\ props.queueUseExisting => ~Has(this.id, <<"es">>)'
    BY <1>1, <1>4, <2>3, BusMethodLeaves
  <2> HIDE DEF m
  <2> QED  BY <1>2, <2>2, <2>4, PropsStay, GroupsStay
           DEF Connected, BusFields, BusMethods, m
<1> QED  BY <1>5, <1>6

LEMMA QueueKeeps ==
    ASSUME PlanInv, KeepsProps, status' # "thrown", CreateServiceBusQueue
    PROVE  GrantedKept /\ ConnectedKept
<1> DEFINE m == "createServiceBusQueue"
<1>1. Calls(m)
  BY DEF CreateServiceBusQueue
<1>2. PICK needs, resources, q :
        /\ NoSubscription(resources)
        /\ Builds(needs, resources, [queue |-> q, queueGroup |-> GroupOfQueue])
  <2>1. NoSubscription({}) /\ NoSubscription(
          ServiceBusQueue(<<>>, {"namespace", "namespaceGroup"}))
    BY IdsAre, DeclaredKinds, OtherKinds DEF ServiceBusQueue
  <2>2. CASE props.queueUseExisting /\ props.namespaceNamed /\ props.queueNamed
    BY <2>1, <2>2 DEF CreateServiceBusQueue, Sets, Creates, GroupOfQueue
  <2>3. CASE ~(props.queueUseExisting /\ props.namespaceNamed /\ props.queueNamed)
    BY <2>1, <2>3 DEF CreateServiceBusQueue, Creates, GroupOfQueue
  <2> QED  BY <2>2, <2>3
<1>3. SetsOnly(BusFields)
  BY <1>2, BuildsSetsOnly DEF AppFields, BusFields
<1>4. GrantedKept
  BY <1>1, <1>3, GrantedIsKept
<1>5. ConnectedKept
  <2> SUFFICES ASSUME this.class = "AzureEventHandler", Connected(this.id)
               PROVE  Connected(this.id)'
    BY DEF ConnectedKept
  <2>1. BusFields \subseteq DOMAIN fields[this.id]
    BY TheirFields
  <2>2. \A f \in BusFields :
           fields'[this.id][f] = IF f = "queueGroup" THEN GroupOfQueue
                                 ELSE fields[this.id][f]
    BY <1>2, <2>1, BuildsAdds DEF BusFields
  <2>3. m \in BusMethods
    BY DEF BusMethods
  <2>4. /\ this' = this /\ \A x \in BusMethods :
             x = m \/ (Ran(x, this.id)' <=> Ran(x, this.id))
        /\ props.queueUseExisting => ~Has(this.id, <<"es">>)'
    BY <1>1, <1>3, <2>3, BusMethodLeaves
  <2> QED  BY <2>2, <2>4, PropsStay, GroupsStay DEF Connected, BusFields, BusMethods
<1> QED  BY <1>4, <1>5

LEMMA RuleKeeps ==
    ASSUME PlanInv, KeepsProps, status' # "thrown",
           CreateServiceBusQueueAuthorizationRule
    PROVE  GrantedKept /\ ConnectedKept
<1> DEFINE m == "createServiceBusQueueAuthorizationRule"
<1>1. Calls(m)
  BY DEF CreateServiceBusQueueAuthorizationRule
<1>2. \/ Returns /\ props.queueUseExisting
      \/ /\ ~props.queueUseExisting
         /\ \E needs, resources :
              /\ NoSubscription(resources)
              /\ Builds(needs, resources,
                        [queueAuthorizationRule |-> "listen-send"])
  <2>1. NoSubscription(ServiceBusQueueAuthorizationRule(<<>>,
                          {"namespace", "queue", "queueGroup"}))
    BY IdsAre, DeclaredKinds DEF ServiceBusQueueAuthorizationRule
  <2> QED  BY <2>1 DEF CreateServiceBusQueueAuthorizationRule, Creates
<1>3. SetsOnly(BusFields)
  BY <1>2, BuildsSetsOnly, StillSetsOnly DEF AppFields, BusFields
<1>4. GrantedKept
  BY <1>1, <1>3, GrantedIsKept
<1>5. ConnectedKept
  <2> SUFFICES ASSUME this.class = "AzureEventHandler", Connected(this.id)
               PROVE  Connected(this.id)'
    BY DEF ConnectedKept
  <2>1. BusFields \subseteq DOMAIN fields[this.id]
    BY TheirFields
  <2>2. m \in BusMethods
    BY DEF BusMethods
  <2>3. /\ this' = this /\ Ran(m, this.id)' /\ ~Ran(m, this.id)
        /\ \A x \in BusMethods : x = m \/ (Ran(x, this.id)' <=> Ran(x, this.id))
        /\ props.queueUseExisting => ~Has(this.id, <<"es">>)'
    BY <1>1, <1>3, <2>2, BusMethodLeaves
  <2>4. fields[this.id].queueAuthorizationRule = NotSet
    BY <2>3 DEF Connected
  <2>5. \A f \in BusFields :
           fields'[this.id][f] = IF f = "queueAuthorizationRule" THEN OwnKey
                                 ELSE fields[this.id][f]
    <3>1. CASE Returns /\ props.queueUseExisting
      BY <2>4, <3>1 DEF Returns, OwnKey
    <3>2. CASE ~props.queueUseExisting
      <4>1. PICK needs, resources :
              Builds(needs, resources, [queueAuthorizationRule |-> "listen-send"])
        BY <1>2, <3>2
      <4>2. OwnKey = "listen-send"
        BY <3>2 DEF OwnKey
      <4> QED  BY <2>1, <4>1, <4>2, BuildsAdds DEF BusFields
    <3> QED  BY <1>2, <3>1, <3>2
  <2> QED  BY <2>3, <2>5, PropsStay, GroupsStay DEF Connected, BusFields, BusMethods
<1> QED  BY <1>4, <1>5

(* The rule of the queue was made before, if there is to be one.           *)
LEMMA SiteConfigKeeps ==
    ASSUME PlanInv, KeepsProps, status' # "thrown", CreateEventHandlerSiteConfig
    PROVE  GrantedKept /\ ConnectedKept
<1> DEFINE m == "createFunctionAppSiteConfig"
           rule == "createServiceBusQueueAuthorizationRule"
           key == ResolveServiceBusConnectionString
<1>1. Calls(m) /\ this.class = "AzureEventHandler"
  BY DEF CreateEventHandlerSiteConfig
<1>2. PICK needs, q :
        Builds(needs, {}, [queueName |-> q, connectionString |-> key.key,
                           connectionGroup |-> key.group])
  BY DEF CreateEventHandlerSiteConfig, Creates
<1> HIDE DEF key
<1>3. SetsOnly(BusFields)
  BY <1>2, BuildsSetsOnly, OtherKinds DEF AppFields, BusFields
<1>4. GrantedKept
  BY <1>1, <1>3, GrantedIsKept
<1>5. ConnectedKept
  <2> SUFFICES ASSUME Connected(this.id)
               PROVE  Connected(this.id)'
    BY DEF ConnectedKept
  <2>1. BusFields \subseteq DOMAIN fields[this.id]
    BY <1>1, TheirFields
  <2>2. m \in BusMethods /\ rule \in BusMethods /\ m # rule
    BY DEF BusMethods
  <2>3. /\ this' = this /\ Ran(m, this.id)' /\ ~Ran(m, this.id)
        /\ \A x \in BusMethods : x = m \/ (Ran(x, this.id)' <=> Ran(x, this.id))
        /\ props.queueUseExisting => ~Has(this.id, <<"es">>)'
    BY <1>1, <1>3, <2>2, BusMethodLeaves
  <2>4. Ran(rule, this.id)
    <3>1. Rank = FunctionAppRank /\ Rank[m] = 25 /\ Rank[rule] = 8
          /\ rule \notin Resolvers
      BY <1>1 DEF Rank, RankOf, FunctionAppClasses, FunctionAppRank, Resolvers
    <3>2. /\ Left \subseteq Left' \cup {m}
          /\ \A s \in Left' \ Resolvers : Rank[m] < Rank[s]
      BY <1>1, CallLeaves, WhenCalled
    <3>3. rule \notin Left'
      BY <3>1, <3>2
    <3> QED  BY <2>2, <3>2, <3>3 DEF Ran
  <2>5. Field("queueAuthorizationRule") = OwnKey
    BY <2>4 DEF Connected, Field
  <2>6. /\ key.key = Coalesce(OwnKey, "RootManageSharedAccessKey")
        /\ key.group = GroupOfKey
    <3>1. NotSet # "listen-send"
      BY NotSetAssumption
    <3> QED  BY <2>5, <3>1 DEF key, ResolveServiceBusConnectionString, IsSet,
                Coalesce, OwnKey, GroupOfKey
  <2>7. \A f \in BusFields :
           fields'[this.id][f] =
             IF f = "connectionString"
               THEN Coalesce(OwnKey, "RootManageSharedAccessKey")
             ELSE IF f = "connectionGroup" THEN GroupOfKey
             ELSE fields[this.id][f]
    BY <1>2, <2>1, <2>6, BuildsAdds DEF BusFields
  <2> QED  BY <2>3, <2>7, PropsStay, GroupsStay
           DEF Connected, BusFields, BusMethods, Coalesce
<1> QED  BY <1>4, <1>5
-----------------------------------------------------------------------------
(* Every step keeps what apps reach *)

LEMMA ClassOfAnApp ==
    ASSUME PlanInv, NEW i \in DOMAIN plan
    PROVE  /\ plan[i].id \in FunctionApps => plan[i].class \in FunctionAppClasses
           /\ plan[i].id \in EventHandlers => plan[i].class = "AzureEventHandler"
<1>1. /\ plan[i].class \in DOMAIN Methods
      /\ DOMAIN fields[plan[i].id] = FieldsOf[plan[i].class]
  BY DEF PlanInv
<1>2. /\ "app" \in FunctionAppFields \cap EventHandlerFields \cap RestApiFunctionFields
      /\ "app" \notin RestApiFields \cup SiteFields \cup LoadTestingFields
                        \cup PagesFields \cup WorkerFields
      /\ "eventGridTopic" \in EventHandlerFields
      /\ "eventGridTopic" \notin FunctionAppFields \cup RestApiFunctionFields
           \cup RestApiFields \cup SiteFields \cup LoadTestingFields
           \cup PagesFields \cup WorkerFields
  BY DEF FunctionAppFields, EventHandlerFields, RestApiFunctionFields,
     RestApiFields, SiteFields, LoadTestingFields, PagesFields, WorkerFields
<1>3. plan[i].id \in FunctionApps => "app" \in FieldsOf[plan[i].class]
  BY <1>1, <1>2 DEF FunctionApps, IsOf, FieldsOf
<1>4. plan[i].id \in EventHandlers => "eventGridTopic" \in FieldsOf[plan[i].class]
  BY <1>1, <1>2 DEF EventHandlers, IsOf, FieldsOf
<1>5. "app" \in FieldsOf[plan[i].class] => plan[i].class \in FunctionAppClasses
  BY <1>1, <1>2, ClassesAre DEF FieldsOf, FunctionAppClasses
<1>6. "eventGridTopic" \in FieldsOf[plan[i].class]
        => plan[i].class = "AzureEventHandler"
  BY <1>1, <1>2, ClassesAre DEF FieldsOf
<1> QED  BY <1>3, <1>4, <1>5, <1>6

(* The methods that decide are those of a construct that is to come.       *)
LEMMA AppsHave ==
    PlanInv /\ todo = InitResources(this)
      => /\ this.id \in FunctionApps => "createRoleAssignments" \in Left
         /\ this.id \in EventHandlers => BusMethods \subseteq Left
<1> SUFFICES ASSUME PlanInv, todo = InitResources(this)
             PROVE  /\ this.id \in FunctionApps => "createRoleAssignments" \in Left
                    /\ this.id \in EventHandlers => BusMethods \subseteq Left
  OBVIOUS
<1>1. /\ this.id \in FunctionApps => this.class \in FunctionAppClasses
      /\ this.id \in EventHandlers => this.class = "AzureEventHandler"
  BY ThisIs, ClassOfAnApp
<1>2. /\ 18 \in DOMAIN FunctionAppMethods
      /\ FunctionAppMethods[18] = "createRoleAssignments"
      /\ 30 \in DOMAIN EventHandlerMethods
      /\ EventHandlerMethods[30] = "createRoleAssignments"
  BY DEF FunctionAppMethods, EventHandlerMethods
<1>3. /\ {6, 7, 8, 28} \subseteq DOMAIN EventHandlerMethods
      /\ EventHandlerMethods[6] = "createServiceBusNamespace"
      /\ EventHandlerMethods[7] = "createServiceBusQueue"
      /\ EventHandlerMethods[8] = "createServiceBusQueueAuthorizationRule"
      /\ EventHandlerMethods[28] = "createFunctionAppSiteConfig"
  BY DEF FunctionAppMethods, EventHandlerMethods
<1>4. /\ 18 \in DOMAIN RestApiFunctionMethods
      /\ RestApiFunctionMethods[18] = "createRoleAssignments"
  <2>1. /\ 18 \in DOMAIN RestApiFunctionMethods
        /\ RestApiFunctionMethods[18] = FunctionAppMethods[18]
    BY RestApiFunctionIsOrdered
  <2> QED  BY <1>2, <2>1
<1>5. this.class \in FunctionAppClasses =>
        \E i \in DOMAIN Methods[this.class] :
           Methods[this.class][i] = "createRoleAssignments"
  BY <1>2, <1>4 DEF Methods, FunctionAppClasses
<1>6. this.class = "AzureEventHandler" =>
        \A m \in BusMethods : \E i \in DOMAIN Methods[this.class] :
           Methods[this.class][i] = m
  BY <1>3 DEF Methods, BusMethods
<1> QED  BY <1>1, <1>5, <1>6 DEF Left, InitResources

LEMMA EveryStepKeeps ==
    ASSUME PlanInv, FieldsInv, KeepsProps, ConstructStep, status' # "thrown"
    PROVE  GrantedKept /\ ConnectedKept
<1>1. CASE this.class \notin FunctionAppClasses
  BY <1>1 DEF GrantedKept, ConnectedKept, FunctionAppClasses
<1>2. CASE this.class \in FunctionAppClasses
  <2>1. CASE FunctionAppStep
    BY <2>1, QuietMethods, QuietKeeps, AccountsKeep, RolesKeep
       DEF FunctionAppStep
  <2>2. CASE EventHandlerStep
    BY <2>2, EventHandlerQuiet, QuietKeeps, NamespaceKeeps, QueueKeeps,
       RuleKeeps, SiteConfigKeeps DEF EventHandlerStep
  <2>3. CASE InheritedSiteConfig \/ CreateFunctionCodePackage \/ CreateDashboard
    <3>1. Quiet
      BY <2>3, QuietMethods
    <3> QED  BY <3>1, QuietKeeps
  <2>4. CASE RestApiFunctionStep \/ ResolveApiKeyVault
    BY <2>4, RestApiFunctionQuiet, QuietKeeps
  <2>5. CASE RestApiStep \/ SitesStep \/ CloudflareStep
    BY <1>2, <2>4, <2>5, OthersAreNoApps
  <2> QED  BY <2>1, <2>2, <2>3, <2>4, <2>5 DEF ConstructStep
<1> QED  BY <1>1, <1>2

LEMMA ConstructKeepsReach ==
    ASSUME PlanInv, PropsInv, FieldsInv, ReachInv, ConstructStep
    PROVE  ReachInv'
<1> SUFFICES ASSUME status' # "thrown" PROVE ReachInv'
  BY DEF ReachInv
<1>1. AMethod /\ KeepsProps
  BY EveryMethod, ConstructsKeepProps
<1>2. /\ plan' = plan /\ DOMAIN fields' = DOMAIN fields
      /\ \A id \in DOMAIN fields : DOMAIN fields'[id] = DOMAIN fields[id]
  BY <1>1, WhatAMethodLeaves
<1>3. /\ status = "synth" /\ template \subseteq template'
      /\ \A id \in DOMAIN fields : id # this.id => fields'[id] = fields[id]
      /\ \A r \in template' : r \in template \/ r.of = this.id
  <2>1. PICK m, reads, sets : Calls(m) /\ Changes(reads, sets)
    BY <1>1 DEF AMethod, Method, Resolves
  <2> QED  BY <2>1 DEF Calls, Changes, IsNew
<1>4. FunctionApps' = FunctionApps /\ EventHandlers' = EventHandlers
  BY <1>2 DEF FunctionApps, EventHandlers, IsOf
<1>5. EventHandlers \subseteq FunctionApps /\ FunctionApps \subseteq DOMAIN fields
  BY DEF FunctionApps, EventHandlers
<1>6. /\ this' = this /\ GrantedKept /\ ConnectedKept
      /\ this.id \in FunctionApps => this.class \in FunctionAppClasses
      /\ this.id \in EventHandlers => this.class = "AzureEventHandler"
  BY <1>1, <1>2, EveryStepKeeps, ThisIs, ClassOfAnApp DEF this
<1>7. /\ \A id \in FunctionApps : Granted(id)
      /\ \A id \in EventHandlers : Connected(id)
  BY <1>3 DEF ReachInv
<1>8. ASSUME NEW id \in FunctionApps PROVE Granted(id)'
  <2>1. CASE id = this.id
    BY <1>6, <1>7, <1>8, <2>1 DEF GrantedKept
  <2>2. CASE id # this.id
    BY <1>1, <1>2, <1>3, <1>5, <1>7, <1>8, <2>2, OthersStay
  <2> QED  BY <2>1, <2>2
<1>9. ASSUME NEW id \in EventHandlers PROVE Connected(id)'
  <2>1. CASE id = this.id
    BY <1>6, <1>7, <1>9, <2>1 DEF ConnectedKept
  <2>2. CASE id # this.id
    BY <1>1, <1>2, <1>3, <1>5, <1>7, <1>9, <2>2, OthersStay
  <2> QED  BY <2>1, <2>2
<1> QED  BY <1>4, <1>8, <1>9 DEF ReachInv

LEMMA NextKeepsReach ==
    ASSUME BuiltInv, ReachInv, NextConstruct(InitResources(plan[2])),
           UNCHANGED <<hostJson, hostKey, deployments>>
    PROVE  ReachInv'
<1>1. PlanInv /\ BuiltInv'
  BY NextKeepsBuilt DEF BuiltInv
<1>2. /\ UNCHANGED <<props, fields, template, status>>
      /\ todo = <<>> /\ plan' = Tail(plan) /\ todo' = InitResources(plan[2])
      /\ Len(plan) > 1
  BY DEF NextConstruct
<1>3. /\ this' = plan[2] /\ this = plan[1] /\ 2 \in DOMAIN plan
      /\ \A i \in DOMAIN plan : i = 1 \/ \E j \in DOMAIN plan' : plan'[j] = plan[i]
      /\ \A j \in DOMAIN plan' : \E i \in DOMAIN plan : i # 1 /\ plan[i] = plan'[j]
  <2>1. plan \in Seq(Constructs) /\ plan # <<>> /\ Len(plan) \in Nat
    BY <1>1 DEF PlanInv
  <2>2. /\ plan' \in Seq(Constructs) /\ Len(plan') = Len(plan) - 1
        /\ \A i \in 1..Len(plan') : plan'[i] = plan[i + 1]
    BY <1>2, <2>1, HeadTailProperties
  <2>3. this' = plan[2] /\ this = plan[1] /\ 2 \in DOMAIN plan
    BY <1>2, <2>1, <2>2 DEF this
  <2>4. ASSUME NEW i \in DOMAIN plan, i # 1
        PROVE  \E j \in DOMAIN plan' : plan'[j] = plan[i]
    <3>1. i - 1 \in DOMAIN plan' /\ i - 1 \in 1..Len(plan') /\ (i - 1) + 1 = i
      BY <2>1, <2>2, <2>4
    <3> QED  BY <2>2, <3>1
  <2>5. ASSUME NEW j \in DOMAIN plan'
        PROVE  \E i \in DOMAIN plan : i # 1 /\ plan[i] = plan'[j]
    <3>1. j + 1 \in DOMAIN plan /\ j + 1 # 1 /\ plan'[j] = plan[j + 1]
      BY <2>1, <2>2
    <3> QED  BY <3>1
  <2> QED  BY <2>3, <2>4, <2>5
<1>4. /\ this'.id \in FunctionApps => "createRoleAssignments" \in Left'
      /\ this'.id \in EventHandlers => BusMethods \subseteq Left'
  <2>1. (PlanInv /\ todo = InitResources(this)
           => /\ this.id \in FunctionApps => "createRoleAssignments" \in Left
              /\ this.id \in EventHandlers => BusMethods \subseteq Left)'
    BY AppsHave, PTL
  <2>2. (todo = InitResources(this))'
    BY <1>2, <1>3 DEF InitResources
  <2>3. FunctionApps' = FunctionApps /\ EventHandlers' = EventHandlers
    BY <1>2 DEF FunctionApps, EventHandlers, IsOf
  <2> QED  BY <1>1, <2>1, <2>2, <2>3 DEF BuiltInv
<1>5. ASSUME NEW m, NEW id, id = this'.id => m \in Left'
      PROVE  Ran(m, id)' <=> Ran(m, id)
  <2>1. Left = {}
    BY <1>2 DEF Left
  <2>2. \A i \in DOMAIN plan : i # 1 => plan[i].id # this.id
    BY <1>1, <1>3, ThisIs DEF PlanInv
  <2>3. /\ this.id \notin {plan'[j].id : j \in DOMAIN plan'}
        /\ \A x : x # this.id => (x \in {plan'[j].id : j \in DOMAIN plan'}
                                    <=> x \in {plan[j].id : j \in DOMAIN plan})
        /\ this'.id \in {plan[j].id : j \in DOMAIN plan} /\ this'.id # this.id
    BY <1>3, <2>2
  <2> QED  BY <1>5, <2>1, <2>3 DEF Ran
<1>6. \A id, x : Has(id, x)' <=> Has(id, x)
  BY <1>2 DEF Has
<1>7. \A id \in FunctionApps : Granted(id) => Granted(id)'
  <2>1. \A id \in FunctionApps :
           Ran("createRoleAssignments", id)' <=> Ran("createRoleAssignments", id)
    BY <1>4, <1>5
  <2> QED  BY <1>2, <1>6, <2>1 DEF Granted
<1>8. \A id \in EventHandlers : Connected(id) => Connected(id)'
  <2>1. \A id \in EventHandlers : \A m \in BusMethods : Ran(m, id)' <=> Ran(m, id)
    BY <1>4, <1>5
  <2>2. /\ InvalidServiceBus' = InvalidServiceBus
        /\ GroupOfNamespace' = GroupOfNamespace /\ GroupOfQueue' = GroupOfQueue
        /\ GroupOfKey' = GroupOfKey /\ OwnKey' = OwnKey
    BY <1>2 DEF InvalidServiceBus, GroupOfNamespace, GroupOfQueue, GroupOfKey,
       OwnKey, NamespaceResourceGroup
  <2> QED  BY <1>2, <1>6, <2>1, <2>2 DEF Connected, BusMethods
<1>9. FunctionApps' = FunctionApps /\ EventHandlers' = EventHandlers
  BY <1>2 DEF FunctionApps, EventHandlers, IsOf
<1> QED  BY <1>2, <1>7, <1>8, <1>9 DEF ReachInv

(* Nothing is promised of an app before its methods run.                   *)
LEMMA BegunReach == Begun => ReachInv
<1> SUFFICES ASSUME Begun PROVE ReachInv
  OBVIOUS
<1>1. PlanInv
  BY BegunIsBuilt DEF BuiltInv
<1>2. /\ \A i, j \in DOMAIN plan : i # j => plan[i].id # plan[j].id
      /\ todo = InitResources(this) /\ template = {} /\ fields = NewFields(plan)
  BY DEF Begun
<1>3. /\ DOMAIN fields = {plan[i].id : i \in DOMAIN plan}
      /\ \A id \in DOMAIN fields : \A f \in DOMAIN fields[id] :
           fields[id][f] = NotSet
  <2>1. /\ DOMAIN fields = {plan[i].id : i \in DOMAIN plan}
        /\ \A i \in DOMAIN plan :
             fields[plan[i].id] = [f \in FieldsOf[plan[i].class] |-> NotSet]
    BY <1>2, NewFieldsAre
  <2>2. ASSUME NEW i \in DOMAIN plan, NEW f \in DOMAIN fields[plan[i].id]
        PROVE  fields[plan[i].id][f] = NotSet
    BY <2>1
  <2>3. ASSUME NEW id \in DOMAIN fields, NEW f \in DOMAIN fields[id]
        PROVE  fields[id][f] = NotSet
    <3>1. PICK i \in DOMAIN plan : id = plan[i].id
      BY <2>1
    <3> QED  BY <2>2, <3>1
  <2>4. DOMAIN fields = {plan[i].id : i \in DOMAIN plan}
    BY <2>1
  <2> QED  BY <2>3, <2>4
<1>4. FunctionApps \subseteq DOMAIN fields /\ EventHandlers \subseteq DOMAIN fields
  BY DEF FunctionApps, EventHandlers
<1>5. /\ \A id \in FunctionApps : ~Ran("createRoleAssignments", id)
      /\ \A id \in EventHandlers : \A m \in BusMethods : ~Ran(m, id)
  <2>1. /\ this.id \in FunctionApps => "createRoleAssignments" \in Left
        /\ this.id \in EventHandlers => BusMethods \subseteq Left
    BY <1>1, <1>2, AppsHave
  <2>2. \A id \in FunctionApps \cup EventHandlers :
           id \in {plan[i].id : i \in DOMAIN plan}
    BY <1>3, <1>4
  <2> QED  BY <2>1, <2>2 DEF Ran
<1>6. \A id, x : ~Has(id, x)
  BY <1>2 DEF Has
<1>7. ASSUME NEW id \in FunctionApps PROVE Granted(id)
  <2>1. AppFields \subseteq DOMAIN fields[id]
    BY DEF FunctionApps, IsOf, FieldsOf, AppFields, FunctionAppFields,
       EventHandlerFields, RestApiFunctionFields
  <2>2. /\ fields[id].appStorageAccount = NotSet
        /\ fields[id].storageAccountName = NotSet
        /\ fields[id].appConfig = NotSet
    BY <1>3, <1>4, <2>1 DEF AppFields
  <2> QED  BY <1>5, <2>2, NotSetAssumption DEF Granted
<1>8. ASSUME NEW id \in EventHandlers PROVE Connected(id)
  <2>1. "queueAuthorizationRule" \in DOMAIN fields[id]
    BY DEF EventHandlers, IsOf, FieldsOf, EventHandlerFields
  <2>2. fields[id].queueAuthorizationRule = NotSet
    BY <1>3, <1>4, <2>1
  <2> QED  BY <1>5, <1>6, <2>2 DEF Connected, BusMethods
<1> QED  BY <1>7, <1>8 DEF ReachInv

LEMMA OtherStepsKeepReach ==
    ASSUME ReachInv,
           UNCHANGED <<props, plan, todo, fields, template>>,
           status' = status \/ (status # "thrown" /\ status' = "done")
    PROVE  ReachInv'
<1>1. \A m, id : Ran(m, id)' <=> Ran(m, id)
  <2>1. Left' = Left /\ this' = this
    BY DEF Left, this
  <2> QED  BY <2>1 DEF Ran
<1>2. \A id, x : Has(id, x)' <=> Has(id, x)
  BY DEF Has
<1>3. FunctionApps' = FunctionApps /\ EventHandlers' = EventHandlers
  BY DEF FunctionApps, EventHandlers, IsOf
<1>4. \A id : Granted(id) => Granted(id)'
  BY <1>1, <1>2 DEF Granted
<1>5. /\ InvalidServiceBus' = InvalidServiceBus
      /\ GroupOfNamespace' = GroupOfNamespace /\ GroupOfQueue' = GroupOfQueue
      /\ GroupOfKey' = GroupOfKey /\ OwnKey' = OwnKey
  BY DEF InvalidServiceBus, GroupOfNamespace, GroupOfQueue, GroupOfKey,
     OwnKey, NamespaceResourceGroup
<1>6. \A id : Connected(id) => Connected(id)'
  BY <1>1, <1>2, <1>5 DEF Connected
<1> QED  BY <1>3, <1>4, <1>6 DEF ReachInv
-----------------------------------------------------------------------------
(* The invariants hold *)

BuiltAndHosts == BuiltInv /\ HostsInv

LEMMA StepKeeps ==
    ASSUME BuiltAndHosts, [Next]_vars
    PROVE  BuiltAndHosts'
<1>1. BuiltInv /\ HostsInv
  BY DEF BuiltAndHosts
<1>2. CASE UNCHANGED vars
  <2>1. UNCHANGED <<props, plan, todo, fields, template, status, hostJson,
                    hostKey, deployments>>
    BY <1>2 DEF vars, synthVars
  <2>2. this' = this /\ Left' = Left /\ FunctionApps' = FunctionApps
    BY <2>1 DEF this, Left, FunctionApps, IsOf
  <2>3. PlanInv' /\ PropsInv'
    BY <1>1, <2>1, <2>2 DEF BuiltInv, PlanInv, PropsInv, Rank, InitResources
  <2>4. HostKeyInv'
    BY <1>1, <2>1, <2>2 DEF BuiltInv, HostKeyInv
  <2>5. FieldsInv' /\ TemplateInv'
    BY <1>1, <2>1, <2>2 DEF BuiltInv, FieldsInv, TemplateInv, Rank, LastSet,
       Settled, IsSet, Field
  <2>6. HostsInv'
    BY <1>1, <2>1, <2>2 DEF HostsInv, HostsAsConfigured
  <2> QED  BY <1>1, <2>1, <2>3, <2>4, <2>5, <2>6 DEF BuiltAndHosts, BuiltInv
<1>3. CASE /\ ConstructStep /\ UNCHANGED deployments
           /\ UNCHANGED hostKey \/ CreateFunctionNamespaceSecret
           /\ UNCHANGED hostJson \/ CreateFunctionHosts
  BY <1>1, <1>3, ConstructKeeps, ConstructKeepsHostsInv DEF BuiltAndHosts
<1>4. CASE /\ NextConstruct(InitResources(plan[2]))
           /\ UNCHANGED <<hostJson, hostKey, deployments>>
  BY <1>1, <1>4, NextKeepsBuilt, NextKeepsHostsInv DEF BuiltAndHosts
<1>5. CASE Finish /\ UNCHANGED <<hostJson, hostKey, deployments>>
  <2>1. HostsInv'
    BY <1>1, <1>5 DEF Finish, HostsInv, HostsAsConfigured, FunctionApps, IsOf,
       Left, this
  <2> QED  BY <1>1, <1>5, <2>1, FinishKeepsBuilt DEF BuiltAndHosts
<1>6. CASE (AskHostForItsKey \/ HostStarts) /\ UNCHANGED deployments
  <2>1. HostsInv'
    BY <1>1, <1>6 DEF AskHostForItsKey, HostStarts, restVars, synthVars,
       HostsInv, HostsAsConfigured, FunctionApps, IsOf, Left, this
  <2> QED  BY <1>1, <1>6, <2>1, HostKeepsBuilt DEF BuiltAndHosts
<1>7. CASE Redeploy
  <2>1. Begun'
    BY <1>1, <1>7, RedeployBegins
  <2>2. (Begun => BuiltInv)' /\ (Begun => HostsInv)'
    BY BegunIsBuilt, BegunHosts, PTL
  <2> QED  BY <2>1, <2>2 DEF BuiltAndHosts
<1>8. CASE Next
  <2>1. CASE FunctionAppStep /\ UNCHANGED <<hostKey, deployments>>
    <3>1. ConstructStep
      BY <2>1 DEF ConstructStep
    <3>2. UNCHANGED hostJson \/ CreateFunctionHosts
      BY <2>1 DEF FunctionAppStep
    <3> QED  BY <1>3, <2>1, <3>1, <3>2
  <2>2. CASE EventHandlerStep /\ UNCHANGED <<hostKey, deployments>>
    <3>1. ConstructStep
      BY <2>2 DEF ConstructStep
    <3>2. UNCHANGED hostJson
      BY <2>2 DEF EventHandlerStep
    <3> QED  BY <1>3, <2>2, <3>1, <3>2
  <2>3. CASE /\ \/ InheritedSiteConfig \/ CreateFunctionCodePackage
                \/ CreateDashboard \/ RestApiStep \/ SitesStep \/ CloudflareStep
             /\ UNCHANGED <<hostJson, hostKey, deployments>>
    <3>1. ConstructStep
      BY <2>3 DEF ConstructStep
    <3> QED  BY <1>3, <2>3, <3>1
  <2>4. CASE RestApiFunctionStep /\ UNCHANGED deployments
    <3>1. ConstructStep
      BY <2>4 DEF ConstructStep
    <3>2. /\ UNCHANGED hostJson
          /\ UNCHANGED hostKey \/ CreateFunctionNamespaceSecret
      BY <2>4 DEF RestApiFunctionStep
    <3> QED  BY <1>3, <2>4, <3>1, <3>2
  <2> QED  BY <1>4, <1>5, <1>6, <1>7, <1>8, <2>1, <2>2, <2>3, <2>4 DEF Next
<1> QED  BY <1>2, <1>8

LEMMA StepKeepsReach ==
    ASSUME BuiltInv, ReachInv, [Next]_vars
    PROVE  ReachInv'
<1>1. PlanInv /\ PropsInv /\ FieldsInv
  BY DEF BuiltInv
<1>2. CASE UNCHANGED vars
  BY <1>2, OtherStepsKeepReach DEF vars, synthVars
<1>3. CASE ConstructStep
  BY <1>1, <1>3, ConstructKeepsReach
<1>4. CASE NextConstruct(InitResources(plan[2]))
             /\ UNCHANGED <<hostJson, hostKey, deployments>>
  BY <1>4, NextKeepsReach
<1>5. CASE Finish
  BY <1>5, OtherStepsKeepReach DEF Finish
<1>6. CASE AskHostForItsKey \/ HostStarts
  BY <1>6, OtherStepsKeepReach DEF AskHostForItsKey, HostStarts, restVars, synthVars
<1>7. CASE Redeploy
  <2>1. Begun'
    BY <1>7, RedeployBegins
  <2>2. (Begun => ReachInv)'
    BY BegunReach, PTL
  <2> QED  BY <2>1, <2>2
<1> QED  BY <1>2, <1>3, <1>4, <1>5, <1>6, <1>7 DEF Next, ConstructStep

(* At every moment of every deployment.                                    *)
LEMMA AlwaysBuiltAndHosts == Spec => []BuiltAndHosts
<1>1. Init => BuiltAndHosts
  BY InitIsBegun, BegunIsBuilt, BegunHosts DEF BuiltAndHosts
<1>2. BuiltAndHosts /\ [Next]_vars => BuiltAndHosts'
  BY StepKeeps
<1> QED  BY <1>1, <1>2, PTL DEF Spec
-----------------------------------------------------------------------------
(* The state is well formed, and when a deployment is done each resource   *)
(* was built from what its construct has in the end: whatever the props,   *)
(* however many constructs share them, and however often the program is    *)
(* run, no method reads a field before another sets it for the last time.  *)
THEOREM SpecWellBuilt == Spec => []WellBuilt
<1>1. BuiltAndHosts => WellBuilt
  <2> SUFFICES ASSUME BuiltInv PROVE WellBuilt
    BY DEF BuiltAndHosts
  <2>1. PlanInv /\ PropsInv /\ HostKeyInv /\ FieldsInv /\ TemplateInv
    BY DEF BuiltInv
  <2>2. TypeOK
    BY <2>1 DEF TypeOK, BuiltInv, PlanInv, PropsInv, HostKeyInv, FieldsInv,
       TemplateInv
  <2>3. ReadsAreFinal
    BY <2>1 DEF ReadsAreFinal, TemplateInv
  <2> QED  BY <2>2, <2>3 DEF WellBuilt
<1> QED  BY <1>1, AlwaysBuiltAndHosts, PTL

(* After a deployment host.json says what hostsConfiguration says, the     *)
(* app's own values before the common ones, whatever it said before and    *)
(* however often the program was run with another configuration.           *)
THEOREM SpecHostJsonIsAsConfigured == Spec => []HostJsonIsAsConfigured
<1>1. BuiltAndHosts => HostJsonIsAsConfigured
  <2> SUFFICES ASSUME BuiltInv, HostsInv,
                      NEW id \in FunctionApps, Done(id), hostJson # NotSet
               PROVE  HostsAsConfigured
    BY DEF BuiltAndHosts, HostJsonIsAsConfigured, HostsAsConfigured
  <2>1. PlanInv
    BY DEF BuiltInv
  <2>2. status = "done" /\ todo = <<>> /\ Len(plan) = 1
    BY <2>1 DEF PlanInv, Done
  <2>3. Left = {}
    BY <2>2 DEF Left
  <2>4. DOMAIN plan = {1} /\ this = plan[1]
    BY <2>1, <2>2, ThisIs DEF PlanInv
  <2>5. id \notin {plan[i].id : i \in DOMAIN plan} \/ id = this.id
    BY <2>4
  <2> QED  BY <2>3, <2>5 DEF HostsInv
<1> QED  BY <1>1, AlwaysBuiltAndHosts, PTL

(* When a stack is done, its apps can use what they were built with: the   *)
(* identity of each has a role on its accounts and on its configuration    *)
(* store; queue, namespace and key of an event handler are in one resource *)
(* group; and the root key of a namespace is used only for a queue of      *)
(* somebody else, which is not subscribed again.  For all props, however   *)
(* many constructs share them.                                             *)
THEOREM SpecReachesWhatItUses == Spec => []ReachesWhatItUses
<1>1. Init => BuiltAndHosts /\ ReachInv
  BY InitIsBegun, BegunIsBuilt, BegunHosts, BegunReach DEF BuiltAndHosts
<1>2. (BuiltAndHosts /\ ReachInv) /\ [Next]_vars => (BuiltAndHosts /\ ReachInv)'
  BY StepKeeps, StepKeepsReach DEF BuiltAndHosts
<1>3. BuiltAndHosts /\ ReachInv => ReachesWhatItUses
  <2> SUFFICES ASSUME PlanInv, ReachInv, status = "done"
               PROVE  /\ \A id \in FunctionApps :
                           /\ fields[id].storageAccountName = "data"
                                => Has(id, <<"data", "sa", "role">>)
                           /\ Has(id, <<"sa", "role">>)
                           /\ fields[id].appConfig = "existing"
                                => Has(id, <<"ac", "role">>)
                      /\ \A id \in EventHandlers :
                           /\ props.namespaceUseExisting =>
                                props.namespaceNamed /\ props.namespaceGroup # NotSet
                           => /\ fields[id].queueGroup = fields[id].namespaceGroup
                              /\ fields[id].connectionGroup = fields[id].namespaceGroup
                      /\ \A id \in EventHandlers :
                           /\ fields[id].connectionString = "RootManageSharedAccessKey"
                                <=> props.queueUseExisting
                           /\ props.queueUseExisting => ~Has(id, <<"es">>)
    BY DEF BuiltAndHosts, BuiltInv, ReachesWhatItUses, GrantedWhatItReads,
       QueueLivesInItsNamespace, OwnQueueOwnKey, Done
  <2>1. \A m, id : Ran(m, id)
    <3>1. todo = <<>> /\ Len(plan) = 1
      BY DEF PlanInv
    <3>2. Left = {} /\ this = plan[1]
      BY <3>1, ThisIs DEF Left
    <3>3. \A i \in DOMAIN plan : i = 1
      BY <3>1 DEF PlanInv
    <3> QED  BY <3>2, <3>3 DEF Ran
  <2>2. ASSUME NEW id \in FunctionApps
        PROVE  /\ fields[id].storageAccountName = "data"
                    => Has(id, <<"data", "sa", "role">>)
               /\ Has(id, <<"sa", "role">>)
               /\ fields[id].appConfig = "existing" => Has(id, <<"ac", "role">>)
    <3>1. Granted(id)
      BY DEF ReachInv
    <3> QED  BY <2>1, <3>1 DEF Granted
  <2>3. ASSUME NEW id \in EventHandlers
        PROVE  /\ fields[id].connectionString = "RootManageSharedAccessKey"
                    <=> props.queueUseExisting
               /\ props.queueUseExisting => ~Has(id, <<"es">>)
    <3>1. Connected(id)
      BY DEF ReachInv
    <3> QED  BY <2>1, <3>1, NotSetAssumption DEF Connected, OwnKey, Coalesce
  <2>4. ASSUME NEW id \in EventHandlers,
               props.namespaceUseExisting =>
                 props.namespaceNamed /\ props.namespaceGroup # NotSet
        PROVE  /\ fields[id].queueGroup = fields[id].namespaceGroup
               /\ fields[id].connectionGroup = fields[id].namespaceGroup
    <3>1. Connected(id)
      BY DEF ReachInv
    <3>2. /\ ~InvalidServiceBus /\ fields[id].namespaceGroup = GroupOfNamespace
          /\ fields[id].queueGroup = GroupOfQueue
          /\ fields[id].connectionGroup = GroupOfKey
      BY <2>1, <3>1 DEF Connected
    <3>3. CASE props.namespaceUseExisting
      BY <2>4, <3>2, <3>3 DEF GroupOfNamespace, GroupOfQueue, GroupOfKey,
         NamespaceResourceGroup, Coalesce
    <3>4. CASE ~props.namespaceUseExisting
      BY <3>2, <3>4 DEF InvalidServiceBus, GroupOfNamespace, GroupOfQueue,
         GroupOfKey, NamespaceResourceGroup
    <3> QED  BY <3>3, <3>4
  <2> QED  BY <2>2, <2>3, <2>4
<1> QED  BY <1>1, <1>2, <1>3, PTL DEF Spec
=============================================================================
