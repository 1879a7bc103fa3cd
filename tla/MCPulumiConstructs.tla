------------------------- MODULE MCPulumiConstructs --------------------------
(* Stacks of each class of construct with the props that make a difference *)
(* to it, one or two constructs each, and two deployments.                 *)
EXTENDS PulumiConstructs

HostKeys == {"logging", "extensions"}
NoHosts == [k \in HostKeys |-> NotSet]

(* Props with which everything can be built and nothing is optional.       *)
Base ==
    [skipBlobServiceProperties |-> {}, geoReplication |-> "off",
     insights |-> TRUE, workspace |-> TRUE, subscriptionId |-> TRUE,
     parsedConfig |-> NotSet, keyVaults |-> NotSet,
     appConfiguration |-> FALSE, useConfigOverride |-> FALSE,
     storageContainer |-> FALSE, dataStorageAccount |-> FALSE,
     dataStorageContainer |-> FALSE, dataStorageContainerSas |-> FALSE,
     appHosts |-> NoHosts, commonHosts |-> NoHosts, dashboard |-> FALSE,
     subscriptionDlq |-> TRUE, namespaceUseExisting |-> FALSE,
     namespaceNamed |-> FALSE, namespaceGroup |-> NotSet,
     queueUseExisting |-> FALSE, queueNamed |-> FALSE,
     useExistingTopic |-> FALSE, existingTopicNamed |-> FALSE,
     existingSubscription |-> FALSE, defender |-> FALSE,
     useExistingApiManagement |-> TRUE, apiStackName |-> TRUE,
     certificateKeyVaultId |-> FALSE, diagnosticAppInsights |-> FALSE,
     diagnosticAzMonitor |-> FALSE, dryRun |-> FALSE, operations |-> <<>>,
     enableCors |-> FALSE, allowedOrigins |-> NotSet,
     originSubdomain |-> FALSE, locales |-> {"de", "en"},
     appSettings |-> NotSet, loadTests |-> {},
     useExistingZone |-> FALSE, siteZone |-> TRUE,
     deploymentConfigs |-> "callers", bindings |-> {},
     siteCnameRecord |-> FALSE, routes |-> {}, siteRuleSet |-> FALSE,
     siteZoneSetting |-> FALSE]

One(class) == <<[id |-> "first", class |-> class]>>
Two(class) == One(class) \o <<[id |-> "second", class |-> class]>>

Stacks(allProps, plans, hosts) ==
    [props : allProps, plan : plans, hostJson : hosts]

NoFile == {NotSet}
Files == {NotSet, NoHosts, [NoHosts EXCEPT !["logging"] = "source"]}

FunctionAppProps ==
    {[Base EXCEPT !.insights = i, !.workspace = w, !.appConfiguration = a,
         !.useConfigOverride = o, !.storageContainer = s,
         !.dataStorageAccount = da, !.dataStorageContainer = dc,
         !.dataStorageContainerSas = sas, !.dashboard = d] :
       i, w, a, o, s, da, dc, sas, d \in BOOLEAN}
    \union
    {[Base EXCEPT !.subscriptionId = id, !.parsedConfig = config,
         !.keyVaults = vaults, !.skipBlobServiceProperties = skip] :
       id \in BOOLEAN,
       config \in {NotSet, {}, {"cosmos"}, {"cosmos", "eventGridTargets"}},
       vaults \in {NotSet, {"v1", "v2"}},
       skip \in {{}, {<<"storage-account">>}}}

EventHandlerProps ==
    {[Base EXCEPT !.namespaceUseExisting = ne, !.namespaceNamed = nn,
         !.namespaceGroup = ng, !.queueUseExisting = qe, !.queueNamed = qn,
         !.useExistingTopic = te, !.existingTopicNamed = tn,
         !.subscriptionDlq = dlq] :
       ne, nn, qe, qn, te, tn, dlq \in BOOLEAN, ng \in {NotSet, "shared"}}
    \union
    {[Base EXCEPT !.namespaceUseExisting = ne, !.namespaceNamed = TRUE,
         !.geoReplication = geo, !.workspace = w, !.dashboard = d,
         !.storageContainer = TRUE, !.dataStorageAccount = da,
         !.defender = def, !.useExistingTopic = te, !.subscriptionDlq = FALSE] :
       ne, w, d, da, def, te \in BOOLEAN,
       geo \in {"off", "unconfigured", "standard", "premium"}}
    \union
    {[Base EXCEPT !.useExistingTopic = te, !.existingTopicNamed = tn,
         !.existingSubscription = TRUE, !.subscriptionDlq = dlq] :
       te, tn, dlq \in BOOLEAN}

RestApiProps ==
    {[Base EXCEPT !.useExistingApiManagement = e, !.apiStackName = s,
         !.insights = i, !.workspace = w, !.subscriptionId = id,
         !.certificateKeyVaultId = c, !.diagnosticAppInsights = da,
         !.diagnosticAzMonitor = dm] :
       e, s, i, w, id, c, da, dm \in BOOLEAN}

OperationLists ==
    LET ops == [name : {"get", "put"}, method : {"m1", "m2"},
                enableCacheSet : BOOLEAN]
    IN {<<>>} \union {<<o>> : o \in ops} \union (ops \X ops)

RestApiFunctionProps ==
    {[Base EXCEPT !.useExistingApiManagement = e, !.apiStackName = s,
         !.insights = i, !.subscriptionId = id, !.certificateKeyVaultId = c,
         !.dryRun = dry, !.dashboard = d] : e, s, i, id, c, dry, d \in BOOLEAN}
    \union {[Base EXCEPT !.operations = o] : o \in OperationLists}
    \union {[Base EXCEPT !.enableCors = TRUE, !.allowedOrigins = o,
               !.originSubdomain = s] :
             o \in {NotSet, {"site"}}, s \in BOOLEAN}

AzureSiteProps ==
    {[Base EXCEPT !.insights = i, !.workspace = w, !.appSettings = s] :
       i, w \in BOOLEAN,
       s \in {NotSet, <<>>, <<"a">>, <<"a", "b", "c">>}}

CloudflareProps ==
    {[Base EXCEPT !.useExistingZone = e, !.siteZone = z,
         !.siteCnameRecord = r, !.routes = IF r THEN {"/", "/api"} ELSE {},
         !.siteRuleSet = s, !.siteZoneSetting = ~s] :
       e, z, r, s \in BOOLEAN}

HostProps ==
    {[Base EXCEPT !.appHosts = [NoHosts EXCEPT !["logging"] = a]] :
       a \in {NotSet, "app"}}

MCChoices ==
    UNION {
      Stacks(FunctionAppProps, {One("AzureFunctionApp")}, NoFile),
      Stacks(HostProps, {One("AzureFunctionApp")}, Files),
      Stacks(EventHandlerProps, {One("AzureEventHandler")}, NoFile),
      Stacks(RestApiProps, {One("AzureRestApi"), One("AzureRestApiWithCache")},
             NoFile),
      Stacks(RestApiFunctionProps, {One("AzureRestApiFunction")}, NoFile),
      Stacks(AzureSiteProps, {Two("AzureSiteWithWebApp")}, NoFile),
      Stacks({[Base EXCEPT !.loadTests = t] : t \in {{}, {"t1", "t2"}}},
             {Two("AzureLoadTesting")}, NoFile),
      Stacks(CloudflareProps, {Two("CloudflarePagesStaticSite"),
                               Two("CloudflareWorkerSite")}, NoFile)}

MCHostConfigs ==
    {[app |-> NoHosts, common |-> NoHosts],
     [app |-> [NoHosts EXCEPT !["logging"] = "app"],
      common |-> [NoHosts EXCEPT !["logging"] = "common",
                                 !["extensions"] = "common"]]}

MCSiteSettings == <<"instrumentation", "stage">>
=============================================================================
