--------------------------- MODULE PulumiConstructs --------------------------
(***************************************************************************)
(* The constructs of the Azure and Cloudflare packages, each one built by  *)
(* a program that Pulumi runs from its first line at every deployment.     *)
(* What outlives a run is host.json, in the sources of a function.         *)
(***************************************************************************)
EXTENDS AzureEventHandler, AzureRestApi, AzureRestApiFunction, PulumiSites

CONSTANTS
    Choices,          \* the stacks to build: [props, plan, hostJson]
    HostConfigs,      \* what hostsConfiguration may be changed to
    MaxDeployments    \* bound on how often a stack is deployed

ASSUME DeploymentsAssumption == MaxDeployments \in Nat \ {0}

VARIABLE deployments  \* how many times the program was started

vars == <<synthVars, hostJson, hostKey, deployments>>
-----------------------------------------------------------------------------
Methods ==
    [AzureFunctionApp |-> FunctionAppMethods,
     AzureEventHandler |-> EventHandlerMethods,
     AzureRestApi |-> RestApiMethods,
     AzureRestApiWithCache |-> RestApiWithCacheMethods,
     AzureRestApiFunction |-> RestApiFunctionMethods,
     AzureSiteWithWebApp |-> SiteMethods,
     AzureLoadTesting |-> LoadTestingMethods,
     CloudflarePagesStaticSite |-> PagesMethods,
     CloudflareWorkerSite |-> WorkerMethods]

FieldsOf ==
    [AzureFunctionApp |-> FunctionAppFields,
     AzureEventHandler |-> EventHandlerFields,
     AzureRestApi |-> RestApiFields,
     AzureRestApiWithCache |-> RestApiFields,
     AzureRestApiFunction |-> RestApiFunctionFields,
     AzureSiteWithWebApp |-> SiteFields,
     AzureLoadTesting |-> LoadTestingFields,
     CloudflarePagesStaticSite |-> PagesFields,
     CloudflareWorkerSite |-> WorkerFields]

InitResources(construct) == Methods[construct.class]

Constructs == UNION {{c.plan[i] : i \in DOMAIN c.plan} : c \in Choices}

(* A value is there, if only as undefined, for each prop that decides what *)
(* an app may do and reach, and of the host's configuration.               *)
NamedProps ==
    {"appHosts", "commonHosts", "dataStorageAccount", "useConfigOverride",
     "namespaceUseExisting", "namespaceNamed", "namespaceGroup",
     "queueUseExisting", "queueNamed"}

(* undefined is none of these names.                                       *)
ASSUME NotSetAssumption == NotSet \notin {"data", "existing", "listen-send"}

(* No two constructs of a stack have one id, and one at most asks a host   *)
(* for its key, the only request that is followed here.  The configuration *)
(* says something of each key of host.json, if only that it leaves it.     *)
ASSUME ChoicesAssumption ==
    \A c \in Choices :
      /\ c.plan \in Seq(Constructs) /\ c.plan # <<>>
      /\ \A i \in DOMAIN c.plan : c.plan[i].class \in DOMAIN Methods
      /\ \A i, j \in DOMAIN c.plan : i # j =>
           /\ c.plan[i].id # c.plan[j].id
           /\ "AzureRestApiFunction" \notin {c.plan[i].class} \intersect {c.plan[j].class}
      /\ NamedProps \subseteq DOMAIN c.props
      /\ c.hostJson = NotSet \/ DOMAIN c.hostJson = DOMAIN c.props.appHosts
      /\ \A config \in HostConfigs : DOMAIN config.app = DOMAIN c.props.appHosts

NewFields(constructs) ==
    [id \in {constructs[i].id : i \in DOMAIN constructs} |->
        LET c == CHOOSE i \in DOMAIN constructs : constructs[i].id = id
        IN [f \in FieldsOf[constructs[c].class] |-> NotSet]]

Init ==
    /\ \E choice \in Choices :
         /\ props = choice.props
         /\ StartsWith(choice.plan, InitResources(choice.plan[1]))
         /\ fields = NewFields(choice.plan)
         /\ hostJson = choice.hostJson
    /\ hostKey = NoRequest
    /\ deployments = 1

(* A function app has no site config of its own, an event handler has.     *)
InheritedSiteConfig ==
    /\ this.class # "AzureEventHandler"
    /\ CreateFunctionAppSiteConfig

CreateDashboard ==
    CreateFunctionDashboard(
        IF this.class = "AzureEventHandler" THEN EventHandlerDashboardNeeds
        ELSE DashboardNeeds)

CreateFunctionCodePackage == ~IsSite /\ CreateCodePackage

(* The program is run again, with other hostsConfiguration: everything is  *)
(* built anew, but the sources are what the last run left.                 *)
Redeploy ==
    /\ status \in {"done", "thrown"} /\ hostKey.state # "asking"
    /\ Cardinality(DOMAIN fields) = 1
    /\ deployments < MaxDeployments
    /\ deployments' = deployments + 1
    /\ \E config \in HostConfigs :
         props' = [props EXCEPT !.appHosts = config.app,
                                !.commonHosts = config.common]
    /\ todo' = InitResources(this)
    /\ fields' = NewFields(plan)
    /\ template' = {} /\ status' = "synth" /\ hostKey' = NoRequest
    /\ UNCHANGED <<plan, hostJson>>

Next ==
    \/ /\ \/ FunctionAppStep
          \/ EventHandlerStep
          \/ /\ \/ InheritedSiteConfig \/ CreateFunctionCodePackage
                \/ CreateDashboard \/ RestApiStep \/ SitesStep
                \/ CloudflareStep
                \/ NextConstruct(InitResources(plan[2])) \/ Finish
             /\ UNCHANGED hostJson
       /\ UNCHANGED <<hostKey, deployments>>
    \/ RestApiFunctionStep /\ UNCHANGED deployments
    \/ (AskHostForItsKey \/ HostStarts) /\ UNCHANGED deployments
    \/ Redeploy

Spec == Init /\ [][Next]_vars

(* The loop that asks the host goes on by itself; its delays end.          *)
FairSpec == Spec /\ WF_vars(AskHostForItsKey /\ UNCHANGED deployments)
-----------------------------------------------------------------------------
(* The state is well formed: the program is somewhere in the methods of    *)
(* one of its constructs, a host was not asked more often than MaxRetries, *)
(* and everything declared is of a construct of the stack.                 *)
TypeOK ==
    /\ status \in {"synth", "done", "thrown"}
    /\ \E n \in 0..Len(InitResources(this)) :
         todo = SubSeq(InitResources(this), n + 1, Len(InitResources(this)))
    /\ \A r \in template : r.of \in DOMAIN fields
    /\ \A id \in DOMAIN fields : \E class \in DOMAIN FieldsOf :
         DOMAIN fields[id] = FieldsOf[class]
    /\ hostJson = NotSet \/ DOMAIN hostJson = DOMAIN props.appHosts
    /\ hostKey.state \in {"none", "previewing", "asking", "given", "failed"}
    /\ hostKey.tries \in 0..MaxRetries /\ hostKey.ready \in BOOLEAN
    /\ deployments \in 1..MaxDeployments

Done(id) == status = "done" /\ id \in DOMAIN fields
IsOf(id, class) == DOMAIN fields[id] = FieldsOf[class]
FunctionApps ==
    {id \in DOMAIN fields :
        \E class \in {"AzureFunctionApp", "AzureEventHandler",
                      "AzureRestApiFunction"} : IsOf(id, class)}
EventHandlers == {id \in DOMAIN fields : IsOf(id, "AzureEventHandler")}

(* What a resource was built from is what the construct has in the end: no *)
(* method reads a field before another sets it, and none sets one again    *)
(* that was read (the data account replaces the app's in the environment   *)
(* before the app is created).                                             *)
ReadsAreFinal ==
    status = "done" =>
      \A r \in template : \A f \in DOMAIN r.reads :
         r.reads[f] = fields[r.of][f]

(* Fields and resources are those of their classes and of what they were   *)
(* built from.                                                             *)
WellBuilt == TypeOK /\ ReadsAreFinal

(* A construct throws exactly if its props leave out what another of them  *)
(* needs, or ask for what cannot be: an event handler's defender, since    *)
(* the data account it would guard does not exist yet; a function behind a *)
(* service of its own, since only an existing one gets the secret.         *)
FunctionAppForbidden(p) ==
    \/ ~p.insights \/ ~p.subscriptionId
    \/ p.dataStorageContainer /\ ~p.dataStorageAccount
    \/ p.dataStorageContainerSas /\ ~(p.dataStorageAccount /\ p.workspace)

TopicMissing(p) == p.useExistingTopic /\ ~p.existingTopicNamed

RestApiForbidden(p) ==
    IF p.useExistingApiManagement THEN p.diagnosticAppInsights
    ELSE ~(p.insights /\ p.workspace /\ p.subscriptionId)

Forbidden(class, p) ==
    CASE class = "AzureFunctionApp" -> FunctionAppForbidden(p)
      [] class = "AzureEventHandler" ->
           \/ FunctionAppForbidden(p) \/ p.defender
           \/ p.queueUseExisting /\ ~p.namespaceUseExisting
           \/ /\ ~(p.namespaceUseExisting /\ p.namespaceNamed)
              /\ p.geoReplication \in {"unconfigured", "standard"}
           \/ ~p.namespaceUseExisting /\ ~p.workspace
           \/ /\ TopicMissing(p)
              /\ \/ p.dashboard
                 \/ p.subscriptionDlq /\ ~p.queueUseExisting
      [] class = "AzureRestApi" -> RestApiForbidden(p)
      [] class = "AzureRestApiWithCache" ->
           RestApiForbidden(p) \/ p.useExistingApiManagement
      [] class = "AzureRestApiFunction" ->
           \/ FunctionAppForbidden(p)
           \/ ~p.useExistingApiManagement \/ ~p.apiStackName
           \/ \E i, j \in DOMAIN p.operations :
                 /\ i # j /\ p.operations[i].name = p.operations[j].name
                 /\ p.operations[i].method = p.operations[j].method
      [] class = "AzureSiteWithWebApp" -> ~(p.insights /\ p.workspace)
      [] class = "AzureLoadTesting" -> FALSE
      [] OTHER -> ~(p.useExistingZone \/ p.siteZone)

BuiltUnlessItsPropsForbid ==
    /\ status = "thrown" => Forbidden(this.class, props)
    /\ status = "done" => ~Forbidden(this.class, props)

(* The identity of an app has a role on the account its environment names, *)
(* on its own account and on the configuration store it reads from.        *)
GrantedWhatItReads ==
    \A id \in FunctionApps : Done(id) =>
      /\ fields[id].storageAccountName = "data" => Has(id, <<"data", "sa", "role">>)
      /\ Has(id, <<"sa", "role">>)
      /\ fields[id].appConfig = "existing" => Has(id, <<"ac", "role">>)

(* Namespace, queue and connection string of an event handler are in one   *)
(* resource group, provided an existing namespace is fully named; else the *)
(* construct creates a namespace in its own group and looks for its queue  *)
(* in the other one.                                                       *)
QueueLivesInItsNamespace ==
    \A id \in EventHandlers :
      /\ Done(id)
      /\ props.namespaceUseExisting =>
           props.namespaceNamed /\ props.namespaceGroup # NotSet
      => /\ fields[id].queueGroup = fields[id].namespaceGroup
         /\ fields[id].connectionGroup = fields[id].namespaceGroup

(* The least privilege the class promises: the root key of a namespace is  *)
(* used for a queue of somebody else's only, which is then not subscribed  *)
(* a second time.                                                          *)
OwnQueueOwnKey ==
    \A id \in EventHandlers : Done(id) =>
      /\ fields[id].connectionString = "RootManageSharedAccessKey"
           <=> props.queueUseExisting
      /\ props.queueUseExisting => ~Has(id, <<"es">>)

(* What one method makes for an app, the others let it use, and no more.   *)
ReachesWhatItUses ==
    GrantedWhatItReads /\ QueueLivesInItsNamespace /\ OwnQueueOwnKey

(* After a run host.json says what is configured, the app's own values     *)
(* before the common ones, however often and with whatever configuration   *)
(* the program ran before.                                                 *)
HostJsonIsAsConfigured ==
    \A id \in FunctionApps : Done(id) /\ hostJson # NotSet =>
      \A k \in DOMAIN hostJson :
        /\ props.appHosts[k] # NotSet => hostJson[k] = props.appHosts[k]
        /\ props.commonHosts[k] # NotSet /\ props.appHosts[k] = NotSet
             => hostJson[k] = props.commonHosts[k]

(* However the host behaves, the request for its key ends, with the key or *)
(* with the error that fails the deployment.                               *)
EveryKeyRequestEnds ==
    hostKey.state = "asking" ~> hostKey.state \in {"given", "failed"}

(* Constructs of one class come out alike, although the first one changed  *)
(* the props that the second is built from.                                *)
TwinsAreAlike ==
    \A c, d \in DOMAIN fields : Done(c) /\ DOMAIN fields[c] = DOMAIN fields[d] =>
      /\ fields[c] = fields[d]
      /\ \A r \in template : r.of = c => [r EXCEPT !.of = d] \in template
=============================================================================
