-------------------------- MODULE AzureEventHandler --------------------------
(***************************************************************************)
(* AzureEventHandler (packages/azure/src/construct/event-handler): an      *)
(* event grid topic whose events a subscription puts on a service bus      *)
(* queue, which a function app reads.  Namespace, queue and topic are      *)
(* created or looked up.  All of this happens before the inherited         *)
(* initResources creates the app and its accounts.                         *)
(*                                                                         *)
(* Resource groups matter here, a queue is addressed by its group,         *)
(* namespace and name: "own" is the construct's group, any other value is  *)
(* one that the namespace's props name.                                    *)
(***************************************************************************)
EXTENDS AzureFunctionApp

EventHandlerMethods ==
    <<"createResourceGroup", "resolveCommonLogAnalyticsWorkspace",
      "resolveApplicationInsights",
      "createEventGridSubscriptionDlqStorageAccount",
      "createEventGridSubscriptionDlqStorageContainer",
      "createServiceBusNamespace", "createServiceBusQueue",
      "createServiceBusQueueAuthorizationRule", "createEventGrid",
      "createEventGridEventSubscription", "createServiceBusDiagnosticLog",
      "enableMalwareScanningOnDataStorageAccount">> \o FunctionAppMethods

EventHandlerFields ==
    FunctionAppFields \union
    {"dlqStorageAccount", "dlqStorageContainer", "namespace",
     "namespaceGroup", "queue", "queueGroup", "queueAuthorizationRule",
     "eventGridTopic", "eventSubscription", "queueName",
     "connectionString", "connectionGroup"}
-----------------------------------------------------------------------------
CreateEventGridSubscriptionDlqStorageAccount ==
    /\ Calls("createEventGridSubscriptionDlqStorageAccount")
    /\ IF ~props.subscriptionDlq THEN Returns
       ELSE Creates({"resourceGroup"},
                    StorageAccount(
                        <<"eventgrid-subscription-dlq-storage-account">>,
                        {"resourceGroup"}),
                    [dlqStorageAccount |-> "created"])

CreateEventGridSubscriptionDlqStorageContainer ==
    /\ Calls("createEventGridSubscriptionDlqStorageContainer")
    /\ IF ~IsSet("dlqStorageAccount") THEN Returns
       ELSE Creates({"dlqStorageAccount", "resourceGroup"},
                    StorageContainer(<<"eventgrid-subscription-dlq-container">>,
                                     {"dlqStorageAccount", "resourceGroup"}),
                    [dlqStorageContainer |-> "created"])
-----------------------------------------------------------------------------
(* An existing queue under a namespace that is to be created.              *)
InvalidServiceBus == props.queueUseExisting /\ ~props.namespaceUseExisting

CreateServiceBusNamespace ==
    /\ Calls("createServiceBusNamespace")
    /\ IF InvalidServiceBus THEN Throws
       ELSE IF props.namespaceUseExisting /\ props.namespaceNamed
         THEN Sets([namespace |-> "existing",
                    namespaceGroup |-> props.namespaceGroup])
       ELSE IF GeoReplicationThrows THEN Throws
         ELSE Creates({"resourceGroup"},
                      ServiceBusNamespace(<<>>, {"resourceGroup"}),
                      [namespace |-> "created", namespaceGroup |-> "own"])

OwnResourceGroup == "own"    \* a mutant: the group of the construct, always

(* The group of the namespace, by what its props say of it.                *)
NamespaceResourceGroup ==
    IF props.namespaceUseExisting THEN Coalesce(props.namespaceGroup, "own")
    ELSE "own"

CreateServiceBusQueue ==
    /\ Calls("createServiceBusQueue")
    /\ IF props.queueUseExisting /\ props.namespaceNamed /\ props.queueNamed
         THEN Sets([queue |-> "existing", queueGroup |-> props.namespaceGroup])
         ELSE Creates({"namespace", "resourceGroup"},
                      ServiceBusQueue(<<>>, {"namespace", "namespaceGroup"}),
                      [queue |-> "created",
                       queueGroup |-> NamespaceResourceGroup])

(* A rule for this queue alone: not for one that somebody else owns.       *)
CreateServiceBusQueueAuthorizationRule ==
    /\ Calls("createServiceBusQueueAuthorizationRule")
    /\ IF props.queueUseExisting THEN Returns
       ELSE Creates({"namespace", "queue", "resourceGroup"},
                    ServiceBusQueueAuthorizationRule(<<>>,
                        {"namespace", "queue", "queueGroup"}),
                    [queueAuthorizationRule |-> "listen-send"])

(* The subscription of an existing topic has a provider of its own, used   *)
(* or not.                                                                 *)
SubscriptionProvider ==
    When(props.existingSubscription, Suffixed(<<>>, "provider", {}))

(* An existing topic that is not fully named is left undefined.            *)
CreateEventGrid ==
    /\ Calls("createEventGrid")
    /\ IF ~props.useExistingTopic
         THEN Creates({"resourceGroup"},
                      EventgridTopic(<<>>, {"resourceGroup"}),
                      [eventGridTopic |-> "created"])
         ELSE Creates({}, SubscriptionProvider,
                      IF props.existingTopicNamed
                        THEN [eventGridTopic |-> "existing"] ELSE None)

(* Whoever owns the queue subscribes it, given an account for the events   *)
(* that cannot be delivered.                                               *)
CreateEventGridEventSubscription ==
    /\ Calls("createEventGridEventSubscription")
    /\ IF props.queueUseExisting \/ ~IsSet("dlqStorageAccount") THEN Returns
       ELSE Creates({"eventGridTopic", "queue"},
                    EventgridSubscription(<<>>,
                        {"eventGridTopic", "queue", "dlqStorageAccount",
                         "dlqStorageContainer"}),
                    [eventSubscription |-> "created"])

CreateServiceBusDiagnosticLog ==
    /\ Calls("createServiceBusDiagnosticLog")
    /\ IF props.namespaceUseExisting THEN Returns
       ELSE Creates({"namespace", "commonLogAnalyticsWorkspace"},
                    DiagnosticSettings(<<>>,
                        {"namespace", "commonLogAnalyticsWorkspace"}),
                    None)

(* The account is created by the inherited initResources, later.           *)
EnableMalwareScanningOnDataStorageAccount ==
    /\ Calls("enableMalwareScanningOnDataStorageAccount")
    /\ IF ~props.defender THEN Returns
       ELSE Creates({"dataStorageAccount", "eventGridTopic"},
                    DefenderForStorage(<<"data-storage-defender">>,
                        {"dataStorageAccount", "eventGridTopic"}),
                    None)
-----------------------------------------------------------------------------
RootConnectionString ==     \* a mutant: the rule is not used
    [key |-> "RootManageSharedAccessKey",
     group |-> Coalesce(props.namespaceGroup, "own")]

(* The rule of its own queue, or the root key of the whole namespace.      *)
ResolveServiceBusConnectionString ==
    IF IsSet("queueAuthorizationRule")
      THEN [key |-> Field("queueAuthorizationRule"),
            group |-> NamespaceResourceGroup]
      ELSE [key |-> "RootManageSharedAccessKey",
            group |-> Coalesce(props.namespaceGroup, "own")]

CreateEventHandlerSiteConfig ==
    /\ this.class = "AzureEventHandler"
    /\ Calls("createFunctionAppSiteConfig")
    /\ Creates({"queue", "namespace"}, {},
               [queueName |-> Field("queue"),
                connectionString |-> ResolveServiceBusConnectionString.key,
                connectionGroup |-> ResolveServiceBusConnectionString.group])

EventHandlerDashboardNeeds ==
    DashboardNeeds \union {"namespace", "eventGridTopic"}
-----------------------------------------------------------------------------
EventHandlerStep ==
    /\ \/ CreateEventGridSubscriptionDlqStorageAccount
       \/ CreateEventGridSubscriptionDlqStorageContainer
       \/ CreateServiceBusNamespace \/ CreateServiceBusQueue
       \/ CreateServiceBusQueueAuthorizationRule \/ CreateEventGrid
       \/ CreateEventGridEventSubscription \/ CreateServiceBusDiagnosticLog
       \/ EnableMalwareScanningOnDataStorageAccount
       \/ CreateEventHandlerSiteConfig
    /\ UNCHANGED hostJson
=============================================================================
