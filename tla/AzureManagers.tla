---------------------------- MODULE AzureManagers ----------------------------
(***************************************************************************)
(* The Azure service managers, as far as the constructs use them: a        *)
(* manager's method declares one resource under the id it is given with a  *)
(* suffix of its own, or its type where it has none, next to others that   *)
(* go with it.  A construct passes `id` as what it appends to its own id,  *)
(* and `reads`, the fields it takes the arguments from.                    *)
(***************************************************************************)
EXTENDS Synthesis

When(condition, resources) == IF condition THEN resources ELSE {}

Suffixed(id, suffix, reads) == {Resource(Append(id, suffix), reads)}

ResourceGroup(id, reads) == Suffixed(id, "rg", reads)

(* A storage account comes with its blob service properties, which keep    *)
(* deleted blobs for a while, unless its props skip them.                  *)
StorageAccount(id, reads) ==
    Suffixed(id, "sa", reads)
      \union When(id \notin props.skipBlobServiceProperties,
                  Suffixed(id, "blob-props", reads))

StorageContainer(id, reads) == Suffixed(id, "sc", reads)

AppServicePlan(id, reads) == Suffixed(id, "as", reads)
LinuxWebApp(id, reads) == Suffixed(id, "lwa", reads)

(* The app is created by the provider and updated by an ARM deployment     *)
(* with the settings the provider does not know.                           *)
FunctionAppFlexConsumption(id, reads) ==
    Suffixed(id, "fc", reads) \union Suffixed(id, "depl", reads)

ConfigurationStore(id, reads) == Suffixed(id, "ac", reads)
KeyVault(id, reads) == Suffixed(id, "kv", reads)
KeyVaultSecret(id, reads) == Suffixed(id, "secret", reads)
DiagnosticSettings(id, reads) == Suffixed(id, "ds", reads)
DashBoard(id, reads) == Suffixed(id, "dashboard", reads)
DefenderForStorage(id, reads) == Suffixed(id, "defender", reads)

(* Geo-replication needs its configuration and the premium SKU; without    *)
(* either the manager throws.                                              *)
GeoReplicationThrows == props.geoReplication \in {"unconfigured", "standard"}

GeoReplicationDeployment(id, reads) == Suffixed(id, "sn-geo", reads)

ServiceBusNamespace(id, reads) ==
    Suffixed(id, "sn", reads)
      \union When(props.geoReplication = "premium",
                  GeoReplicationDeployment(id, reads))

ServiceBusQueue(id, reads) == Suffixed(id, "sq", reads)
ServiceBusQueueAuthorizationRule(id, reads) == Suffixed(id, "sqar", reads)

EventgridTopic(id, reads) == Suffixed(id, "et", reads)
EventgridSubscription(id, reads) == Suffixed(id, "es", reads)

ApiManagementService(id, reads) == Suffixed(id, "am", reads)
Backend(id, reads) == Suffixed(id, "am-be", reads)
Api(id, reads) == Suffixed(id, "am-api", reads)
NamedValue(id, reads) == Suffixed(id, "named-value", reads)
Logger(id, reads) == Suffixed(id, "logger", reads)
ApiDiagnostic(id, reads) == Suffixed(id, "diagnostic", reads)
Subscription(id, reads) == Suffixed(id, "subscription", reads)
Cache(id, reads) == Suffixed(id, "cache", reads)
Operation(id, reads) == Suffixed(id, "operation", reads)
OperationPolicy(id, reads) == Suffixed(id, "operation-policy", reads)
ApiPolicy(id, reads) == Suffixed(id, "policy", reads)

ManagedRedis(id, reads) ==
    Suffixed(id, "rc", reads) \union Suffixed(id, "db", reads)

VirtualNetwork(id, reads) == Suffixed(id, "vnet", reads)
PublicIPAddress(id, reads) == Suffixed(id, "pip", reads)
NatGateway(id, reads) == Suffixed(id, "ngw", reads)
Subnet(id, reads) == Suffixed(id, "subnet", reads)
LoadTest(id, reads) == Suffixed(id, "lt", reads)

(* Role assignments.  A definition id is below the subscription's, and     *)
(* cannot be resolved without one.                                         *)
RoleDefinitionThrows == ~props.subscriptionId

RoleAssignment(id, reads) == Suffixed(id, "role", reads)
StorageAccountRole(id, reads) == RoleAssignment(Append(id, "sa"), reads)
ApplicationConfigurationRole(id, reads) == RoleAssignment(Append(id, "ac"), reads)
KeyVaultRole(id, vault, reads) == RoleAssignment(id \o <<"kv", vault>>, reads)
EventgridTopicRole(id, reads) == RoleAssignment(Append(id, "egt"), reads)

(* Both roles of a Cosmos DB account, one assignment each.                 *)
CosmosRoles(id, reads) ==
    UNION {RoleAssignment(id \o <<"cdb", role>>, reads) :
             role \in {"contributor", "reader"}}
-----------------------------------------------------------------------------
(* Methods that most constructs share.  An event handler calls them before *)
(* the inherited initResources does so again.                              *)
CreateResourceGroup ==
    /\ Calls("createResourceGroup")
    /\ IF IsSet("resourceGroup") THEN Returns
       ELSE Creates({}, ResourceGroup(<<>>, {}), [resourceGroup |-> "created"])

ResolveCommonLogAnalyticsWorkspace ==
    /\ Calls("resolveCommonLogAnalyticsWorkspace")
    /\ IF props.workspace
         THEN Sets([commonLogAnalyticsWorkspace |-> "existing"])
         ELSE Returns

ResolveApplicationInsights ==
    /\ Calls("resolveApplicationInsights")
    /\ IF props.insights THEN Sets([applicationInsights |-> "existing"])
       ELSE Returns
=============================================================================
