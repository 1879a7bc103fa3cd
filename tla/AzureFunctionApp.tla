-------------------------- MODULE AzureFunctionApp ---------------------------
(***************************************************************************)
(* AzureFunctionApp (packages/azure/src/construct/function-app), from      *)
(* which AzureEventHandler and AzureRestApiFunction inherit: an app on a   *)
(* plan of its own, its storage account and an optional one for data, its  *)
(* configuration store, and the roles of the app's identity.  Subclasses   *)
(* fill the hooks createdParsedAppConfigurations and                       *)
(* createAppConfigurations: what they find is in props.                    *)
(*                                                                         *)
(* host.json is a file of the function's sources: createFunctionHosts      *)
(* reads it, merges the configured values into it and writes it back, so   *)
(* that the next deployment starts from what this one wrote.               *)
(***************************************************************************)
EXTENDS AzureManagers

VARIABLE hostJson   \* host.json: NotSet, or the value of each key

FunctionAppMethodsAppFirst ==   \* a mutant: the data account comes after the app
    <<"createResourceGroup", "resolveCommonLogAnalyticsWorkspace",
      "resolveApplicationInsights", "createAppServicePlan",
      "createdParsedAppConfigurations", "createAppConfiguration",
      "createAppConfigurations", "createStorageAccount",
      "createStorageDeploymentContainer", "createStorageContainer",
      "createFunctionApp", "createDataStorageAccount",
      "createDataStorageContainer", "generateStorageContainerSas",
      "createFunctionHosts", "createCodePackage",
      "createFunctionAppSiteConfig", "createRoleAssignments",
      "createFunctionDashboard">>

FunctionAppMethods ==
    <<"createResourceGroup", "resolveCommonLogAnalyticsWorkspace",
      "resolveApplicationInsights", "createAppServicePlan",
      "createdParsedAppConfigurations", "createAppConfiguration",
      "createAppConfigurations", "createStorageAccount",
      "createStorageDeploymentContainer", "createStorageContainer",
      "createDataStorageAccount", "createDataStorageContainer",
      "generateStorageContainerSas", "createFunctionHosts",
      "createCodePackage", "createFunctionAppSiteConfig",
      "createFunctionApp", "createRoleAssignments",
      "createFunctionDashboard">>

FunctionAppFields ==
    {"resourceGroup", "commonLogAnalyticsWorkspace", "applicationInsights",
     "appServicePlan", "parsedConfig", "appConfig", "keyVaults",
     "appStorageAccount", "deploymentContainer", "storageContainer",
     "dataStorageAccount", "dataStorageContainer", "dataKeyVault",
     "storageAccountName", "codeArchive", "app"}
-----------------------------------------------------------------------------
CreateAppServicePlan ==
    /\ Calls("createAppServicePlan")
    /\ Creates({"resourceGroup"},
               AppServicePlan(<<"app-service-plan">>, {"resourceGroup"}),
               [appServicePlan |-> "created"])

(* Hook: the subclass parses the app's configuration and finds what it     *)
(* depends on.                                                             *)
CreatedParsedAppConfigurations ==
    /\ Calls("createdParsedAppConfigurations")
    /\ Sets([parsedConfig |-> props.parsedConfig])

(* A store of its own, or the existing one; with useConfigOverride the app *)
(* is configured without one.                                              *)
CreateAppConfiguration ==
    /\ Calls("createAppConfiguration")
    /\ IF props.appConfiguration
         THEN Creates({"resourceGroup"},
                      ConfigurationStore(<<"app-configuration">>,
                                         {"resourceGroup"}),
                      [appConfig |-> "created"])
         ELSE IF props.useConfigOverride THEN Returns
         ELSE Sets([appConfig |-> "existing"])

(* Hook: the subclass writes the values and collects the key vaults they   *)
(* refer to.                                                               *)
CreateAppConfigurations ==
    /\ Calls("createAppConfigurations")
    /\ Sets([keyVaults |-> props.keyVaults])

CreateStorageAccount ==
    /\ Calls("createStorageAccount")
    /\ Creates({"resourceGroup"},
               StorageAccount(<<"storage-account">>, {"resourceGroup"}),
               [appStorageAccount |-> "app"])

CreateStorageDeploymentContainer ==
    /\ Calls("createStorageDeploymentContainer")
    /\ Creates({"appStorageAccount", "resourceGroup"},
               StorageContainer(<<"storage-deployment-container">>,
                                {"appStorageAccount", "resourceGroup"}),
               [deploymentContainer |-> "created"])

CreateStorageContainer ==
    /\ Calls("createStorageContainer")
    /\ IF ~props.storageContainer THEN Returns
       ELSE Creates({"appStorageAccount", "resourceGroup"},
                    StorageContainer(<<"storage-container">>,
                                     {"appStorageAccount", "resourceGroup"}),
                    [storageContainer |-> "created",
                     storageAccountName |-> Field("appStorageAccount")])

(* The account for data takes the place of the app's own in the app's      *)
(* environment.                                                            *)
CreateDataStorageAccount ==
    /\ Calls("createDataStorageAccount")
    /\ IF ~props.dataStorageAccount THEN Returns
       ELSE Creates({"resourceGroup"},
                    StorageAccount(<<"data-storage-account">>,
                                   {"resourceGroup"}),
                    [dataStorageAccount |-> "data",
                     storageAccountName |-> "data"])

CreateDataStorageContainer ==
    /\ Calls("createDataStorageContainer")
    /\ IF ~props.dataStorageContainer THEN Returns
       ELSE Creates({"dataStorageAccount", "resourceGroup"},
                    StorageContainer(<<"data-storage-container">>,
                                     {"dataStorageAccount", "resourceGroup"}),
                    [dataStorageContainer |-> "created"])

(* The token opens the data account; it is kept in a vault of its own,     *)
(* whose accesses are logged.                                              *)
GenerateStorageContainerSas ==
    /\ Calls("generateStorageContainerSas")
    /\ IF ~props.dataStorageContainerSas THEN Returns
       ELSE Creates({"dataStorageAccount", "commonLogAnalyticsWorkspace",
                     "resourceGroup"},
                    KeyVault(<<>>, {"resourceGroup"})
                      \union DiagnosticSettings(<<"data-key-vault">>,
                               {"commonLogAnalyticsWorkspace"})
                      \union KeyVaultSecret(<<"sas-token-secret">>,
                               {"dataStorageAccount", "resourceGroup"}),
                    [dataKeyVault |-> "created"])
-----------------------------------------------------------------------------
HostsConfigCommonFirst(file) ==     \* a mutant: the common values win
    [k \in DOMAIN file |->
        Coalesce(props.commonHosts[k], Coalesce(props.appHosts[k], file[k]))]

(* What is configured for the app goes over what is configured for all     *)
(* apps, and both over what the file has.                                  *)
HostsConfig(file) ==
    [k \in DOMAIN file |->
        Coalesce(props.appHosts[k], Coalesce(props.commonHosts[k], file[k]))]

CreateFunctionHosts ==
    /\ Calls("createFunctionHosts")
    /\ hostJson' = IF hostJson = NotSet THEN NotSet ELSE HostsConfig(hostJson)
    /\ Returns

CreateCodePackage ==
    /\ Calls("createCodePackage")
    /\ Sets([codeArchive |-> "created"])

CreateFunctionAppSiteConfig ==
    /\ Calls("createFunctionAppSiteConfig")
    /\ Returns

(* Its settings are the environment as it is now, the connection strings   *)
(* of Application Insights and of the app's account.                       *)
CreateFunctionApp ==
    /\ Calls("createFunctionApp")
    /\ Creates({"appServicePlan", "resourceGroup", "appStorageAccount",
                "deploymentContainer", "applicationInsights"},
               FunctionAppFlexConsumption(<<"function-app-flex">>,
                   DOMAIN fields[this.id] \intersect
                     {"appServicePlan", "appStorageAccount",
                      "deploymentContainer", "applicationInsights",
                      "storageAccountName", "queueName", "connectionString"}),
               [app |-> "created"])
-----------------------------------------------------------------------------
HasCosmosDependencies ==
    IsSet("parsedConfig") /\ "cosmos" \in Field("parsedConfig")

HasEventGridTargets ==
    IsSet("parsedConfig") /\ "eventGridTargets" \in Field("parsedConfig")

DataAccountRoleWithItsContainer ==    \* a mutant: the wrong prop decides
    When(props.dataStorageContainer,
         StorageAccountRole(<<"data">>, {"dataStorageAccount", "app"}))

DataAccountRole ==
    When(props.dataStorageAccount,
         StorageAccountRole(<<"data">>, {"dataStorageAccount", "app"}))

(* What the app's identity may read and write: its accounts, the           *)
(* configuration store, and what its configuration refers to.              *)
CreateRoleAssignments ==
    /\ Calls("createRoleAssignments")
    /\ IF RoleDefinitionThrows THEN Throws
       ELSE Creates({"appStorageAccount", "app"}
                      \union (IF props.dataStorageAccount
                                THEN {"dataStorageAccount"} ELSE {})
                      \union (IF props.useConfigOverride
                                THEN {} ELSE {"appConfig"}),
              DataAccountRole
                \union StorageAccountRole(<<>>, {"appStorageAccount", "app"})
                \union When(~props.useConfigOverride,
                         ApplicationConfigurationRole(<<>>,
                                                      {"appConfig", "app"}))
                \union When(HasCosmosDependencies,
                         CosmosRoles(<<>>, {"app"}))
                \union When(HasEventGridTargets,
                         EventgridTopicRole(<<>>, {"app"}))
                \union UNION {KeyVaultRole(<<>>, v, {"app"}) :
                                v \in Coalesce(Field("keyVaults"), {})},
              None)

(* The variables of the dashboard's template name what the subclasses      *)
(* built.                                                                  *)
DashboardNeeds == {"app", "resourceGroup", "applicationInsights"}

CreateFunctionDashboard(needs) ==
    /\ Calls("createFunctionDashboard")
    /\ IF ~props.dashboard THEN Returns
       ELSE Creates(needs, DashBoard(<<"dsh">>, needs), None)
-----------------------------------------------------------------------------
FunctionAppStep ==
    \/ CreateFunctionHosts
    \/ /\ \/ CreateResourceGroup \/ ResolveCommonLogAnalyticsWorkspace
          \/ ResolveApplicationInsights \/ CreateAppServicePlan
          \/ CreatedParsedAppConfigurations \/ CreateAppConfiguration
          \/ CreateAppConfigurations \/ CreateStorageAccount
          \/ CreateStorageDeploymentContainer \/ CreateStorageContainer
          \/ CreateDataStorageAccount \/ CreateDataStorageContainer
          \/ GenerateStorageContainerSas
          \/ CreateFunctionApp \/ CreateRoleAssignments
       /\ UNCHANGED hostJson
=============================================================================
