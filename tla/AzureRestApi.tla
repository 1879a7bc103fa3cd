----------------------------- MODULE AzureRestApi ----------------------------
(***************************************************************************)
(* AzureRestApi and its subclass AzureRestApiWithCache                     *)
(* (packages/azure/src/construct/rest-api and rest-api-with-cache): the    *)
(* API management service that the stacks of single APIs share, with its   *)
(* secrets, its logger and a Redis cache; or, useExistingApiManagement,    *)
(* the one another stack created.                                          *)
(***************************************************************************)
EXTENDS AzureManagers

RestApiMethods ==
    <<"createResourceGroup", "resolveApiKeyVault",
      "resolveCommonLogAnalyticsWorkspace", "resolveApplicationInsights",
      "createApiManagement", "createNamespaceSecretRole",
      "createNamespaceSecret", "createSubscriptionKeySecret",
      "createApiManagementLogger", "createApiDiagnostic",
      "createDiagnosticLog">>

RestApiWithCacheMethods ==
    RestApiMethods \o
    <<"createRedisCache", "createRedisCacheSecret",
      "createRedisCacheNamespace", "createRedisCacheApiManagement">>

RestApiFields ==
    {"resourceGroup", "commonLogAnalyticsWorkspace", "applicationInsights",
     "authKeyVault", "apim", "apiName", "apiGroup",
     "namedValueRoleAssignment", "namedValueSecret", "logger",
     "redisCluster", "redisDatabase", "redisNamedValueSecret",
     "redisNamedValue"}

IsRestApi == this.class \in {"AzureRestApi", "AzureRestApiWithCache"}
-----------------------------------------------------------------------------
ResolveApiKeyVault ==
    /\ Calls("resolveApiKeyVault")
    /\ Sets([authKeyVault |-> "existing"])

(* A created service may read its certificate from the vault that has it.  *)
CreateApiManagement ==
    /\ IsRestApi /\ Calls("createApiManagement")
    /\ IF props.useExistingApiManagement
         THEN IF props.apiStackName
                THEN Sets([apiName |-> "existing", apiGroup |-> "existing"])
                ELSE Returns
       ELSE IF props.certificateKeyVaultId /\ RoleDefinitionThrows THEN Throws
         ELSE Creates({"resourceGroup"},
                      ApiManagementService(<<>>, {"resourceGroup"})
                        \union When(props.certificateKeyVaultId,
                                    RoleAssignment(<<"kv">>, {})),
                      [apim |-> "created", apiName |-> "created",
                       apiGroup |-> Field("resourceGroup")])

(* The steps that only the owner of the service takes.                     *)
IfOwned(needs, resources, values) ==
    IF props.useExistingApiManagement THEN Returns
    ELSE Creates(needs, resources, values)

CreateNamespaceSecretRole ==
    /\ Calls("createNamespaceSecretRole")
    /\ IF ~props.useExistingApiManagement /\ RoleDefinitionThrows THEN Throws
       ELSE IfOwned({"apim", "resourceGroup", "authKeyVault"},
                    RoleAssignment(<<"key-vault-role-api-namespace">>,
                                   {"apim", "authKeyVault"}),
                    [namedValueRoleAssignment |-> "created"])

CreateNamespaceSecret ==
    /\ IsRestApi /\ Calls("createNamespaceSecret")
    /\ IfOwned({"authKeyVault", "applicationInsights"},
               KeyVaultSecret(<<"key-vault-api-namespace-secret">>,
                              {"authKeyVault", "applicationInsights"}),
               [namedValueSecret |-> "created"])

CreateSubscriptionKeySecret ==
    /\ Calls("createSubscriptionKeySecret")
    /\ IfOwned({"apim", "resourceGroup", "authKeyVault"},
               Subscription(<<>>, {"apim", "resourceGroup"})
                 \union KeyVaultSecret(
                            <<"key-vault-api-subscription-key-secret">>,
                            {"apim", "authKeyVault"}),
               None)

(* For an existing service this is not skipped when diagnostics are        *)
(* configured, although only a created one is in `apim`.                   *)
CreateApiManagementLogger ==
    /\ Calls("createApiManagementLogger")
    /\ IF props.useExistingApiManagement /\ ~props.diagnosticAppInsights
         THEN Returns
         ELSE Creates({"applicationInsights", "resourceGroup", "apim",
                       "namedValueSecret"},
                      NamedValue(<<"am-nv">>, {"apim", "namedValueSecret"})
                        \union Logger(<<"am-logger">>,
                                      {"apim", "applicationInsights"}),
                      [logger |-> "created"])

CreateApiDiagnostic ==
    /\ Calls("createApiDiagnostic")
    /\ IfOwned({"apim"} \union (IF props.diagnosticAppInsights
                                  THEN {"logger"} ELSE {}),
               When(props.diagnosticAppInsights,
                    ApiDiagnostic(<<"all-apis-app-insights">>,
                                  {"apim", "logger"}))
                 \union When(props.diagnosticAzMonitor,
                             ApiDiagnostic(<<"all-apis-az-monitor">>,
                                           {"apim"})),
               None)

CreateDiagnosticLog ==
    /\ IsRestApi /\ Calls("createDiagnosticLog")
    /\ IfOwned({"apim", "commonLogAnalyticsWorkspace"},
               DiagnosticSettings(<<"apim-diagnostic">>,
                                  {"apim", "commonLogAnalyticsWorkspace"}),
               None)
-----------------------------------------------------------------------------
CreateRedisCache ==
    /\ Calls("createRedisCache")
    /\ Creates({"resourceGroup"}, ManagedRedis(<<>>, {"resourceGroup"}),
               [redisCluster |-> "created", redisDatabase |-> "created"])

CreateRedisCacheSecret ==
    /\ Calls("createRedisCacheSecret")
    /\ Creates({"redisCluster", "redisDatabase", "resourceGroup",
                "authKeyVault"},
               KeyVaultSecret(<<"key-vault-redis-namespace-secret">>,
                              {"redisCluster", "redisDatabase",
                               "authKeyVault", "namedValueRoleAssignment"}),
               [redisNamedValueSecret |-> "created"])

CreateRedisCacheNamespace ==
    /\ Calls("createRedisCacheNamespace")
    /\ Creates({"redisCluster", "resourceGroup", "apim",
                "redisNamedValueSecret"},
               NamedValue(<<"redis-nv">>, {"apim", "redisNamedValueSecret"}),
               [redisNamedValue |-> "created"])

CreateRedisCacheApiManagement ==
    /\ Calls("createRedisCacheApiManagement")
    /\ Creates({"apim", "redisNamedValue", "redisCluster", "resourceGroup"},
               Cache(<<"am-redis-cache">>,
                     {"apim", "redisNamedValue", "redisCluster"}),
               None)
-----------------------------------------------------------------------------
RestApiStep ==
    \/ ResolveApiKeyVault \/ CreateApiManagement \/ CreateNamespaceSecretRole
    \/ CreateNamespaceSecret \/ CreateSubscriptionKeySecret
    \/ CreateApiManagementLogger \/ CreateApiDiagnostic \/ CreateDiagnosticLog
    \/ CreateRedisCache \/ CreateRedisCacheSecret \/ CreateRedisCacheNamespace
    \/ CreateRedisCacheApiManagement
=============================================================================
