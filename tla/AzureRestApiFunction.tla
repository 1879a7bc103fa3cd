------------------------ MODULE AzureRestApiFunction -------------------------
(***************************************************************************)
(* AzureRestApiFunction (packages/azure/src/construct/rest-api-function):  *)
(* a function app behind an API management service that another stack      *)
(* owns.  The service calls the app with a key of the app's host, which    *)
(* the host has only some time after the app was created: the construct    *)
(* asks for it again and again, while the rest of the program goes on.     *)
(***************************************************************************)
EXTENDS AzureFunctionApp

CONSTANT MaxRetries     \* how often the host is asked for its key

ASSUME MaxRetriesAssumption == MaxRetries \in Nat \ {0}

VARIABLE hostKey    \* [state, tries, ready]: the request, and the host

restVars == <<synthVars, hostJson>>

RestApiFunctionMethods ==
    [i \in 1..18 |-> FunctionAppMethods[i]] \o
    <<"resolveApiKeyVault", "createNamespaceSecret", "createApiManagement",
      "createApiManagementNamespace", "createApiManagementRoutes",
      "createCorsPolicy", "createApiPolicy", "createFunctionDashboard">>

RestApiFunctionFields ==
    FunctionAppFields \union
    {"authKeyVault", "namedValueSecret", "apim", "apiName", "apiGroup",
     "namedValue", "backend", "managementApi", "apiOperations", "corsPolicy"}

IsRestApiFunction == this.class = "AzureRestApiFunction"
-----------------------------------------------------------------------------
NoRequest == [state |-> "none", tries |-> 0, ready |-> FALSE]

(* Only for an existing service.  A preview does not ask the host.         *)
CreateFunctionNamespaceSecret ==
    /\ IsRestApiFunction /\ Calls("createNamespaceSecret")
    /\ IF ~props.useExistingApiManagement
         THEN Returns /\ UNCHANGED hostKey
         ELSE /\ Creates({"app", "resourceGroup", "authKeyVault"},
                         KeyVaultSecret(<<"key-vault-api-namespace-secret">>,
                                        {"app", "authKeyVault"}),
                         [namedValueSecret |-> "created"])
              /\ hostKey' = [hostKey EXCEPT !.state =
                                IF props.dryRun THEN "previewing" ELSE "asking"]

AskHostForItsKeyForEver ==      \* a mutant: no limit
    /\ hostKey.state = "asking"
    /\ hostKey' = IF hostKey.ready THEN [hostKey EXCEPT !.state = "given"]
                  ELSE hostKey
    /\ UNCHANGED restVars

(* The host gives its key, or it has none yet, or the call fails: then it  *)
(* is asked again after a delay, but not after the last try.               *)
AskHostForItsKey ==
    /\ hostKey.state = "asking"
    /\ \/ hostKey.ready /\ hostKey' = [hostKey EXCEPT !.state = "given"]
       \/ hostKey' = [hostKey EXCEPT
                        !.tries = @ + 1,
                        !.state = IF hostKey.tries + 1 < MaxRetries
                                    THEN "asking" ELSE "failed"]
    /\ UNCHANGED restVars

(* The host has generated its keys.                                        *)
HostStarts ==
    /\ hostKey.state # "none" /\ ~hostKey.ready
    /\ hostKey' = [hostKey EXCEPT !.ready = TRUE]
    /\ UNCHANGED restVars
-----------------------------------------------------------------------------
(* An existing service is what its stack says it is.                       *)
CreateFunctionApiManagement ==
    /\ IsRestApiFunction /\ Calls("createApiManagement")
    /\ IF props.useExistingApiManagement
         THEN IF props.apiStackName
                THEN Sets([apiName |-> "existing", apiGroup |-> "existing"])
                ELSE Returns
       ELSE IF props.certificateKeyVaultId /\ RoleDefinitionThrows THEN Throws
         ELSE Creates({"resourceGroup"},
                      ApiManagementService(<<>>, {"resourceGroup"})
                        \union When(props.certificateKeyVaultId,
                                    RoleAssignment(<<"kv">>, {})),
                      [apim |-> "created", apiName |-> "created",
                       apiGroup |-> Field("resourceGroup")])

(* The named value is the secret, which only an existing service has; it   *)
(* also needs the name and group of the service.                           *)
CreateApiManagementNamespace ==
    /\ Calls("createApiManagementNamespace")
    /\ Creates({"app", "namedValueSecret", "apiName", "apiGroup",
                "resourceGroup"},
               NamedValue(<<"am-nv">>,
                          {"app", "namedValueSecret", "apiName", "apiGroup"})
                 \union Backend(<<>>, {"app", "apiName", "apiGroup"}),
               [namedValue |-> "created", backend |-> "created"])

OperationIdOfItsName(o) == <<o.name>>   \* a mutant: whatever the method

(* Operations have the id <name>-<method>, and those of one name and       *)
(* method the same.                                                        *)
OperationId(o) == <<o.name, o.method>>

OperationsClash ==
    \E i, j \in DOMAIN props.operations :
        i # j /\ OperationId(props.operations[i])
                   = OperationId(props.operations[j])

Operations == {props.operations[i] : i \in DOMAIN props.operations}

(* The construct keeps an operation under its name: the last one.          *)
LastOfEachName ==
    {props.operations[i] : i \in {j \in DOMAIN props.operations :
        \A k \in DOMAIN props.operations :
            k > j => props.operations[k].name # props.operations[j].name}}

CreateApiOperation(o) ==
    Operation(OperationId(o), {"apiName", "apiGroup"})

(* Cached responses are stored by a policy of the operation.               *)
CreateApiOperationCachePolicy(o) ==
    When(o.enableCacheSet,
         OperationPolicy(OperationId(o), {"apiName", "apiGroup"}))

CreateApiManagementRoutes ==
    /\ Calls("createApiManagementRoutes")
    /\ IF OperationsClash THEN Throws
       ELSE Creates({"apiName", "apiGroup"},
              Api(<<"apim-api">>, {"apiName", "apiGroup"})
                \union UNION {CreateApiOperation(o)
                                \union CreateApiOperationCachePolicy(o) :
                                o \in Operations},
              [managementApi |-> "created", apiOperations |-> LastOfEachName])

(* The origins given, or those of the subdomain in every locale.           *)
CorsOrigins ==
    IF props.allowedOrigins # NotSet THEN props.allowedOrigins
    ELSE IF props.originSubdomain THEN props.locales ELSE {}

CreateCorsPolicy ==
    /\ Calls("createCorsPolicy")
    /\ IF props.enableCors THEN Sets([corsPolicy |-> CorsOrigins])
       ELSE Returns

CreateApiPolicy ==
    /\ Calls("createApiPolicy")
    /\ Creates({"backend"},
               ApiPolicy(<<"apim-api-policy">>,
                         {"corsPolicy", "backend", "apiName", "apiGroup"}),
               None)

-----------------------------------------------------------------------------
RestApiFunctionStep ==
    \/ CreateFunctionNamespaceSecret /\ UNCHANGED hostJson
    \/ /\ \/ CreateFunctionApiManagement \/ CreateApiManagementNamespace
          \/ CreateApiManagementRoutes \/ CreateCorsPolicy \/ CreateApiPolicy
       /\ UNCHANGED <<hostJson, hostKey>>
=============================================================================
