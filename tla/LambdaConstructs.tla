--------------------------- MODULE LambdaConstructs --------------------------
(***************************************************************************)
(* RestApiLambda and RestApiLambdaWithCache (packages/aws/src/construct/   *)
(* rest-api-lambda, rest-api-lambda-with-cache), LambdaWithIamAccess       *)
(* (lambda-with-iam-access) and ApplicationConfiguration (application-     *)
(* configuration): a function behind an API of its own, one in the VPC of  *)
(* its cache, one that an IAM user calls with a key, and configuration     *)
(* that functions read.                                                    *)
(***************************************************************************)
EXTENDS ApiTargets

RestApiLambdaMethods ==
    <<"resolveSecrets", "resolveHostedZone", "resolveCertificate",
      "createLambdaPolicy", "createLambdaRole", "createLambdaEnvironment",
      "createLambdaLayers", "createLambdaFunction", "createRestApi",
      "createRestApiResources", "createApiDomain", "createApiRootPathMapping",
      "createApiRouteAssets">>

RestApiLambdaWithCacheMethods ==
    <<"resolveVpc", "resolveSecurityGroup", "createElastiCache">>
      \o RestApiLambdaMethods

(* createLambdaAccess, createAppConfigResources: the methods of that name  *)
(* in the order in which the class calls them.                             *)
IamAccessMethodsGroupsLast ==       \* a mutant
    <<"resolveLambdaVpc", "createLambdaPolicy", "createLambdaRole",
      "createLambdaEnvironment", "createLambdaLayers", "createLambdaFunction",
      "resolveSecurityGroups", "createIamUserForLambdaFunction",
      "createIamSecretForLambdaFunction">>

LambdaWithIamAccessMethods ==
    <<"resolveLambdaVpc", "resolveSecurityGroups", "createLambdaPolicy",
      "createLambdaRole", "createLambdaEnvironment", "createLambdaLayers",
      "createLambdaFunction", "createIamUserForLambdaFunction",
      "createIamSecretForLambdaFunction">>

ApplicationConfigurationMethods ==
    <<"createAppConfigApplication", "createAppConfigEnvironment",
      "createAppConfigProfile", "createAppConfigVersion",
      "createAppConfigDeploymentStrategy", "createAppConfigDeployment",
      "resolveEnvironmentVariables">>

FunctionFields ==
    {"lambdaPolicy", "lambdaRole", "environment", "layers", "function",
     "versionCapacity", "vpc", "securityGroup"}
RestApiLambdaFields == ApiFields \union FunctionFields
WithCacheFields == RestApiLambdaFields \union {"ingress", "cache"}
IamAccessFields == FunctionFields \union {"user", "invokes", "accessKey", "secret"}
ConfigurationFields ==
    {"application", "configEnvironment", "profile", "version",
     "deploymentStrategy", "variables"}

IsWithIamAccess == this.class = "LambdaWithIamAccess"
IsWithCache == this.class = "RestApiLambdaWithCache"
-----------------------------------------------------------------------------
(* Policy, role, environment, layers and function: the classes have them   *)
(* in common but for what each adds.                                       *)
RestApiLambdaPolicy == {StatementForCreateAnyLogStream({Any})}

IamAccessPolicy ==
    {StatementForCreateAnyLogStream({Any}), StatementForPutXrayTelemetry({Any})}
      \union When(props.configEnabled,
                  {StatementForReadAnyAppConfig({Any}),
                   StatementForAppConfigExecution({Any})})

CreateLambdaPolicy ==
    /\ Calls("createLambdaPolicy")
    /\ Sets([lambdaPolicy |-> IF IsWithIamAccess THEN IamAccessPolicy
                              ELSE RestApiLambdaPolicy])

(* A function in a VPC needs the managed policy for its interfaces.        *)
InVpc == IsWithCache \/ (IsWithIamAccess /\ props.vpcName)

CreateLambdaRole ==
    /\ Calls("createLambdaRole")
    /\ LET role == RoleForLambda(Field("lambdaPolicy"))
       IN Creates({"lambdaPolicy"},
                  RoleForLambdaResources(<<"lambda-role">>, {"lambdaPolicy"}),
                  [lambdaRole |-> IF InVpc
                     THEN [role EXCEPT !.managed = @ \union VpcAccess]
                     ELSE role])

CreateLambdaEnvironment ==
    /\ Calls("createLambdaEnvironment")
    /\ Sets([environment |-> "created"])

LayersOf(sources) == UNION {LambdaLayer(<<"layer", i>>) : i \in DOMAIN sources}

(* Without sources the function has no layers of its own; only with IAM    *)
(* access does it get the extension that reads configuration.              *)
CreateLambdaLayers ==
    /\ Calls("createLambdaLayers")
    /\ IF IsWithIamAccess
         THEN Creates({}, LayersOf(props.layerSources)
                            \union When(props.configEnabled,
                                        Child(<<"ac-extlayer">>, {})),
                      [layers |-> [own |-> Len(props.layerSources),
                                   reads |-> props.configEnabled]])
       ELSE IF props.layerSources = <<>> THEN Returns
       ELSE Creates({}, LayersOf(props.layerSources),
                    [layers |-> [own |-> Len(props.layerSources),
                                 reads |-> FALSE]])

FunctionId == IF IsWithIamAccess THEN <<"lambda">> ELSE <<"restapi-server">>

(* The version of insights is stored in the shared props of the function.  *)
CreateLambdaFunction ==
    /\ Calls("createLambdaFunction")
    /\ props' = [props EXCEPT !.insights = @ \/ (IsWithIamAccess
                                                   /\ props.insightsVersion)]
    /\ IF LambdaFunctionThrows \/ AliasesClash(FunctionId)
         THEN status' = "thrown" /\ UNCHANGED <<fields, template>>
       ELSE Builds({}, LambdaFunction(FunctionId,
                         {"lambdaRole", "layers", "environment", "vpc",
                          "securityGroup"}),
                   [function |-> FunctionId,
                    versionCapacity |-> VersionCapacity(props.aliases)])
-----------------------------------------------------------------------------
CreateRestApi ==
    /\ Calls("createRestApi")
    /\ IF LambdaRestApiThrows THEN Throws
       ELSE Creates({"function"}, LambdaRestApi(<<"lambda-rest-api">>,
                                                {"function"}),
                    [api |-> IF props.proxy THEN "proxy" ELSE "own"])

(* Hook: the resources of the subclass, if its API lets it have any.       *)
CreateRestApiResources == Calls("createRestApiResources") /\ Returns

CreateApiRootPathMapping ==
    /\ Calls("createApiRootPathMapping")
    /\ Creates({"domain", "api"},
               IF props.paths = {}
                 THEN Child(<<"base-bath-mapping">>, {"domain", "api"})
               ELSE UNION {Child(<<"base-bath-mapping", path>>,
                                 {"domain", "api"}) : path \in props.paths},
               None)

ResolveVpc ==
    /\ Calls("resolveVpc")
    /\ Creates({}, CommonVpc(<<"vpc">>),
               [vpc |-> IF props.useExistingVpc THEN "existing" ELSE "created"])

DefaultPortOpened(port) == 6379     \* a mutant: whatever the cache's port is

(* The port that a cache listens on.                                       *)
CachePort(port) == IF port = NotSet THEN 6379 ELSE port

OpenedPort(port) == IF port = NotSet THEN 6379 ELSE port

(* A group of its own opens to its own members the port of the cache, if   *)
(* the caller has no rules for it.                                         *)
IngressRules ==
    IF props.ingressRules # NotSet THEN props.ingressRules
    ELSE IF props.restApiCache THEN {OpenedPort(props.cachePort)} ELSE {}

ResolveSecurityGroup ==
    /\ Calls("resolveSecurityGroup")
    /\ IF props.securityGroupExportName
         THEN Creates({}, Child(<<"security-group">>, {}),
                      [securityGroup |-> "existing"])
       ELSE Creates({"vpc"}, Child(<<"security-group", props.stage>>, {"vpc"}),
                    [securityGroup |-> "created", ingress |-> IngressRules])

CreateElastiCache ==
    /\ Calls("createElastiCache")
    /\ IF ~props.restApiCache THEN Returns
       ELSE Creates({"vpc", "securityGroup"},
              ReplicatedElastiCache(<<"elasticache">>, {"vpc", "securityGroup"})
                \union StringParameter(<<"elasticache-endpoint-address">>, {})
                \union StringParameter(<<"elasticache-endpoint-port">>, {}),
              [cache |-> [group |-> Field("securityGroup"),
                          port |-> CachePort(props.cachePort)]])
-----------------------------------------------------------------------------
ResolveLambdaVpc ==
    /\ Calls("resolveLambdaVpc")
    /\ IF props.vpcName THEN Creates({}, CommonVpc(<<"vpc">>),
                                     [vpc |-> "existing"])
       ELSE Returns

ResolveSecurityGroups ==
    /\ Calls("resolveSecurityGroups")
    /\ IF props.securityGroupExportName
         THEN Creates({}, Child(<<"security-group">>, {}),
                      [securityGroup |-> "existing"])
       ELSE Returns

FunctionArns(function) == {function, Append(function, Any[1])}

(* The user may call the function by all its names.  The policies of its   *)
(* aliases are all created under one id.                                   *)
CreateIamUserForLambdaFunction ==
    /\ Calls("createIamUserForLambdaFunction")
    /\ IF Len(props.aliases) > 1 THEN Throws
       ELSE Creates({"function"},
              Child(<<"lambda-user">>, {})
                \union Child(<<"lambda-user-policy">>, {"function"})
                \union When(props.aliases # <<>>,
                            Child(<<"alias-user-policy">>, {"function"}))
                \union Child(<<"access-key", props.stage>>, {}),
              [user |-> "created", accessKey |-> "created",
               invokes |-> FunctionArns(Field("function"))])

(* The secret holds the key, in clear in the template.                     *)
CreateIamSecretForLambdaFunction ==
    /\ Calls("createIamSecretForLambdaFunction")
    /\ IF ~props.lambdaSecret THEN Throws
       ELSE Creates({"accessKey"},
                    Secret(<<"lambda-user-secret", props.stage>>, {"accessKey"}),
                    [secret |-> "created"])
-----------------------------------------------------------------------------
CreateAppConfigApplication ==
    /\ Calls("createAppConfigApplication")
    /\ Creates({}, Child(<<"ac-application">>, {}), [application |-> this.id])

CreateAppConfigEnvironment ==
    /\ Calls("createAppConfigEnvironment")
    /\ Creates({"application"}, Child(<<"ac-environment">>, {"application"}),
               [configEnvironment |-> this.id])

CreateAppConfigProfile ==
    /\ Calls("createAppConfigProfile")
    /\ Creates({"application"}, Child(<<"ac-profile">>, {"application"}),
               [profile |-> this.id])

CreateAppConfigVersion ==
    /\ Calls("createAppConfigVersion")
    /\ Creates({"application", "profile"},
               Child(<<"ac-configuration">>, {"application", "profile"}),
               [version |-> this.id])

(* A strategy is optional here: one that exists, or a new one.             *)
CreateAppConfigDeploymentStrategy ==
    /\ Calls("createAppConfigDeploymentStrategy")
    /\ IF props.deploymentStrategy = NotSet THEN Returns
       ELSE Creates({}, Child(<<"ac-deployment-strategy">>, {}),
                    [deploymentStrategy |-> props.deploymentStrategy])

DeploymentNeeds ==
    {"application", "configEnvironment", "profile", "version",
     "deploymentStrategy"}

CreateAppConfigDeployment ==
    /\ Calls("createAppConfigDeployment")
    /\ Creates(DeploymentNeeds,
               Child(<<"app-config-deployment">>, DeploymentNeeds), None)

ResolveEnvironmentVariables ==
    /\ Calls("resolveEnvironmentVariables")
    /\ Sets([variables |-> [application |-> Field("application"),
                            profile |-> Field("profile"),
                            environment |-> Field("configEnvironment")]])

LambdaConstructsStep ==
    \/ CreateLambdaPolicy \/ CreateLambdaRole \/ CreateLambdaEnvironment
    \/ CreateLambdaLayers \/ CreateLambdaFunction \/ CreateRestApi
    \/ CreateRestApiResources \/ CreateApiRootPathMapping
    \/ ResolveVpc \/ ResolveSecurityGroup \/ CreateElastiCache
    \/ ResolveLambdaVpc \/ ResolveSecurityGroups
    \/ CreateIamUserForLambdaFunction \/ CreateIamSecretForLambdaFunction

ApplicationConfigurationStep ==
    \/ CreateAppConfigApplication \/ CreateAppConfigEnvironment
    \/ CreateAppConfigProfile \/ CreateAppConfigVersion
    \/ CreateAppConfigDeploymentStrategy \/ CreateAppConfigDeployment
    \/ ResolveEnvironmentVariables
=============================================================================
