-------------------------- MODULE ApiToLambdaTarget --------------------------
(***************************************************************************)
(* ApiToLambdaTarget and ApiToAnyTarget (packages/aws/src/construct/api-   *)
(* to-lambda-target, api-to-any-target): an API in front of a function     *)
(* that exists already, and one whose targets a subclass adds.             *)
(***************************************************************************)
EXTENDS ApiTargets

LambdaTargetMethods ==
    <<"resolveSecrets", "resolveHostedZone", "resolveCertificate",
      "createApiToLambdaTargetMethodResponse",
      "createApiToLambdaTargetMethodErrorResponse",
      "resolveApiToLambdaTargetFunction", "createApiToLambdaTargetRestApi",
      "createApiToLambdaTargetResource", "createApiToLambdaTargetPolicy",
      "createApiToLambdaTargetRole", "createApiToLambdaTargetIntegration",
      "createApiToLambdaTargetResourceMethod", "createApiDomain",
      "createApiBasePathMapping", "createApiRouteAssets">>

(* The subclass's resources come after its initResources.                  *)
AnyTargetMethods ==
    <<"resolveSecrets", "resolveHostedZone", "resolveCertificate",
      "createApiToAnyTargetRestApi", "createApiDomain",
      "createApiBasePathMapping", "createApiRouteAssets",
      "createApiToAnyTargetResource">>

LambdaTargetFields == ApiFields \union {"lambda"}
AnyTargetFields == ApiFields \union {"resources"}
-----------------------------------------------------------------------------
CreateApiToLambdaTargetMethodResponse ==
    /\ Calls("createApiToLambdaTargetMethodResponse")
    /\ MethodResponseOf([methodResponse |-> "response"])

CreateApiToLambdaTargetMethodErrorResponse ==
    /\ Calls("createApiToLambdaTargetMethodErrorResponse")
    /\ MethodResponseOf([methodErrorResponse |-> "error response"])

ResolveApiToLambdaTargetFunction ==
    /\ Calls("resolveApiToLambdaTargetFunction")
    /\ Creates({}, Child(<<"lambda">>, {}), [lambda |-> <<"lambda">>])

(* An API of its own answers with the responses of its construct, which    *)
(* replace what the props have had.                                        *)
DefaultMethods ==
    [made |-> this.id,
     of |-> <<Field("methodResponse"), Field("methodErrorResponse")>>]

CreateApiToLambdaTargetRestApi ==
    /\ Calls("createApiToLambdaTargetRestApi")
    /\ IF ImportsApi THEN ImportApi(<<"rest-api">>)
       ELSE LET methods == DefaultMethods
            IN /\ props' = [props EXCEPT !.defaultMethods = methods]
               /\ IF LambdaRestApiThrows
                    THEN status' = "thrown" /\ UNCHANGED <<fields, template>>
                  ELSE Builds({"lambda"},
                         LambdaRestApi(<<"lambda-rest-api">>,
                           {"lambda", "methodResponse", "methodErrorResponse"}),
                         [api |-> IF props.proxy THEN "proxy" ELSE "own"])

CreateApiToLambdaTargetResource ==
    /\ Calls("createApiToLambdaTargetResource")
    /\ AddResource(ResourceOr(NotSet))

CreateApiToLambdaTargetPolicy ==
    /\ Calls("createApiToLambdaTargetPolicy")
    /\ Sets([policy |-> {StatementForPutEvents({Any}),
                         StatementForInvokeLambda({Field("lambda")})}])

CreateApiToLambdaTargetRole ==
    /\ Calls("createApiToLambdaTargetRole")
    /\ Creates({"policy"}, Child(<<"rest-api-role">>, {"policy"}),
               [role |-> NewRole("apigateway", Field("policy"), {})])

CreateApiToLambdaTargetIntegration ==
    /\ Calls("createApiToLambdaTargetIntegration")
    /\ Sets([integration |->
               [uses |-> Field("role"),
                sends |-> [action |-> "lambda:InvokeFunction",
                           to |-> Field("lambda")]]])

CreateApiToLambdaTargetResourceMethod ==
    Calls("createApiToLambdaTargetResourceMethod") /\ AddMethod
-----------------------------------------------------------------------------
CreateApiToAnyTargetRestApi ==
    /\ Calls("createApiToAnyTargetRestApi")
    /\ IF ImportsApi THEN ImportApi(<<"rest-api">>) ELSE NewApi(<<"rest-api">>)

RootResourceFor(path) ==
    When(props.importedRestApiRootRef,
         Child(<<"root-resource-for", path>>, {"api"}))

(* A resource with its methods, and one for all that is below it.          *)
ApiResourceWithMethods(path) ==
    ApiResource(<<"resource", path>>, {"api"})
      \union When(props.addProxy,
                  ApiResource(<<"resource", path, "proxy">>, {"api"}))

CreateApiToAnyTargetResource ==
    /\ Calls("createApiToAnyTargetResource")
    /\ IfWithResource(
         IF RootUnknown THEN Throws
         ELSE Creates({"api"},
                UNION {RootResourceFor(path) \union ApiResourceWithMethods(path) :
                         path \in props.paths},
                [resources |-> props.paths]))

ApiToLambdaTargetStep ==
    \/ CreateApiToLambdaTargetMethodResponse
    \/ CreateApiToLambdaTargetMethodErrorResponse
    \/ ResolveApiToLambdaTargetFunction \/ CreateApiToLambdaTargetRestApi
    \/ CreateApiToLambdaTargetResource \/ CreateApiToLambdaTargetPolicy
    \/ CreateApiToLambdaTargetRole \/ CreateApiToLambdaTargetIntegration
    \/ CreateApiToLambdaTargetResourceMethod

ApiToAnyTargetStep == CreateApiToAnyTargetRestApi \/ CreateApiToAnyTargetResource
=============================================================================
