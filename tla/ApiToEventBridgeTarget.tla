----------------------- MODULE ApiToEventBridgeTarget ------------------------
(***************************************************************************)
(* ApiToEventBridgeTarget (packages/aws/src/construct/api-to-eventbridge-  *)
(* target): POST requests to a resource of the API become events on a bus, *)
(* and a rule logs them.                                                   *)
(***************************************************************************)
EXTENDS ApiTargets

EventBridgeTargetMethods ==
    <<"resolveSecrets", "resolveHostedZone", "resolveCertificate",
      "createApiToEventBridgeTargetEventBus",
      "createApiToEventBridgeTargetLogGroup",
      "createApiToEventBridgeTargetRule",
      "createApiToEventBridgeTargetPolicy", "createApiToEventBridgeTargetRole",
      "createApiToEventBridgeTargetIntegrationRequestParameters",
      "createApiToEventBridgeTargetIntegrationRequestTemplates",
      "createApiToEventBridgeTargetIntegrationResponse",
      "createApiToEventBridgeTargetIntegrationErrorResponse",
      "createApiToEventBridgeTargetIntegration",
      "createApiToEventBridgeTargetRestApi",
      "createApiToEventBridgeTargetResource",
      "createApiToEventBridgeTargetResponseModel",
      "createApiToEventBridgeTargetErrorResponseModel",
      "createApiToEventBridgeTargetMethodResponse",
      "createApiToEventBridgeTargetMethodErrorResponse",
      "createApiToEventBridgeTargetResourceMethod",
      "createApiDomain", "createApiBasePathMapping", "createApiRouteAssets">>

EventBridgeTargetFields == EventApiFields \union {"logGroup", "rule"}
-----------------------------------------------------------------------------
EventBusName ==
    IF props.eventBusName = NotSet THEN <<"default">> ELSE props.eventBusName

ExistingEventBusUnformatted == EventBusName   \* a mutant: as the props have it

(* The bus that another stack created from the same props.                 *)
ExistingEventBus == Format(EventBusName)

CreateApiToEventBridgeTargetEventBus ==
    /\ Calls("createApiToEventBridgeTargetEventBus")
    /\ IF props.useExisting
         THEN Creates({}, EventBus(<<"event-bus">>),
                      [eventBus |-> ExistingEventBus])
       ELSE IF EventBusThrows(EventBusName) THEN Throws
       ELSE Creates({}, EventBus(<<"event-bus">>),
                    [eventBus |-> Format(EventBusName)])

CreateApiToEventBridgeTargetLogGroup ==
    /\ Calls("createApiToEventBridgeTargetLogGroup")
    /\ IfOwned(Creates({}, LogGroup(<<"log">>, {}), [logGroup |-> "created"]))

RulePatternPerConstruct == this.id      \* a mutant: each construct its own

(* The default pattern goes into the shared props, where the next          *)
(* construct finds it as if the caller had set it.                         *)
RulePattern == IF props.rulePattern = NotSet THEN "default"
               ELSE props.rulePattern

CreateApiToEventBridgeTargetRule ==
    /\ Calls("createApiToEventBridgeTargetRule")
    /\ IfOwned(
         IF ~props.ruleName THEN Throws
         ELSE LET pattern == RulePattern
              IN /\ props' = [props EXCEPT !.rulePattern = pattern]
                 /\ Builds({"eventBus", "logGroup"},
                           Rule(<<"api-to-eventbridge-target-rule">>,
                                {"eventBus", "logGroup"}),
                           [rule |-> pattern]))

CreateApiToEventBridgeTargetPolicy ==
    /\ Calls("createApiToEventBridgeTargetPolicy")
    /\ IF ~IsSet("eventBus") THEN Throws
       ELSE Sets([policy |-> {StatementForPutEvents({Field("eventBus")})}])

CreateApiToEventBridgeTargetRole ==
    /\ Calls("createApiToEventBridgeTargetRole")
    /\ Creates({"policy"}, Child(<<"rest-api-role">>, {"policy"}),
               [role |-> NewRole("apigateway", Field("policy"), {})])
-----------------------------------------------------------------------------
CreateApiToEventBridgeTargetIntegrationRequestParameters ==
    /\ Calls("createApiToEventBridgeTargetIntegrationRequestParameters")
    /\ RequestParameters

(* The event goes to the bus by its name.                                  *)
CreateApiToEventBridgeTargetIntegrationRequestTemplates ==
    /\ Calls("createApiToEventBridgeTargetIntegrationRequestTemplates")
    /\ IfWithResource(
         Sets([integrationRequestTemplates |->
                 [action |-> "events:PutEvents", to |-> Field("eventBus")]]))

CreateApiToEventBridgeTargetIntegrationResponse ==
    /\ Calls("createApiToEventBridgeTargetIntegrationResponse")
    /\ IntegrationResponse

CreateApiToEventBridgeTargetIntegrationErrorResponse ==
    /\ Calls("createApiToEventBridgeTargetIntegrationErrorResponse")
    /\ IntegrationErrorResponse

CreateApiToEventBridgeTargetIntegration ==
    /\ Calls("createApiToEventBridgeTargetIntegration")
    /\ Integrates

CreateApiToEventBridgeTargetRestApi ==
    /\ Calls("createApiToEventBridgeTargetRestApi")
    /\ IF ImportsApi THEN ImportApi(<<"rest-api">>) ELSE NewApi(<<"rest-api">>)

CreateApiToEventBridgeTargetResource ==
    /\ Calls("createApiToEventBridgeTargetResource")
    /\ AddResource(ResourceOr("notify"))

CreateApiToEventBridgeTargetResponseModel ==
    /\ Calls("createApiToEventBridgeTargetResponseModel")
    /\ Model([responseModel |-> "response"], <<"response-model">>)

CreateApiToEventBridgeTargetErrorResponseModel ==
    /\ Calls("createApiToEventBridgeTargetErrorResponseModel")
    /\ Model([errorResponseModel |-> "error"], <<"error-response-model">>)

CreateApiToEventBridgeTargetMethodResponse ==
    /\ Calls("createApiToEventBridgeTargetMethodResponse")
    /\ MethodResponseOf([methodResponse |-> Field("responseModel")])

CreateApiToEventBridgeTargetMethodErrorResponse ==
    /\ Calls("createApiToEventBridgeTargetMethodErrorResponse")
    /\ MethodResponseOf([methodErrorResponse |-> Field("errorResponseModel")])

CreateApiToEventBridgeTargetResourceMethod ==
    /\ Calls("createApiToEventBridgeTargetResourceMethod")
    /\ AddMethod

ApiToEventBridgeTargetStep ==
    \/ CreateApiToEventBridgeTargetEventBus
    \/ CreateApiToEventBridgeTargetLogGroup
    \/ CreateApiToEventBridgeTargetRule
    \/ CreateApiToEventBridgeTargetPolicy
    \/ CreateApiToEventBridgeTargetRole
    \/ CreateApiToEventBridgeTargetIntegrationRequestParameters
    \/ CreateApiToEventBridgeTargetIntegrationRequestTemplates
    \/ CreateApiToEventBridgeTargetIntegrationResponse
    \/ CreateApiToEventBridgeTargetIntegrationErrorResponse
    \/ CreateApiToEventBridgeTargetIntegration
    \/ CreateApiToEventBridgeTargetRestApi
    \/ CreateApiToEventBridgeTargetResource
    \/ CreateApiToEventBridgeTargetResponseModel
    \/ CreateApiToEventBridgeTargetErrorResponseModel
    \/ CreateApiToEventBridgeTargetMethodResponse
    \/ CreateApiToEventBridgeTargetMethodErrorResponse
    \/ CreateApiToEventBridgeTargetResourceMethod
=============================================================================
