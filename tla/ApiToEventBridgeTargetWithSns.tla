-------------------- MODULE ApiToEventBridgeTargetWithSns --------------------
(***************************************************************************)
(* ApiToEventBridgeTargetWithSns (packages/aws/src/construct/api-to-event- *)
(* bridge-target-with-sns): the API publishes to a topic, a function takes *)
(* the messages, and its successes and failures are events on a bus that a *)
(* rule each logs.                                                         *)
(***************************************************************************)
EXTENDS ApiTargets

WithSnsMethods ==
    <<"resolveSecrets", "resolveHostedZone", "resolveCertificate",
      "createApiDestinedEventBus", "createApiDestinedLambdaPolicy",
      "createApiDestinedLambdaRole", "createApiDestinedLambdaEnvironment",
      "createApiDestinedLambdaLayers", "createApiDestinedLambdaDestinations",
      "createApiDestinedLambdaFunction",
      "createApiDestinationLogGroupSuccess", "createApiDestinationRuleSuccess",
      "createApiDestinationLogGroupFailure", "createApiDestinationRuleFailure",
      "createApiDestinedTopicRole", "createApiDestinedTopic",
      "createApiDestinedIntegrationRequestParameters",
      "createApiDestinedIntegrationRequestTemplates",
      "createApiDestinedIntegrationResponse",
      "createApiDestinedIntegrationErrorResponse",
      "createApiDestinedIntegration", "createApiDestinedRestApi",
      "createApiDestinedResource", "createApiDestinedResponseModel",
      "createApiDestinedErrorResponseModel", "createApiDestinedMethodResponse",
      "createApiDestinedMethodErrorResponse",
      "createApiDestinedResourceMethod", "createApiDomain",
      "createApiBasePathMapping", "createApiRouteAssets">>

WithSnsFields ==
    EventApiFields \union
    {"lambdaPolicy", "lambdaRole", "environment", "layers",
     "destinationSuccess", "destinationFailure", "function",
     "logGroupSuccess", "ruleSuccess", "logGroupFailure", "ruleFailure",
     "topic"}
-----------------------------------------------------------------------------
(* The name becomes part of a string, "undefined" if the props have none.  *)
DestinedBusName ==
    IF props.eventBusName = NotSet THEN <<"undefined">> ELSE props.eventBusName

(* An existing bus is looked for without the affixes of the stack.         *)
ExistingDestinedBus == DestinedBusName \o <<props.stage>>

CreateApiDestinedEventBus ==
    /\ Calls("createApiDestinedEventBus")
    /\ IF props.useExisting
         THEN Creates({}, EventBus(<<"destined-event-bus">>),
                      [eventBus |-> ExistingDestinedBus])
       ELSE IF EventBusThrows(DestinedBusName) THEN Throws
       ELSE Creates({}, EventBus(<<"destined-event-bus">>),
                    [eventBus |-> Format(DestinedBusName)])

CreateApiDestinedLambdaPolicy ==
    /\ Calls("createApiDestinedLambdaPolicy")
    /\ IfOwned(
         Sets([lambdaPolicy |-> {StatementForPutEvents({Field("eventBus")})}]))

CreateApiDestinedLambdaRole ==
    /\ Calls("createApiDestinedLambdaRole")
    /\ IfOwned(Creates({"lambdaPolicy"},
                 RoleForLambdaResources(<<"lambda-destined-role">>,
                                        {"lambdaPolicy"}),
                 [lambdaRole |-> RoleForLambda(Field("lambdaPolicy"))]))

(* The function tells its source by the id of the construct.               *)
CreateApiDestinedLambdaEnvironment ==
    /\ Calls("createApiDestinedLambdaEnvironment")
    /\ IfOwned(Sets([environment |-> [sourceId |-> this.id]]))

CreateApiDestinedLambdaLayers ==
    /\ Calls("createApiDestinedLambdaLayers")
    /\ IfOwned(Creates({},
                 When(props.lambdaLayer, LambdaLayer(<<"lambda-destined-layer">>)),
                 [layers |-> props.lambdaLayer]))

CreateApiDestinedLambdaDestinations ==
    /\ Calls("createApiDestinedLambdaDestinations")
    /\ IfOwned(IF ~IsSet("eventBus") THEN Throws
               ELSE Sets([destinationSuccess |-> Field("eventBus"),
                          destinationFailure |-> Field("eventBus")]))

CreateApiDestinedLambdaFunction ==
    /\ Calls("createApiDestinedLambdaFunction")
    /\ IfOwned(
         IF ~props.lambdaSource \/ LambdaFunctionThrows
              \/ AliasesClash(<<"lambda-destined">>)
           THEN Throws
         ELSE Creates({},
                LambdaFunction(<<"lambda-destined">>,
                   {"lambdaRole", "layers", "environment",
                    "destinationSuccess", "destinationFailure"}),
                [function |-> "created"]))

CreateApiDestinationLogGroupSuccess ==
    /\ Calls("createApiDestinationLogGroupSuccess")
    /\ IfOwned(Creates({}, LogGroup(<<"destination-success-log">>, {}),
                       [logGroupSuccess |-> "created"]))

OwnValuesFirst(rule) == [pattern |-> this.id, name |-> this.id]
                                \* a mutant: the defaults last

(* Pattern and name are stored in the shared props as one would set them,  *)
(* so that the rule of the next construct gets the first one's.            *)
Merged(rule) ==
    [pattern |-> IF rule.pattern = NotSet THEN this.id ELSE rule.pattern,
     name |-> IF rule.name = NotSet THEN this.id ELSE rule.name]

RuleSuccessProps == Merged(props.ruleSuccess)
RuleFailureProps ==
    [Merged(props.ruleFailure) EXCEPT
       !.pattern = IF props.ruleFailure.pattern = NotSet THEN "errors" ELSE @]

CreateApiDestinationRuleSuccess ==
    /\ Calls("createApiDestinationRuleSuccess")
    /\ IfOwned(
         LET rule == RuleSuccessProps
         IN /\ props' = [props EXCEPT !.ruleSuccess = rule]
            /\ Builds({"eventBus", "logGroupSuccess"},
                      Rule(<<"api-destination-rule-success">>,
                           {"eventBus", "logGroupSuccess"}),
                      [ruleSuccess |-> rule]))

CreateApiDestinationLogGroupFailure ==
    /\ Calls("createApiDestinationLogGroupFailure")
    /\ IfOwned(Creates({}, LogGroup(<<"destination-failure-log">>, {}),
                       [logGroupFailure |-> "created"]))

CreateApiDestinationRuleFailure ==
    /\ Calls("createApiDestinationRuleFailure")
    /\ IfOwned(
         LET rule == RuleFailureProps
         IN /\ props' = [props EXCEPT !.ruleFailure = rule]
            /\ Builds({"eventBus", "logGroupFailure"},
                      Rule(<<"api-destination-rule-failure">>,
                           {"eventBus", "logGroupFailure"}),
                      [ruleFailure |-> rule]))
-----------------------------------------------------------------------------
CreateApiDestinedTopicRole ==
    /\ Calls("createApiDestinedTopicRole")
    /\ Creates({}, Child(<<"sns-rest-api-role">>, {}),
               [role |-> NewRole("apigateway", {}, {})])

(* The name is formatted here and again by the manager.                    *)
TopicName == Format(Format(<<this.id, "destined-topic">>))

NoGrant(topic) == Field("role")     \* a mutant: the grant is forgotten

GrantPublish(topic) ==
    [Field("role") EXCEPT !.statements =
        @ \union {Allow({"sns:Publish"}, {topic})}]

(* Only the owner has the function that subscribes.                        *)
CreateApiDestinedTopic ==
    /\ Calls("createApiDestinedTopic")
    /\ IfWithResource(
         Creates({"function", "role"},
                 LambdaNotificationService(<<"destined-topic">>, {"function"}),
                 [topic |-> TopicName, role |-> GrantPublish(TopicName)]))

CreateApiDestinedIntegrationRequestParameters ==
    /\ Calls("createApiDestinedIntegrationRequestParameters")
    /\ RequestParameters

CreateApiDestinedIntegrationRequestTemplates ==
    /\ Calls("createApiDestinedIntegrationRequestTemplates")
    /\ IfWithResource(
         IF ~IsSet("topic") THEN Throws
         ELSE Sets([integrationRequestTemplates |->
                      [action |-> "sns:Publish", to |-> Field("topic")]]))

CreateApiDestinedIntegrationResponse ==
    /\ Calls("createApiDestinedIntegrationResponse")
    /\ IntegrationResponse

CreateApiDestinedIntegrationErrorResponse ==
    /\ Calls("createApiDestinedIntegrationErrorResponse")
    /\ IntegrationErrorResponse

CreateApiDestinedIntegration ==
    /\ Calls("createApiDestinedIntegration")
    /\ Integrates

CreateApiDestinedRestApi ==
    /\ Calls("createApiDestinedRestApi")
    /\ IF ImportsApi THEN ImportApi(<<"sns-rest-api">>)
       ELSE NewApi(<<"sns-rest-api">>)

CreateApiDestinedResource ==
    Calls("createApiDestinedResource") /\ AddResource(ResourceOr("notify"))

CreateApiDestinedResponseModel ==
    /\ Calls("createApiDestinedResponseModel")
    /\ Model([responseModel |-> "response"], <<"response-model">>)

CreateApiDestinedErrorResponseModel ==
    /\ Calls("createApiDestinedErrorResponseModel")
    /\ Model([errorResponseModel |-> "error"], <<"error-response-model">>)

CreateApiDestinedMethodResponse ==
    /\ Calls("createApiDestinedMethodResponse")
    /\ MethodResponseOf([methodResponse |-> Field("responseModel")])

CreateApiDestinedMethodErrorResponse ==
    /\ Calls("createApiDestinedMethodErrorResponse")
    /\ MethodResponseOf([methodErrorResponse |-> Field("errorResponseModel")])

CreateApiDestinedResourceMethod ==
    Calls("createApiDestinedResourceMethod") /\ AddMethod

WithSnsStep ==
    \/ CreateApiDestinedEventBus \/ CreateApiDestinedLambdaPolicy
    \/ CreateApiDestinedLambdaRole \/ CreateApiDestinedLambdaEnvironment
    \/ CreateApiDestinedLambdaLayers \/ CreateApiDestinedLambdaDestinations
    \/ CreateApiDestinedLambdaFunction
    \/ CreateApiDestinationLogGroupSuccess \/ CreateApiDestinationRuleSuccess
    \/ CreateApiDestinationLogGroupFailure \/ CreateApiDestinationRuleFailure
    \/ CreateApiDestinedTopicRole \/ CreateApiDestinedTopic
    \/ CreateApiDestinedIntegrationRequestParameters
    \/ CreateApiDestinedIntegrationRequestTemplates
    \/ CreateApiDestinedIntegrationResponse
    \/ CreateApiDestinedIntegrationErrorResponse
    \/ CreateApiDestinedIntegration \/ CreateApiDestinedRestApi
    \/ CreateApiDestinedResource \/ CreateApiDestinedResponseModel
    \/ CreateApiDestinedErrorResponseModel \/ CreateApiDestinedMethodResponse
    \/ CreateApiDestinedMethodErrorResponse \/ CreateApiDestinedResourceMethod
=============================================================================
