----------------------------- MODULE AwsManagers -----------------------------
(***************************************************************************)
(* The AWS service managers, as far as the constructs of the API, Lambda   *)
(* and configuration families use them.  A manager creates children of the *)
(* construct under the id it is given, new ones or imports of what exists; *)
(* the outputs next to them are left out.                                  *)
(***************************************************************************)
EXTENDS Synthesis

When(condition, resources) == IF condition THEN resources ELSE {}

Child(id, reads) == {Resource(id, reads)}
Suffixed(id, suffix, reads) == Child(Append(id, suffix), reads)

(* Names get the affixes of the stack and its stage.                       *)
Format(name) == props.prefix \o name \o props.suffix \o <<props.stage>>

LogGroup(id, reads) == Child(id, reads)

(* CDK does not create a bus that would be the default one.                *)
EventBusThrows(name) == name = <<"default">>
EventBus(id) == Child(id, {})
Rule(id, reads) == Child(id, reads)

HostedZone(id) == Child(id, {})
ApiGatewayARecord(id, reads) == Child(id, reads)

(* A certificate is imported by its ARN, which is put together from its id *)
(* if the props have none, or created.                                     *)
ResolvedCertificate(arn) ==
    IF ~props.useExistingCertificate THEN "created"
    ELSE IF arn # NotSet THEN arn ELSE "byId"

ParameterReader(id) == Child(id, {})
StringParameter(id, reads) == Child(id, reads)

LambdaNotificationService(id, reads) == Child(id, reads)

RoleForLambdaResources(id, reads) ==
    Child(id, reads) \union Suffixed(id, "AWSLambdaBasicExecutionRole", {})

LambdaLayer(id) == Child(id, {})

LambdaRestApiThrows == ~props.restApiName
LambdaRestApi(id, reads) ==
    Child(id, reads) \union Suffixed(id, "rest-api-access-log", {})

ApiDomain(id, reads) == Child(id, reads)

(* A resource below another; only a proxying API refuses to have it.       *)
ApiResource(id, reads) == Child(id, reads)

CommonVpc(id) == Child(id, {})
ReplicatedElastiCache(id, reads) ==
    Child(id, reads) \union Suffixed(id, "subnetGroup", reads)

Secret(id, reads) == Child(id, reads)
-----------------------------------------------------------------------------
(* Lambda functions: the function with its log group, and its aliases.     *)
LambdaFunctionThrows == ~props.functionName

AliasIdOfItsName(id, alias) == Append(id, alias.name)   \* a mutant

AliasId(id, alias) ==
    IF alias.id # NotSet THEN <<alias.id>> ELSE Append(id, alias.name)

LambdaFunctionAlias(id, alias) == Child(AliasId(id, alias), {})

(* Capacity kept for the version itself scales by a target of its own.     *)
OnVersion(alias) == alias.capacity # NotSet /\ alias.onVersion
ProvisionedConcurrencyTarget(id, alias) ==
    When(OnVersion(alias),
         Child(AliasId(id, alias) \o <<"pc", "target">>, {}))

AliasResources(id, alias) ==
    LambdaFunctionAlias(id, alias)
      \union ProvisionedConcurrencyTarget(id, alias)

(* Two aliases under one id are one too many.                              *)
AliasesClash(id) ==
    \E i, j \in DOMAIN props.aliases :
        i # j /\ AliasId(id, props.aliases[i]) = AliasId(id, props.aliases[j])

LambdaFunction(id, reads) ==
    Child(id, reads) \union Suffixed(id, "log-group", {})
      \union UNION {AliasResources(id, props.aliases[i]) :
                      i \in DOMAIN props.aliases}

OnVersionOf(aliases) == {i \in DOMAIN aliases : OnVersion(aliases[i])}

CapacityOfTheFirst(aliases) ==      \* a mutant: the version is set up once
    LET on == OnVersionOf(aliases)
    IN IF on = {} THEN 0
       ELSE aliases[CHOOSE i \in on : \A j \in on : i =< j].capacity.min

(* All aliases are of the current version: the last one with capacity on   *)
(* the version sets what that starts with.                                 *)
VersionCapacity(aliases) ==
    LET on == OnVersionOf(aliases)
    IN IF on = {} THEN 0
       ELSE aliases[CHOOSE i \in on : \A j \in on : j =< i].capacity.min
-----------------------------------------------------------------------------
(* IamManager: the statements, policies and roles of the package.  A       *)
(* statement allows actions on resources, a policy is a set of statements, *)
(* a role is who may assume it with the statements of its policies.  The   *)
(* arguments stand for what an ARN names: a resource of the caller's, or   *)
(* Any.  Left out are the statements and roles that no code of the package *)
(* uses but offers to those who build on it.                               *)
Any == <<"*">>

Allow(actions, resources) == [actions |-> actions, on |-> resources]

Allows(statements, action, resource) ==
    \E s \in statements : action \in s.actions /\ s.on \cap {resource, Any} # {}
-----------------------------------------------------------------------------
StatementForPutEvents(on) == Allow({"events:PutEvents"}, on)
StatementForStartExecution(on) == Allow({"states:StartExecution"}, on)
StatementForPollQueue(on) ==
    Allow({"sqs:ReceiveMessage", "sqs:DeleteMessage", "sqs:GetQueueAttributes"}, on)
StatementForInvokeLambda(on) == Allow({"lambda:InvokeFunction"}, on)
StatementForReadAnyAppConfig(on) ==
    Allow({"ssm:GetDocument", "ssm:ListDocuments"} \union
          {"appconfig:ListApplications", "appconfig:GetApplication",
           "appconfig:ListEnvironments", "appconfig:GetEnvironment",
           "appconfig:ListConfigurationProfiles",
           "appconfig:GetConfigurationProfile",
           "appconfig:ListDeploymentStrategies",
           "appconfig:GetDeploymentStrategy", "appconfig:GetConfiguration",
           "appconfig:ListDeployments"}, on)
StatementForAppConfigExecution(on) ==
    Allow({"appconfig:GetLatestConfiguration",
           "appconfig:StartConfigurationSession"}, on)
StatementForPutXrayTelemetry(on) ==
    Allow({"xray:PutTraceSegments", "xray:PutTelemetryRecords"}, on)
StatementForCloudfrontInvalidation(on) ==
    Allow({"cloudfront:GetInvalidation", "cloudfront:CreateInvalidation"}, on)
StatementForWriteEfs(on) == Allow({"elasticfilesystem:*"}, on)
StatementForCreateAnyLogStream(on) == Allow({"logs:CreateLogStream"}, on)
StatementForPutAnyLogEvent(on) == Allow({"logs:PutLogEvents"}, on)
StatementForDynamoDbStream(on) ==
    Allow({"dynamodb:DescribeStream", "dynamodb:GetRecords",
           "dynamodb:GetShardIterator", "dynamodb:ListStreams"}, on)
-----------------------------------------------------------------------------
(* A role: who may assume it, its inline policy, its managed policies.     *)
NewRole(service, statements, managed) ==
    [service |-> service, statements |-> statements, managed |-> managed]

BasicExecution == {"AWSLambdaBasicExecutionRole"}
VpcAccess == {"AWSLambdaVPCAccessExecutionRole"}

(* What a build needs to fetch its image and run.                          *)
CreatePolicyForCloudfrontInvalidation(distributions, logs) ==
    {StatementForCreateAnyLogStream(logs), StatementForPutAnyLogEvent(logs),
     StatementForCloudfrontInvalidation(distributions),
     Allow({"ecr:GetDownloadUrlForLayer", "ecr:BatchGetImage",
            "ecr:BatchCheckLayerAvailability",
            "ecr:GetAuthorizationToken"}, {Any})}

RoleForCloudfrontInvalidation(distributions, logs) ==
    NewRole("codebuild",
            CreatePolicyForCloudfrontInvalidation(distributions, logs), {})

(* The streams of a trail are named for the region of the trail.  The      *)
(* statements name those of one region, whatever the stack's is.           *)
TrailStreams(region) == <<"trail streams", region>>

StatementForCreateLogStream ==
    Allow({"logs:CreateLogStream"}, {TrailStreams("eu-west-1")})
StatementForPutLogEvent ==
    Allow({"logs:PutLogEvents"}, {TrailStreams("eu-west-1")})

RoleForCloudTrail ==
    NewRole("cloudtrail",
            {StatementForCreateLogStream, StatementForPutLogEvent}, {})

RoleForEcsExecution(policy) ==
    NewRole("ecs-tasks", policy, {"AmazonECSTaskExecutionRolePolicy"})
RoleForLambda(policy) == NewRole("lambda", policy, BasicExecution)

RoleForSqsToSfnPipe(queue, machine) ==
    NewRole("pipes", {StatementForPollQueue({queue}),
                      StatementForStartExecution({machine})}, {})
RoleForSqsToLambdaPipe(queue, function) ==
    NewRole("pipes", {StatementForPollQueue({queue}),
                      StatementForInvokeLambda({function})}, {})
RoleForDynamoDbToLambdaPipe(stream, function) ==
    NewRole("pipes", {StatementForDynamoDbStream({stream}),
                      StatementForInvokeLambda({function})}, {})
-----------------------------------------------------------------------------
(* Services that act by themselves once deployed, under a role that their  *)
(* manager creates for them: the pipes of EventManager, the trail of       *)
(* CloudTrailManager and the build of CodeBuildManager.  A stack creates   *)
(* each with one call, given what it works on.                             *)
ServiceMethods(service) == <<service>>
ServiceFields == {"actsAs", "work"}

Queue == <<"queue">>
Machine == <<"machine">>
Function == <<"function">>
Stream == <<"stream">>
Distribution == <<"distribution">>
ProjectLogs == <<"project-log-group">>

(* A service has its role and operations that it performs on resources.    *)
Acts(resources, role, work) ==
    IF ~props.name THEN Throws
    ELSE Creates({}, resources \union Child(<<"role">>, {}),
                 [actsAs |-> role, work |-> work])

On(resource, actions) == {<<a, resource>> : a \in actions}

PollsQueue == On(Queue, {"sqs:ReceiveMessage", "sqs:DeleteMessage",
                         "sqs:GetQueueAttributes"})

CreateSqsToSfnCfnPipe ==
    /\ Calls("createSqsToSfnCfnPipe")
    /\ Acts(Child(<<"pipe">>, {}), RoleForSqsToSfnPipe(Queue, Machine),
            PollsQueue \union On(Machine, {"states:StartExecution"}))

CreateSqsToLambdaCfnPipe ==
    /\ Calls("createSqsToLambdaCfnPipe")
    /\ Acts(Child(<<"pipe">>, {}), RoleForSqsToLambdaPipe(Queue, Function),
            PollsQueue \union On(Function, {"lambda:InvokeFunction"}))

ReadsStream ==
    On(Stream, {"dynamodb:DescribeStream", "dynamodb:GetRecords",
                "dynamodb:GetShardIterator", "dynamodb:ListStreams"})

CreateDynamoDbToLambdaCfnPipe ==
    /\ Calls("createDynamoDbToLambdaCfnPipe")
    /\ Acts(Child(<<"pipe">>, {}), RoleForDynamoDbToLambdaPipe(Stream, Function),
            ReadsStream \union On(Function, {"lambda:InvokeFunction"}))

(* A trail writes to streams that carry the name of its region.            *)
CreateCloudTrail ==
    /\ Calls("createCloudTrail")
    /\ Acts(Child(<<"trail">>, {}), RoleForCloudTrail,
            On(TrailStreams(props.region),
               {"logs:CreateLogStream", "logs:PutLogEvents"}))

(* The build asks the distribution to invalidate its cache, and logs.      *)
CreateProjectForCloudfrontInvalidation ==
    /\ Calls("createProjectForCloudfrontInvalidation")
    /\ Acts(Child(<<"install-deps-project">>, {})
              \union LogGroup(ProjectLogs, {}),
            RoleForCloudfrontInvalidation({Distribution}, {ProjectLogs}),
            On(Distribution, {"cloudfront:CreateInvalidation"})
              \union On(ProjectLogs, {"logs:CreateLogStream",
                                      "logs:PutLogEvents"}))

ServiceStep ==
    \/ CreateSqsToSfnCfnPipe \/ CreateSqsToLambdaCfnPipe
    \/ CreateDynamoDbToLambdaCfnPipe \/ CreateCloudTrail
    \/ CreateProjectForCloudfrontInvalidation
=============================================================================
