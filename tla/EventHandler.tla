---------------------------- MODULE EventHandler ----------------------------
(***************************************************************************)
(* How an EventHandler and its subclass PipedEventHandler put a stack's    *)
(* event routing together (packages/aws/src/construct/event-handler and    *)
(* piped-event-handler): initResources runs a fixed sequence of methods    *)
(* that read what earlier ones left in `handler` and leave something for   *)
(* later ones, so that a method which reads a field before it is set gets  *)
(* nothing.  Each action is one method; Deploy is CloudFormation's.        *)
(***************************************************************************)
EXTENDS Defaults, Sequences, FiniteSets

CONSTANT PropsChoices   \* the props and subclasses a caller may build

VARIABLES
    props,      \* the construct's properties, and its subclass's functions
    todo,       \* the methods initResources has left to call
    status,     \* "synth", "synthesised", "deployed", or "failed"
    handler,    \* the fields of the Handler
    template    \* the resources created so far

synthVars == <<props, todo, status, handler, template>>
-----------------------------------------------------------------------------
(* EventHandler.initResources, and PipedEventHandler's around it.          *)
HandlerMethodsTargetsFirst ==   \* a mutant: targets collected too early
    <<"createSQSEventSource", "createEventRulePattern",
      "createEventRuleTargets", "createWorkflow", "resolveEventBus",
      "createEventArchive", "createEventRule">>

HandlerMethodsPatternLate ==    \* a mutant: the archive comes before the pattern
    <<"createSQSEventSource", "createWorkflow", "createEventRuleTargets",
      "resolveEventBus", "createEventArchive", "createEventRulePattern",
      "createEventRule">>

HandlerMethods ==
    <<"createSQSEventSource", "createWorkflow", "createEventRulePattern",
      "createEventRuleTargets", "resolveEventBus", "createEventArchive",
      "createEventRule">>

InitResourcesQueueAfter(p) ==   \* a mutant: super.initResources() comes first
    IF p.piped
      THEN HandlerMethods \o <<"createPipedQueue", "createSqsToSfnPipe",
                               "createSqsToLambdaPipe">>
      ELSE HandlerMethods

InitResources(p) ==
    IF p.piped
      THEN <<"createPipedQueue">> \o HandlerMethods
             \o <<"createSqsToSfnPipe", "createSqsToLambdaPipe">>
      ELSE HandlerMethods

(* The PipedEventHandler's constructor turns the workflow's own target on  *)
(* the rule off: its events come through the pipe.                         *)
ProvisionTargetAlways(p) == TRUE    \* a mutant
ProvisionTarget(p) == ~p.piped

(* resourceNameFormatter.format puts prefix, name, suffix and stage        *)
(* together and leaves out what is undefined: without a name it is still a *)
(* name, and neither that nor the formatted name of the default bus is the *)
(* name of a bus there is.                                                 *)
Formatted == [custom |-> "custom-stage", default |-> "default-stage"]
FormattedBus(name) == IF name = NotSet THEN "nameless" ELSE Formatted[name]
Buses == {"default", "custom-stage"}

(* A bus is called one of two names, functions are listed, and none is     *)
(* mistaken for the workflow.                                              *)
ASSUME PropsAssumption ==
    \A p \in PropsChoices :
        /\ p.piped \in BOOLEAN
        /\ p.eventBusName \in {"default", "custom", NotSet}
        /\ IsFiniteSet(p.functions) /\ "workflow" \notin p.functions

(* A property that was left out is told from one that was not.             *)
ASSUME NotSetAssumption ==
    NotSet \notin {"default", "custom", "workflow", "REQUEST_RESPONSE"}

(* What a subclass sets before it calls initResources: the functions of    *)
(* its pipes, or the functions its rule targets.                           *)
NewHandler(p) ==
    [queue |-> NotSet, rule |-> NotSet, rulePattern |-> NotSet,
     eventBus |-> NotSet, workflow |-> NotSet,
     lambdaFunctions |-> IF p.piped THEN p.functions ELSE {},
     lambdaTargets |-> IF p.piped THEN {} ELSE p.functions,
     stepFunctionTargets |-> {}, sqsTargets |-> {}, targets |-> {}]

NoResources == [queues |-> {}, policies |-> {}, rules |-> {},
                archives |-> {}, pipes |-> {}]

SynthInit ==
    /\ props \in PropsChoices
    /\ todo = InitResources(props)
    /\ status = "synth"
    /\ handler = NewHandler(props)
    /\ template = NoResources

Calls(method) ==
    /\ status = "synth" /\ todo # <<>> /\ Head(todo) = method
    /\ todo' = Tail(todo)
    /\ UNCHANGED props
-----------------------------------------------------------------------------
(* The queue's policy names handler.rule, which a later method sets.       *)
CreateSQSEventSource ==
    /\ Calls("createSQSEventSource")
    /\ IF ~props.eventSqs
         THEN UNCHANGED <<handler, template>>
         ELSE /\ handler' = [handler EXCEPT !.queue = "sqs-queue",
                                            !.sqsTargets = {"sqs-queue"}]
              /\ template' = [template EXCEPT
                    !.queues = @ \union {"sqs-queue"},
                    !.policies = @ \union
                        {[queue |-> "sqs-queue", rule |-> handler.rule]}]
    /\ UNCHANGED status

CreateWorkflow ==
    /\ Calls("createWorkflow")
    /\ handler' =
         IF ~props.workflow THEN handler
         ELSE [handler EXCEPT
                 !.workflow = "workflow",
                 !.stepFunctionTargets =
                    IF ProvisionTarget(props) THEN {"workflow"} ELSE @]
    /\ UNCHANGED <<status, template>>

CreateEventRulePattern ==
    /\ Calls("createEventRulePattern")
    /\ handler' = IF props.eventRule = NotSet THEN handler
                  ELSE [handler EXCEPT !.rulePattern = props.eventRule.pattern]
    /\ UNCHANGED <<status, template>>

Targets == handler.stepFunctionTargets \union handler.lambdaTargets
             \union handler.sqsTargets

CreateEventRuleTargets ==
    /\ Calls("createEventRuleTargets")
    /\ handler' = [handler EXCEPT !.targets = Targets]
    /\ UNCHANGED <<status, template>>

ResolveEventBus ==
    /\ Calls("resolveEventBus")
    /\ handler' = [handler EXCEPT !.eventBus = FormattedBus(props.eventBusName)]
    /\ UNCHANGED <<status, template>>

(* A rule-less or scheduled handler archives nothing.                      *)
Archives(p) ==
    /\ p.eventRule # NotSet /\ p.eventRuleArchiveEnabled
    /\ p.eventRule.schedule = NotSet /\ p.eventRuleSchedule = NotSet

CreateEventArchive ==
    /\ Calls("createEventArchive")
    /\ template' =
         IF ~Archives(props) THEN template
         ELSE [template EXCEPT !.archives = @ \union
                 {[pattern |-> handler.rulePattern, bus |-> handler.eventBus]}]
    /\ UNCHANGED <<status, handler>>

RuleOfWithItsSchedule(p) ==     \* a mutant: falls back on eventRule's schedule
    [pattern |-> handler.rulePattern,
     schedule |-> Coalesce(p.eventRuleSchedule, p.eventRule.schedule),
     bus |-> IF p.eventBusName = NotSet THEN "default" ELSE handler.eventBus,
     targets |-> handler.targets]

(* The rule handler.rule becomes: the pattern collected earlier, and       *)
(* eventRuleSchedule in place of any schedule of eventRule.                *)
RuleOf(p) ==
    [pattern |-> handler.rulePattern, schedule |-> p.eventRuleSchedule,
     bus |-> IF p.eventBusName = NotSet THEN "default" ELSE handler.eventBus,
     targets |-> handler.targets]

(* A Rule on a bus given to it throws when it has a schedule.              *)
RuleThrows(p) == p.eventRuleSchedule # NotSet /\ p.eventBusName # NotSet

CreateEventRule ==
    /\ Calls("createEventRule")
    /\ IF props.eventRule = NotSet
         THEN UNCHANGED <<status, handler, template>>
       ELSE IF RuleThrows(props)
         THEN status' = "failed" /\ UNCHANGED <<handler, template>>
       ELSE /\ handler' = [handler EXCEPT !.rule = "rule"]
            /\ template' = [template EXCEPT !.rules = @ \union {RuleOf(props)}]
            /\ UNCHANGED status
-----------------------------------------------------------------------------
(* The piped handler's queue and its dead letter queue, and the queue as   *)
(* the rule's target, before the inherited methods run.                    *)
CreatePipedQueue ==
    /\ Calls("createPipedQueue")
    /\ template' = [template EXCEPT !.queues = @ \union {"pipe-queue",
                                                         "pipe-queue-dlq"}]
    /\ handler' = [handler EXCEPT !.sqsTargets = {"pipe-queue"}]
    /\ UNCHANGED status

(* A pipe's source and target, and what its properties say: whether it     *)
(* waits for its target to be done with a batch, what it forwards and how  *)
(* many messages it takes at a time.                                       *)
Pipe(name, target, waits, p) ==
    [name |-> name, source |-> "pipe-queue", target |-> target,
     waits |-> waits, filter |-> p.pipeFilterPattern,
     batchSize |-> p.sqsBatchSize]

InvocationTypeFixed(p) == "FIRE_AND_FORGET"     \* a mutant
InvocationType(p) == Coalesce(p.sfnInvocationType, "FIRE_AND_FORGET")

SfnPipe(p) ==
    Pipe("sfn-pipe", "workflow", InvocationType(p) = "REQUEST_RESPONSE", p)

LambdaPipe(p, f) == Pipe("lambda-pipe", f, TRUE, p)

(* A mutant: the workflow's pipe is guarded like the functions' pipes.     *)
HasSfnPipeWithFunctions ==
    props.sqsToSfnPipe # NotSet /\ handler.lambdaFunctions # {}

HasSfnPipe == props.sqsToSfnPipe # NotSet /\ handler.workflow # NotSet

CreateSqsToSfnPipe ==
    /\ Calls("createSqsToSfnPipe")
    /\ template' =
         IF ~HasSfnPipe THEN template
         ELSE [template EXCEPT !.pipes = @ \union {SfnPipe(props.sqsToSfnPipe)}]
    /\ UNCHANGED <<status, handler>>

(* Every function gets a pipe, under the one name the properties have.     *)
CreateSqsToLambdaPipe ==
    /\ Calls("createSqsToLambdaPipe")
    /\ template' =
         IF props.sqsToLambdaPipe = NotSet THEN template
         ELSE [template EXCEPT !.pipes = @ \union
                 {LambdaPipe(props.sqsToLambdaPipe, f) : f \in handler.lambdaFunctions}]
    /\ UNCHANGED <<status, handler>>
-----------------------------------------------------------------------------
(* The app does not synthesise with a rule that has neither a pattern nor  *)
(* a schedule.                                                             *)
Synthesise ==
    /\ status = "synth" /\ todo = <<>>
    /\ status' = IF \E r \in template.rules :
                       r.pattern = NotSet /\ r.schedule = NotSet
                    THEN "failed" ELSE "synthesised"
    /\ UNCHANGED <<props, todo, handler, template>>

(* CloudFormation creates what was synthesised unless two pipes have one   *)
(* name or a rule or an archive is of a bus there is not.                  *)
Deployable ==
    /\ \A p, q \in template.pipes : p.name = q.name => p = q
    /\ \A r \in template.rules : r.bus \in Buses
    /\ \A a \in template.archives : a.bus \in Buses

Deploy ==
    /\ status = "synthesised"
    /\ status' = IF Deployable THEN "deployed" ELSE "failed"
    /\ UNCHANGED <<props, todo, handler, template>>

SynthNext ==
    \/ CreatePipedQueue
    \/ CreateSQSEventSource
    \/ CreateWorkflow
    \/ CreateEventRulePattern
    \/ CreateEventRuleTargets
    \/ ResolveEventBus
    \/ CreateEventArchive
    \/ CreateEventRule
    \/ CreateSqsToSfnPipe
    \/ CreateSqsToLambdaPipe
    \/ Synthesise
    \/ Deploy

SynthSpec == SynthInit /\ [][SynthNext]_synthVars
-----------------------------------------------------------------------------
Finished == status \in {"synthesised", "deployed"}

(* The rule that goes into the template has every target the handler ends  *)
(* up with: no method sets one after the targets were collected.           *)
RuleHasEveryTarget ==
    Finished => \A r \in template.rules : r.targets = Targets

(* An archive that was deployed records what the rule matches: it has the  *)
(* pattern and the bus of a rule, one that is not scheduled.               *)
ArchiveRecordsTheRule ==
    status = "deployed" =>
        \A a \in template.archives : \E r \in template.rules :
            r.pattern = a.pattern /\ r.bus = a.bus /\ r.schedule = NotSet

(* The rule and the pipe never both start the workflow, which would run it *)
(* twice for an event.                                                     *)
OneRouteToTheWorkflow ==
    Finished =>
        ~ /\ \E r \in template.rules : "workflow" \in r.targets
          /\ \E p \in template.pipes : p.target = "workflow"

(* Which handlers never get deployed, read off their properties alone: a   *)
(* rule with a schedule on a bus of its own or with neither schedule nor   *)
(* pattern (eventRule's own schedule does not count), the default bus by   *)
(* its name, an archive without a bus name, or pipes for several functions. *)
NeverDeployed(p) ==
    \/ /\ p.eventRule # NotSet
       /\ \/ p.eventBusName = "default"
          \/ p.eventRuleSchedule # NotSet /\ p.eventBusName # NotSet
          \/ p.eventRuleSchedule = NotSet /\ p.eventRule.pattern = NotSet
          \/ /\ p.eventRuleArchiveEnabled /\ p.eventBusName = NotSet
             /\ {p.eventRuleSchedule, p.eventRule.schedule} = {NotSet}
    \/ /\ p.piped /\ p.sqsToLambdaPipe # NotSet
       /\ Cardinality(p.functions) > 1

DeployedUnlessItsPropsForbid ==
    /\ status = "deployed" => ~NeverDeployed(props)
    /\ status = "failed" => NeverDeployed(props)

(* The rule of a piped handler feeds the queue its pipes poll, unless it   *)
(* has an event queue too: the method that creates that one, inherited and *)
(* called later, replaces the targets, and the pipes wait for ever         *)
(* ("The SQS queue used as the event pipe source").                        *)
PipesAreFedUnlessReplaced ==
    Finished /\ props.piped =>
        \A r \in template.rules : "pipe-queue" \in r.targets <=> ~props.eventSqs

(* Whatever a handler provisions for its events is reached by them, and by *)
(* one way: across the methods of both classes, however the later ones     *)
(* overwrite what the earlier ones left in the handler.                    *)
EventsTakeOneRoute ==
    RuleHasEveryTarget /\ OneRouteToTheWorkflow /\ PipesAreFedUnlessReplaced
=============================================================================
