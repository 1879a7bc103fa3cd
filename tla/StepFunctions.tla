---------------------------- MODULE StepFunctions ----------------------------
(***************************************************************************)
(* The Step Functions manager: the steps it builds for a state machine,    *)
(* with their retries, and the executions of the machine once deployed.    *)
(*                                                                         *)
(* A machine goes through its steps in the order in which they were built. *)
(* Calls take no time here, only the delays of retries and waits do: an    *)
(* execution has waited at least as long as this module says.              *)
(***************************************************************************)
EXTENDS Naturals, Sequences, FiniteSets, Defaults

CONSTANTS
    Plans,        \* what a construct asks of the manager, and the executions
                  \* there are to be: [calls, machine, executions]
    Executions,   \* executions of the machine
    Inputs        \* what they may be started with

(* Every call of a plan, and what may be asked: numbers of seconds (CDK     *)
(* throws on negative ones) and a list of retries, if any.                 *)
AllCalls == UNION {{p.calls[i] : i \in DOMAIN p.calls} : p \in Plans}

IsRetryList(retries) ==
    /\ retries \in Seq({retries[i] : i \in DOMAIN retries})
    /\ \A i \in DOMAIN retries :
         {retries[i].intervalInSecs, retries[i].interval} \subseteq Nat \cup {NotSet}

MayBeAsked(props) ==
    /\ props.retries = NotSet \/ IsRetryList(props.retries)
    /\ props.delayInSeconds \in Nat

ASSUME NotSetAssumption == NotSet \notin Nat
ASSUME PlansAssumption ==
    /\ \A p \in Plans : "calls" \in DOMAIN p /\ p.calls \in Seq(AllCalls)
    /\ \A c \in AllCalls : c.props # NotSet => MayBeAsked(c.props)

VARIABLES
    plan,         \* the calls that are left and the props of the machine
    steps,        \* the states built so far
    phase,        \* how far machine and deployment have come
    runs,         \* the state of each execution
    children      \* the executions of another machine they have started

vars == <<plan, steps, phase, runs, children>>

Errors == {"service", "task", "exists"}   \* "States.ALL" is all of them
NoChild == <<>>
NewRun == [status |-> "none", input |-> NotSet, at |-> 1, calls |-> 0,
           used |-> <<>>, waited |-> 0, error |-> NotSet, child |-> NoChild]

Init ==
    /\ plan \in Plans
    /\ steps = <<>> /\ phase = "building"
    /\ runs = [e \in Executions |-> NewRun]
    /\ children = {}
-----------------------------------------------------------------------------
(* Retries *)

DefaultRetryConfigOfThreeSecs ==      \* a mutant
    <<[errors |-> Errors, intervalInSecs |-> 3, interval |-> NotSet,
       maxAttempts |-> 6]>>

DefaultRetryConfig ==
    <<[errors |-> Errors, intervalInSecs |-> 30, interval |-> NotSet,
       maxAttempts |-> 6]>>

(* Step Functions' own defaults of a retrier.                              *)
IntervalSeconds(interval) == Coalesce(interval, 1)
MaxAttempts(attempts) == Coalesce(attempts, 3)

Interval(retry) ==
    Truthy(retry.intervalInSecs, IntervalSeconds(retry.interval))

AddRetry(retry) ==
    [errors |-> retry.errors, interval |-> Interval(retry),
     attempts |-> MaxAttempts(retry.maxAttempts)]

RetriesIfGiven(retries) ==      \* a mutant: an empty list is no retry
    IF retries = NotSet THEN DefaultRetryConfig ELSE retries

Retries(retries) ==
    IF retries = NotSet \/ retries = <<>> THEN DefaultRetryConfig ELSE retries

AddRetries(retries) ==
    [i \in DOMAIN Retries(retries) |-> AddRetry(Retries(retries)[i])]

(* What LambdaInvoke adds before any other.                                *)
RetryOnServiceExceptions ==
    <<[errors |-> {"service"}, interval |-> 2, attempts |-> 6]>>
-----------------------------------------------------------------------------
(* Building.  A construct has no two children of one id.                   *)

call == Head(plan.calls)
Calls(method) ==
    phase = "building" /\ plan.calls # <<>> /\ call.method = method

Throws == phase' = "thrown" /\ UNCHANGED <<plan, steps, runs, children>>

Step(id, kind, retriers) ==
    [id |-> id, kind |-> kind, retriers |-> retriers, props |-> call.props]

New(id, kind, retriers) ==
    IF \E i \in DOMAIN steps : steps[i].id = id THEN Throws
    ELSE /\ steps' = Append(steps, Step(id, kind, retriers))
         /\ plan' = [plan EXCEPT !.calls = Tail(@)]
         /\ UNCHANGED <<phase, runs, children>>

(* Most methods check that there are props, and name the state for them.   *)
NewNamed(kind, retriers) ==
    IF call.props = NotSet THEN Throws
    ELSE New(call.props.name, kind, retriers)

NewTask(kind) ==
    IF call.props = NotSet THEN Throws
    ELSE New(call.props.name, kind, AddRetries(call.props.retries))

NewLambdaInvoke ==
    IF call.props = NotSet THEN Throws
    ELSE New(call.props.name, "lambda",
             RetryOnServiceExceptions \o AddRetries(call.props.retries))

CreateSuccessStep == Calls("createSuccessStep") /\ NewNamed("succeed", <<>>)
CreateFailStep == Calls("createFailStep") /\ NewNamed("fail", <<>>)
CreatePassStep == Calls("createPassStep") /\ NewNamed("pass", <<>>)
CreateChoiceStep == Calls("createChoiceStep") /\ NewNamed("choice", <<>>)

(* The name is read of props that nobody checked: the same throw.          *)
CreateWaitStep == Calls("createWaitStep") /\ NewNamed("wait", <<>>)

(* The retries of a parallel step are in its props and go no further.      *)
CreateParallelStep == Calls("createParallelStep") /\ NewNamed("parallel", <<>>)

CreateDynamoDbGetItemStep ==
    Calls("createDynamoDbGetItemStep") /\ NewTask("dynamodb")
CreateDynamoDbPutItemStep ==
    Calls("createDynamoDbPutItemStep") /\ NewTask("dynamodb")
CreateDynamoDbDeleteItemStep ==
    Calls("createDynamoDbDeleteItemStep") /\ NewTask("dynamodb")

CreateSendSqsMessageStep ==
    /\ Calls("createSendSqsMessageStep")
    /\ IF call.props # NotSet /\ call.props.messageBody = NotSet THEN Throws
       ELSE NewTask("sqs")

CreateLambdaStep == Calls("createLambdaStep") /\ NewLambdaInvoke

CreateSkippableLambdaStep ==
    /\ Calls("createSkippableLambdaStep")
    /\ IF call.skipExecution THEN NewNamed("pass", <<>>) ELSE NewLambdaInvoke

CreateApiStep == Calls("createApiStep") /\ NewTask("api")

(* Execution and map steps are named by their ids.  A map needs no props.  *)
CreateSfnExecutionStep ==
    /\ Calls("createSfnExecutionStep")
    /\ IF call.props = NotSet THEN Throws
       ELSE New(call.id, "execution", AddRetries(call.props.retries))

CreateMapState == Calls("createMapState") /\ New(call.id, "map", <<>>)

CreateStateMachine ==
    /\ phase = "building" /\ plan.calls = <<>>
    /\ phase' = IF plan.machine = NotSet THEN "thrown"
                ELSE IF plan.machine.stateMachineName = NotSet THEN "thrown"
                ELSE "synthesised"
    /\ UNCHANGED <<plan, steps, runs, children>>

Building ==
    \/ CreateSuccessStep \/ CreateFailStep \/ CreatePassStep
    \/ CreateChoiceStep \/ CreateWaitStep \/ CreateParallelStep
    \/ CreateDynamoDbGetItemStep \/ CreateDynamoDbPutItemStep
    \/ CreateDynamoDbDeleteItemStep \/ CreateSendSqsMessageStep
    \/ CreateLambdaStep \/ CreateSkippableLambdaStep \/ CreateApiStep
    \/ CreateSfnExecutionStep \/ CreateMapState \/ CreateStateMachine
-----------------------------------------------------------------------------
(* Executing.  Step Functions accepts intervals of a second or more and    *)
(* States.ALL in the last retrier; only standard machines wait for others. *)

Acceptable(step) ==
    /\ \A i \in DOMAIN step.retriers :
         /\ step.retriers[i].interval > 0
         /\ step.retriers[i].errors = Errors => i = Len(step.retriers)
    /\ step.kind = "execution" /\ step.props.sync
         => ~plan.machine.express /\ ~plan.machine.childExpress

Deploy ==
    /\ phase = "synthesised"
    /\ phase' = IF \A i \in DOMAIN steps : Acceptable(steps[i])
                  THEN "deployed" ELSE "refused"
    /\ UNCHANGED <<plan, steps, runs, children>>

Start(e) ==
    /\ phase = "deployed" /\ e \in plan.executions /\ runs[e].status = "none"
    /\ \E input \in Inputs :
         runs' = [runs EXCEPT ![e].status = "running", ![e].input = input]
    /\ UNCHANGED <<plan, steps, phase, children>>

StepOf(e) == steps[runs[e].at]
IsAt(e, kinds) ==
    /\ runs[e].status = "running"
    /\ runs[e].at \in DOMAIN steps /\ StepOf(e).kind \in kinds

Onward(run) ==
    [run EXCEPT !.at = @ + 1, !.calls = 0, !.used = <<>>,
                !.error = NotSet, !.child = NoChild,
                !.status = IF run.at = Len(steps) THEN "succeeded"
                           ELSE "running"]

ExpressLimit == 300
Waits(run, seconds) ==
    IF plan.machine.express /\ run.waited + seconds > ExpressLimit
      THEN [run EXCEPT !.status = "timedOut"]
    ELSE [run EXCEPT !.waited = @ + seconds]

(* The delay of a retrier after as many retries: each doubles it.          *)
Delay(retrier, retries) ==
    LET delay[n \in 0..retries] ==
          IF n = 0 THEN retrier.interval ELSE 2 * delay[n - 1]
    IN delay[retries]

(* The first retrier that matches an error decides; each counts its own    *)
(* retries.                                                                *)
Matching(step, error) ==
    {i \in DOMAIN step.retriers : error \in step.retriers[i].errors}

Failed(run, step, error) ==
    LET seen == [run EXCEPT !.calls = @ + 1, !.error = error]
        used == IF run.used = <<>> THEN [i \in DOMAIN step.retriers |-> 0]
                ELSE run.used
        first == CHOOSE i \in Matching(step, error) :
                   \A j \in Matching(step, error) : i <= j
        retrier == step.retriers[first]
    IN IF Matching(step, error) = {} THEN [seen EXCEPT !.status = "failed"]
       ELSE IF used[first] = retrier.attempts
              THEN [seen EXCEPT !.status = "failed"]
       ELSE Waits([seen EXCEPT !.used = [used EXCEPT ![first] = @ + 1],
                               !.child = NoChild],
                  Delay(retrier, used[first]))

Becomes(e, run) ==
    runs' = [runs EXCEPT ![e] = run] /\ UNCHANGED <<plan, steps, phase>>

GoOn(e) ==
    /\ IsAt(e, {"pass", "choice"})
    /\ Becomes(e, Onward(runs[e])) /\ UNCHANGED children

Wait(e) ==
    /\ IsAt(e, {"wait"})
    /\ LET run == Waits(runs[e], StepOf(e).props.delayInSeconds)
       IN Becomes(e, IF run.status = "running" THEN Onward(run) ELSE run)
    /\ UNCHANGED children

Stop(e) ==
    /\ IsAt(e, {"succeed", "fail"})
    /\ Becomes(e, [runs[e] EXCEPT !.status =
         IF StepOf(e).kind = "fail" THEN "failed" ELSE "succeeded"])
    /\ UNCHANGED children

Tasks == {"dynamodb", "sqs", "lambda", "api"}
Answer(e) ==
    /\ IsAt(e, Tasks \cup {"parallel", "map"})
    /\ \/ Becomes(e, Onward(runs[e]))
       \/ \E error \in {"service", "task"} :
            Becomes(e, Failed(runs[e], StepOf(e), error))
    /\ UNCHANGED children

(* A step that starts an execution of another machine.  A name that is not *)
(* a path into the input is the same in every execution of this machine,   *)
(* one that is, in every execution with that input.                        *)
NameLeftToTheService(e, step) ==    \* a mutant: each start makes its own
    LET name == step.props.executionName
    IN IF name = NotSet THEN <<"service", Cardinality(children)>>
       ELSE IF name = "path" THEN <<"path", runs[e].input>>
       ELSE <<name>>

ExecutionName(e, step) ==
    LET name == step.props.executionName
    IN IF name = NotSet THEN <<"uuid", step.id>>
       ELSE IF name = "path" THEN <<"path", runs[e].input>>
       ELSE <<name>>

AssociateIfAsked(e, props) ==       \* a mutant: undefined is false
    IF props.associateWithParent = TRUE THEN <<runs[e].input, e>>
    ELSE <<runs[e].input>>

(* The input names the parent, unless it was not to be associated with it. *)
Associated(props) == Coalesce(props.associateWithParent, TRUE)
ChildInput(e, props) ==
    IF Associated(props) THEN <<runs[e].input, e>>
    ELSE <<runs[e].input>>

Waiting(e) == runs[e].child # NoChild

(* The execution is there, or was before: a standard machine has one of a  *)
(* name, and starts it again only for a request that is the same while it  *)
(* runs, which changes nothing.  Express ones are not told apart.          *)
StartExecution(e) ==
    LET step == StepOf(e)
        name == ExecutionName(e, step)
        input == ChildInput(e, step.props)
        taken == {c \in children : c.name = name /\ ~plan.machine.childExpress}
        same == {c \in taken : c.state = "running" /\ c.input = input}
        child == [name |-> name, input |-> input, by |-> e, at |-> runs[e].at,
                  state |-> "running"]
        asked == IF taken = {} THEN child ELSE CHOOSE c \in taken : TRUE
        answered == IF step.props.sync
                      THEN [runs[e] EXCEPT !.child = asked.name]
                    ELSE Onward(runs[e])
    IN /\ IsAt(e, {"execution"}) /\ ~Waiting(e)
       /\ IF taken = {} THEN children' = children \cup {child}
          ELSE UNCHANGED children
       /\ IF taken # {} /\ same = {}
            THEN Becomes(e, Failed(runs[e], step, "exists"))
          ELSE \/ Becomes(e, answered)
               \/ Becomes(e, Failed(runs[e], step, "service"))   \* answer lost

(* The request itself is lost.                                             *)
StartIsLost(e) ==
    /\ IsAt(e, {"execution"}) /\ ~Waiting(e)
    /\ Becomes(e, Failed(runs[e], StepOf(e), "service"))
    /\ UNCHANGED children

ChildEnds(c) ==
    /\ c.state = "running"
    /\ \E state \in {"succeeded", "failed"} :
         children' = (children \ {c}) \cup {[c EXCEPT !.state = state]}
    /\ UNCHANGED <<plan, steps, phase, runs>>

ParentLearns(e) ==
    /\ IsAt(e, {"execution"}) /\ Waiting(e)
    /\ \E c \in children :
         /\ c.name = runs[e].child /\ c.state # "running"
         /\ Becomes(e, IF c.state = "succeeded" THEN Onward(runs[e])
                       ELSE Failed(runs[e], StepOf(e), "task"))
    /\ UNCHANGED children

Next ==
    \/ Building \/ Deploy
    \/ \E e \in Executions :
         \/ Start(e) \/ GoOn(e) \/ Wait(e) \/ Stop(e) \/ Answer(e)
         \/ StartExecution(e) \/ StartIsLost(e) \/ ParentLearns(e)
    \/ \E c \in children : ChildEnds(c)

Spec == Init /\ [][Next]_vars
-----------------------------------------------------------------------------
(* An execution gives up a task only after as many retries as the caller   *)
(* asked for that error, six if nothing was asked, an empty list included. *)
(* A parallel step is given up at once, whatever its props ask.            *)
AskedRetries(step, error) ==
    LET retries == step.props.retries
        matching == {i \in DOMAIN retries : error \in retries[i].errors}
    IN IF step.kind = "lambda" /\ error = "service" THEN 6
       ELSE IF retries \in {NotSet, <<>>} THEN 6
       ELSE IF matching = {} THEN 0
       ELSE Coalesce(retries[CHOOSE i \in matching :
                               \A j \in matching : i <= j].maxAttempts, 3)

GivesUpAt(e, kinds) ==
    /\ runs[e].status = "failed" /\ runs[e].error # NotSet
    /\ StepOf(e).kind \in kinds

GivesUpAfterAskedRetries ==
    \A e \in Executions :
      /\ GivesUpAt(e, Tasks \cup {"execution"}) =>
           runs[e].calls > AskedRetries(StepOf(e), runs[e].error)
      /\ GivesUpAt(e, {"parallel"}) => runs[e].calls = 1

(* The default retries take longer than an express execution may: one that *)
(* relies on them never fails, it times out after four calls, and whatever *)
(* was to catch the error does not see it.                                 *)
DefaultRetriesOutlastExpress ==
    phase = "deployed" /\ plan.machine.express =>
      \A e \in Executions :
        runs[e].at \in DOMAIN steps /\ StepOf(e).kind \in Tasks
          /\ StepOf(e).props.retries \in {NotSet, <<>>} =>
        /\ runs[e].status = "failed" =>
             StepOf(e).kind = "lambda" /\ runs[e].error = "service"
        /\ runs[e].status = "timedOut" /\ StepOf(e).kind # "lambda" =>
             runs[e].calls <= 4

(* What a task's error does to its execution is what its retries, given or *)
(* not, say, for every way the builders read them.                         *)
RetriedAsAsked == GivesUpAfterAskedRetries /\ DefaultRetriesOutlastExpress

(* However many answers are lost and retries made, an execution of a       *)
(* standard machine is started once: once for each input of the parents if *)
(* the name is a path into it, and once for ever if it is not.             *)
ChildStartedOnce ==
    phase = "deployed" /\ ~plan.machine.childExpress =>
      \A c, d \in children :
        c.at = d.at /\ c # d =>
          /\ steps[c.at].props.executionName = "path"
          /\ runs[c.by].input # runs[d.by].input

(* An execution that got past the step has started an execution of its own *)
(* and has not joined another's, unless it was told not to be associated   *)
(* with the ones it starts.                                                *)
NobodyJoinsAnothers ==
    \A e \in Executions : \A i \in 1..(runs[e].at - 1) :
      steps[i].kind = "execution" /\ Associated(steps[i].props) =>
        \E c \in children : c.by = e /\ c.name = ExecutionName(e, steps[i])

(* What waits for an execution that failed fails too: the name of that one *)
(* is taken, so no retry can start it again.                               *)
FailedChildIsFinal ==
    \A c \in children :
      c.state = "failed" /\ steps[c.at].props.sync => runs[c.by].at <= c.at
=============================================================================
