-------------------------- MODULE LambdaDeadLetters -------------------------
(***************************************************************************)
(* What becomes of the events a function made by                           *)
(* LambdaManager.createLambdaFunction or createLambdaDockerFunction is     *)
(* invoked with asynchronously (packages/aws/src/services/lambda/main.ts). *)
(* The service attempts an event a few times and hands it to the           *)
(* function's dead letter queue when every attempt failed.  With           *)
(* dlq.retriesEnabled the same function consumes that queue in batches,    *)
(* and after maxReceiveCount receipts a message is parked in the redrive   *)
(* queue.  The functions' wiring is the code's; attempts, batches and      *)
(* redelivery are Lambda's and SQS's.                                      *)
(***************************************************************************)
EXTENDS Naturals, FiniteSets

CONSTANTS
    Events,         \* the events the function is invoked with
    Poison,         \* those it fails on whenever it sees them
    PropsChoices,   \* the LambdaProps a caller may pass
    NotSet          \* a property the caller left out

ASSUME EventsAssumption == IsFiniteSet(Events) /\ Poison \subseteq Events

(* SQS takes no other maxReceiveCount.                                     *)
ASSUME PropsAssumption ==
    \A p \in PropsChoices :
        p.dlq.maxReceiveCount = NotSet \/ p.dlq.maxReceiveCount \in Nat \ {0}

VARIABLES
    phase,      \* "synth", then "deployed" or "failed"
    props,      \* what the function was created from
    fn,         \* how it is wired
    call,       \* the asynchronous invocation of each event
    attempts,   \* how often it was attempted
    place,      \* where the dead letter queue has the event
    receives,   \* how often the function received it from there
    running,    \* the batches it is working on
    handled     \* the events it ever completed

queueVars == <<place, receives, running>>
vars == <<phase, props, fn, call, attempts, place, receives, running, handled>>

Dlq == INSTANCE RedriveQueue WITH Messages <- Events
-----------------------------------------------------------------------------
(* A function's timeout: 15 minutes, or 1 minute when built from an image. *)
Timeout(p) == Dlq!Truthy(p.timeoutInSecs, IF p.docker THEN 60 ELSE 900)

(* How often a message is received before it is parked.                    *)
Receipts(p) == Dlq!Coalesce(p.dlq.maxReceiveCount, 5)

(* The redrive queue is a queue without one of its own that nothing reads; *)
(* the dead letter queue redrives to it.                                   *)
CreateDeadLetterQueueForLambda(p) == Dlq!CreateQueue(p.dlq, TRUE)

(* The function consumes its dead letter queue if it has one and           *)
(* dlq.retriesEnabled is set.                                              *)
(* A mutant: only a queue with settings of its own for SQS is consumed.    *)
RetriesOnlyTuned(p) ==
    /\ p.deadLetterQueueEnabled /\ p.dlq.retriesEnabled
    /\ p.dlq.maxReceiveCount # NotSet

Retries(p) == p.deadLetterQueueEnabled /\ p.dlq.retriesEnabled

(* A mutant: the queue is consumed in the event source's usual tens.       *)
RetryBatchSizeOfTen(p) == Dlq!Coalesce(p.dlq.retryBatchSize, 10)

RetryBatchSize(p) == Dlq!Coalesce(p.dlq.retryBatchSize, 1)

(* A mutant: the response says nothing, which counts as success.           *)
ReportNothing(failures) == {}

(* What a batch's response hands back to the queue: with                   *)
(* reportBatchItemFailures, the messages the function reports as failed.   *)
ReportBatchItemFailures(failures) == failures

Wiring(p) ==
    [hasDlq |-> p.deadLetterQueueEnabled,
     queue |-> CreateDeadLetterQueueForLambda(p),
     retries |-> Retries(p),
     batchSize |-> RetryBatchSize(p),
     timeout |-> Timeout(p)]

(* Lambda attempts an asynchronous invocation three times.                 *)
MaxAttempts == 3

NoFunction == [hasDlq |-> FALSE, retries |-> FALSE]
-----------------------------------------------------------------------------
Init ==
    /\ phase = "synth"
    /\ props \in PropsChoices
    /\ fn = NoFunction
    /\ call = [e \in Events |-> "none"]
    /\ attempts = [e \in Events |-> 0]
    /\ Dlq!QueueInit
    /\ running = {}
    /\ handled = {}

(* SqsEventSource takes batch sizes from 1 to 10 and throws on others.     *)
CreateLambdaFunction ==
    /\ phase = "synth" /\ fn = NoFunction
    /\ IF Retries(props) /\ RetryBatchSize(props) \notin 1..10
         THEN phase' = "failed" /\ UNCHANGED fn
         ELSE fn' = Wiring(props) /\ UNCHANGED phase
    /\ UNCHANGED <<props, call, attempts, queueVars, handled>>

(* Lambda refuses an event source whose queue hides messages for less time *)
(* than the function may run.                                              *)
Deploy ==
    /\ phase = "synth" /\ fn # NoFunction
    /\ phase' = IF fn.retries /\ fn.queue.visibilityTimeout < fn.timeout
                  THEN "failed" ELSE "deployed"
    /\ UNCHANGED <<props, fn, call, attempts, queueVars, handled>>

Invoke(e) ==
    /\ phase = "deployed" /\ call[e] = "none"
    /\ call' = [call EXCEPT ![e] = "pending"]
    /\ UNCHANGED <<phase, props, fn, attempts, queueVars, handled>>

AttemptSucceeds(e) ==
    /\ call[e] = "pending" /\ e \notin Poison
    /\ call' = [call EXCEPT ![e] = "done"]
    /\ attempts' = [attempts EXCEPT ![e] = @ + 1]
    /\ handled' = handled \union {e}
    /\ UNCHANGED <<phase, props, fn, queueVars>>

(* Any event may fail for a while; the last failed attempt sends it to the *)
(* dead letter queue, or drops it when there is none.                      *)
AttemptFails(e) ==
    /\ call[e] = "pending"
    /\ attempts' = [attempts EXCEPT ![e] = @ + 1]
    /\ IF attempts'[e] < MaxAttempts
         THEN UNCHANGED <<call, place, receives>>
       ELSE IF fn.hasDlq
         THEN Dlq!Send(e) /\ call' = [call EXCEPT ![e] = "queued"]
       ELSE UNCHANGED <<place, receives>>
            /\ call' = [call EXCEPT ![e] = "dropped"]
    /\ UNCHANGED <<phase, props, fn, running, handled>>

(* The event source's pollers run side by side, each with its own batch.   *)
Poll(batch) ==
    /\ fn.retries
    /\ Dlq!Receive(fn.queue, batch, fn.batchSize)
    /\ running' = running \union {batch}
    /\ UNCHANGED <<phase, props, fn, call, attempts, handled>>

Park(e) ==
    /\ fn.retries
    /\ Dlq!Redrive(fn.queue, e)
    /\ UNCHANGED <<phase, props, fn, call, attempts, running, handled>>

(* The function worked through the batch and reports what failed.          *)
BatchResponds(batch) ==
    /\ batch \in running
    /\ Dlq!Settle(batch, ReportBatchItemFailures(batch \intersect Poison))
    /\ running' = running \ {batch}
    /\ handled' = handled \union (batch \ Poison)
    /\ UNCHANGED <<phase, props, fn, call, attempts>>

(* A message it cannot handle brought the whole invocation down, after it  *)
(* had completed some of the others.                                       *)
BatchDies(batch, completed) ==
    /\ batch \in running /\ batch \intersect Poison # {}
    /\ completed \subseteq batch \ Poison
    /\ Dlq!Settle(batch, batch)
    /\ running' = running \ {batch}
    /\ handled' = handled \union completed
    /\ UNCHANGED <<phase, props, fn, call, attempts>>

(* The service's own steps, as opposed to somebody invoking the function.  *)
Service ==
    \/ \E e \in Events : AttemptSucceeds(e) \/ AttemptFails(e) \/ Park(e)
    \/ \E batch \in SUBSET Events :
          \/ Poll(batch)
          \/ BatchResponds(batch)
          \/ \E completed \in SUBSET Events : BatchDies(batch, completed)

Next ==
    \/ CreateLambdaFunction
    \/ Deploy
    \/ \E e \in Events : Invoke(e)
    \/ Service

(* Lambda and SQS retry on their own; nothing obliges anybody to invoke.   *)
Fairness == WF_vars(Service)

Spec == Init /\ [][Next]_vars /\ Fairness
-----------------------------------------------------------------------------
(* Every variable keeps its kind of value; the running batches are what    *)
(* the queue has in flight, each message in one of them, and only a        *)
(* function with a dead letter queue consumes one.                         *)
TypeOK ==
    /\ phase \in {"synth", "deployed", "failed"}
    /\ props \in PropsChoices
    /\ fn = NoFunction \/ fn = Wiring(props)
    /\ fn.retries => fn.hasDlq /\ fn.batchSize \in 1..10
    /\ call \in [Events -> {"none", "pending", "done", "queued", "dropped"}]
    /\ attempts \in [Events -> 0..MaxAttempts]
    /\ Dlq!QueueTypeOK
    /\ running \subseteq SUBSET Events
    /\ UNION running = Dlq!At("inflight")
    /\ \A a, b \in running : a # b => a \intersect b = {}
    /\ handled \subseteq Events

(* The dead letter queue is given up a message only because the function   *)
(* completed it: a batch with a failure in it does not take the failed     *)
(* message along (reportBatchItemFailures of the event source).            *)
DeletedOnlyIfHandled == \A e \in Events : place[e] = "deleted" => e \in handled

(* With the default retryBatchSize an event the function can handle is     *)
(* never parked for the sake of one it cannot.                             *)
HealthyNeverParked ==
    props.dlq.retryBatchSize = NotSet =>
        \A e \in Events \ Poison : place[e] # "dead"

(* An event is parked after it failed every asynchronous attempt and was   *)
(* then received as often as the queue's properties say, 5 times unless    *)
(* they say otherwise, and never worked on again.                          *)
ParkedAfterEveryRetry ==
    \A e \in Events : place[e] = "dead" =>
        /\ attempts[e] = MaxAttempts
        /\ receives[e] = Receipts(props)
        /\ \A batch \in running : e \notin batch

(* An event is in the end handled, or parked in the redrive queue; without *)
(* retries it may wait in the dead letter queue, and only a function that  *)
(* was not given one drops it.                                             *)
Settled(e) ==
    \/ e \in handled /\ place[e] \in {"unsent", "deleted"}
    \/ place[e] = "dead"
    \/ place[e] = "visible" /\ ~props.dlq.retriesEnabled
    \/ call[e] = "dropped" /\ ~props.deadLetterQueueEnabled

EveryEventSettles == \A e \in Events : (call[e] # "none") ~> []Settled(e)
-----------------------------------------------------------------------------
(* createLambdaFunction's comment has it that "When DLQ retries are        *)
(* enabled" failed messages "are automatically reprocessed by the same     *)
(* function": a function with retries and a valid batch size is deployed.  *)
RetriesAreDeployed ==
    phase = "failed" => ~Retries(props) \/ RetryBatchSize(props) \notin 1..10
=============================================================================
