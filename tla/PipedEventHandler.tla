-------------------------- MODULE PipedEventHandler -------------------------
(***************************************************************************)
(* The events of a deployed PipedEventHandler: the rule sends them to the  *)
(* piped queue, from which the pipes it created                            *)
(* (packages/aws/src/construct/piped-event-handler/main.ts, and            *)
(* createSqsToSfnCfnPipe and createSqsToLambdaCfnPipe of                   *)
(* services/eventbridge/main.ts) take them in batches to the workflow or   *)
(* to a function.  The wiring is EventHandler's; what a pipe does with a   *)
(* batch is EventBridge Pipes'.                                            *)
(***************************************************************************)
EXTENDS EventHandler

CONSTANTS
    Events,
    Poison      \* those the workflow and the functions fail on

ASSUME PoisonAssumption == Poison \subseteq Events

(* SQS takes no other maxReceiveCount.                                     *)
ASSUME PipedQueueAssumption ==
    \A p \in PropsChoices : p.piped =>
        p.pipedQueue.maxReceiveCount \in {NotSet} \union (Nat \ {0})

VARIABLES
    place, receives,    \* the piped queue
    busy,               \* the batches the pipes are working on
    executions,         \* the batches the workflow is running for
    completed,          \* the events the workflow or a function completed
    filtered,           \* those a pipe's filter took out of the queue
    abandoned           \* those a failed execution did not complete

queueVars == <<place, receives>>
resultVars == <<executions, completed, filtered, abandoned>>
vars == <<synthVars, queueVars, busy, resultVars>>

PipedQueue == INSTANCE RedriveQueue WITH Messages <- Events
-----------------------------------------------------------------------------
(* createPipedQueue gives the piped queue pipedDlq to redrive to.          *)
Queue == PipedQueue!CreateQueue(props.pipedQueue, TRUE)

(* A pipe takes 10 messages at a time unless told otherwise.               *)
BatchSize(pipe) == Coalesce(pipe.batchSize, 10)

(* Without a filter a pipe forwards everything; what does not pass its     *)
(* filter it takes out of the queue.                                       *)
WantedUnlessFiltered(pipe, batch) ==    \* a mutant: a pattern matches nothing
    IF pipe.filter = NotSet THEN batch ELSE {}

Wanted(pipe, batch) == batch \intersect Coalesce(pipe.filter, Events)

Init ==
    /\ SynthInit /\ props.piped
    /\ PipedQueue!QueueInit
    /\ busy = {} /\ executions = {}
    /\ completed = {} /\ filtered = {} /\ abandoned = {}

Synth == SynthNext /\ UNCHANGED <<queueVars, busy, resultVars>>

(* An event the rule matches goes to each of its targets.                  *)
Publish(e) ==
    /\ status = "deployed"
    /\ \E r \in template.rules : "pipe-queue" \in r.targets
    /\ PipedQueue!Send(e)
    /\ UNCHANGED <<synthVars, busy, resultVars>>

(* The pipes poll the one queue side by side.                              *)
Poll(pipe, batch) ==
    /\ PipedQueue!Receive(Queue, batch, BatchSize(pipe))
    /\ busy' = busy \union {[pipe |-> pipe, batch |-> batch]}
    /\ UNCHANGED <<synthVars, resultVars>>

Redrive(e) ==
    /\ PipedQueue!Redrive(Queue, e)
    /\ UNCHANGED <<synthVars, busy, resultVars>>

(* A pipe is done with a batch: what it hands back returns to the queue.   *)
Done(b, handedBack) ==
    /\ b \in busy
    /\ busy' = busy \ {b}
    /\ PipedQueue!Settle(b.batch, handedBack)
    /\ filtered' = filtered \union (b.batch \ Wanted(b.pipe, b.batch))
    /\ UNCHANGED synthVars

(* A mutant: what the pipe gives to the workflow it hands back as well.    *)
StartsExecutionUnacknowledged(b) ==
    LET wanted == Wanted(b.pipe, b.batch) IN
    /\ ~b.pipe.waits /\ wanted # {}
    /\ Done(b, wanted)
    /\ executions' = executions \union {wanted}
    /\ UNCHANGED <<completed, abandoned>>

(* FIRE_AND_FORGET: the execution started, which is all the pipe asks.     *)
StartsExecution(b) ==
    LET wanted == Wanted(b.pipe, b.batch) IN
    /\ ~b.pipe.waits /\ wanted # {}
    /\ Done(b, {})
    /\ executions' = executions \union {wanted}
    /\ UNCHANGED <<completed, abandoned>>

(* The target the pipe waits for completed everything it was given.        *)
TargetCompletes(b) ==
    LET wanted == Wanted(b.pipe, b.batch) IN
    /\ b.pipe.waits \/ wanted = {}
    /\ wanted \intersect Poison = {}
    /\ Done(b, {})
    /\ completed' = completed \union wanted
    /\ UNCHANGED <<executions, abandoned>>

(* It failed, or could not be called at all.                               *)
TargetFails(b) ==
    /\ Wanted(b.pipe, b.batch) # {}
    /\ Done(b, Wanted(b.pipe, b.batch))
    /\ UNCHANGED <<executions, completed, abandoned>>

(* An execution maps over its batch and fails with the first failing item, *)
(* when it may have been through some of the others.                       *)
ExecutionEnds(batch, through) ==
    /\ batch \in executions
    /\ through \subseteq batch \ Poison
    /\ batch \intersect Poison = {} => through = batch
    /\ executions' = executions \ {batch}
    /\ completed' = completed \union through
    /\ abandoned' = abandoned \union (batch \ through)
    /\ UNCHANGED <<synthVars, queueVars, busy, filtered>>

(* What SQS, Pipes and Step Functions go on doing by themselves.           *)
Service ==
    \/ \E e \in Events : Redrive(e)
    \/ \E pipe \in template.pipes, batch \in SUBSET Events :
          status = "deployed" /\ Poll(pipe, batch)
    \/ \E b \in busy : StartsExecution(b) \/ TargetCompletes(b) \/ TargetFails(b)
    \/ \E batch \in executions : \E through \in SUBSET batch :
          ExecutionEnds(batch, through)

Next == Synth \/ (\E e \in Events : Publish(e)) \/ Service

Spec == Init /\ [][Next]_vars /\ WF_vars(Service)
-----------------------------------------------------------------------------
(* What the pipes work on is what the queue has in flight, each event with *)
(* one of them, executions are for events out of the queue, and every pipe *)
(* has its source in the template.                                         *)
TypeOK ==
    /\ \A p \in template.pipes : p.source \in template.queues
    /\ PipedQueue!QueueTypeOK
    /\ UNION {b.batch : b \in busy} = PipedQueue!At("inflight")
    /\ \A b, c \in busy : b # c => b.batch \intersect c.batch = {}
    /\ executions \subseteq SUBSET PipedQueue!At("deleted")
    /\ completed \union filtered \union abandoned \subseteq Events

(* An event is parked in pipedDlq after maxReceiveCount receipts, 5 unless *)
(* pipedQueue says otherwise, none of which got it out of the queue: no    *)
(* execution ran for it, no function completed it.                         *)
ParkedWasNeverTaken ==
    \A e \in Events : place[e] = "dead" =>
        /\ receives[e] = Coalesce(props.pipedQueue.maxReceiveCount, 5)
        /\ e \notin (UNION executions) \union completed \union abandoned \union filtered

(* Only an execution nobody waited for abandons events: with the workflow  *)
(* pipe's sfnInvocationType REQUEST_RESPONSE a failure is handed back.     *)
OnlyFireAndForgetAbandons ==
    abandoned # {} =>
        props.sqsToSfnPipe # NotSet
          /\ props.sqsToSfnPipe.sfnInvocationType # "REQUEST_RESPONSE"

(* Whichever pipes poll it, side by side, with filters and batches of      *)
(* their own and again after failures, an event that left the queue for    *)
(* another place than pipedDlq met one fate, once: it is with one          *)
(* execution, completed, abandoned, or filtered out.  An event that a pipe *)
(* wants is lost to a filter only if another pipe does not want it.        *)
LetsThrough(pipe, e) == e \in Coalesce(pipe.filter, Events)
Taken == (UNION executions) \union completed \union abandoned

EveryEventHasOneFate ==
    /\ PipedQueue!At("deleted") = Taken \union filtered
    /\ Taken \intersect filtered = {}
    /\ completed \intersect abandoned = {}
    /\ \A x \in executions : x \intersect (completed \union abandoned) = {}
    /\ \A x, y \in executions : x # y => x \intersect y = {}
    /\ \A e \in Taken : \E p \in template.pipes : LetsThrough(p, e)
    /\ \A e \in filtered : \E p \in template.pipes : ~LetsThrough(p, e)

(* A handler with a pipe for its workflow or its function leaves no event  *)
(* in the piped queue: each is in the end taken out of it or parked, and   *)
(* what was started has ended.                                             *)
HasPipe ==
    \/ props.sqsToSfnPipe # NotSet /\ props.workflow
    \/ props.sqsToLambdaPipe # NotSet /\ props.functions # {}

EveryEventLeavesTheQueue ==
    \A e \in Events :
        (HasPipe /\ place[e] = "visible") ~>
            [](place[e] \in {"deleted", "dead"} /\ \A x \in executions : e \notin x)
=============================================================================
