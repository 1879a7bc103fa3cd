----------------------------- MODULE RedriveQueue ---------------------------
(***************************************************************************)
(* A queue as SqsManager.createQueue configures it                         *)
(* (packages/aws/src/services/simple-queue-service/main.ts): consumers     *)
(* receive its messages in batches, a message that is not deleted becomes  *)
(* visible again, and one that was received maxReceiveCount times goes to  *)
(* the dead letter queue at the next poll, if createQueue was given one.   *)
(* Redelivery and the move are SQS's; createQueue decides whether there is *)
(* a dead letter queue, after how many receipts a message goes there and   *)
(* how long a received message is hidden.  Retention is long against the   *)
(* retries, so no message expires here.                                    *)
(***************************************************************************)
EXTENDS Defaults, FiniteSets

CONSTANT Messages

VARIABLES
    place,          \* where each message is
    receives        \* how often a consumer received it

Places == {"unsent", "visible", "inflight", "deleted", "dead"}

QueueTypeOK ==
    /\ place \in [Messages -> Places]
    /\ receives \in [Messages -> Nat]

QueueInit ==
    /\ place = [m \in Messages |-> "unsent"]
    /\ receives = [m \in Messages |-> 0]
-----------------------------------------------------------------------------
(* SQS hides a received message for 30 seconds unless told otherwise.      *)
DefaultVisibilityTimeout == 30

(* A mutant: the dead letter queue gets a message one receipt early.       *)
CreateQueueEager(props, deadLetterQueue) ==
    [redrives |-> deadLetterQueue,
     maxReceiveCount |-> Coalesce(props.maxReceiveCount, 5) - 1,
     visibilityTimeout |->
        Truthy(props.visibilityTimeoutInSecs, DefaultVisibilityTimeout)]

CreateQueue(props, deadLetterQueue) ==
    [redrives |-> deadLetterQueue,
     maxReceiveCount |-> Coalesce(props.maxReceiveCount, 5),
     visibilityTimeout |->
        Truthy(props.visibilityTimeoutInSecs, DefaultVisibilityTimeout)]
-----------------------------------------------------------------------------
At(where) == {m \in Messages : place[m] = where}

Move(batch, where) ==
    [m \in Messages |-> IF m \in batch THEN where ELSE place[m]]

Send(m) ==
    /\ place[m] = "unsent"
    /\ place' = Move({m}, "visible")
    /\ UNCHANGED receives

Spent(queue, m) == queue.redrives /\ receives[m] >= queue.maxReceiveCount

(* A poll by a consumer that takes up to batchSize messages.               *)
Receive(queue, batch, batchSize) ==
    /\ batch # {} /\ batch \subseteq At("visible")
    /\ Cardinality(batch) <= batchSize
    /\ \A m \in batch : ~Spent(queue, m)
    /\ place' = Move(batch, "inflight")
    /\ receives' = [m \in Messages |->
                      IF m \in batch THEN receives[m] + 1 ELSE receives[m]]

(* A poll that finds a message received too often.                         *)
Redrive(queue, m) ==
    /\ place[m] = "visible" /\ Spent(queue, m)
    /\ place' = Move({m}, "dead")
    /\ UNCHANGED receives

(* The consumer is done with a batch: what it hands back becomes visible   *)
(* again when its visibility timeout ends, the rest is deleted.            *)
Settle(batch, handedBack) ==
    /\ batch \subseteq At("inflight")
    /\ place' = [m \in Messages |->
                    IF m \notin batch THEN place[m]
                    ELSE IF m \in handedBack THEN "visible" ELSE "deleted"]
    /\ UNCHANGED receives
=============================================================================
