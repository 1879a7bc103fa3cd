------------------------- MODULE MCLambdaDeadLetters ------------------------
(***************************************************************************)
(* Three events, one of them poison; functions with and without a dead     *)
(* letter queue, retried or not, in default and larger batches, and with   *)
(* settings that fail to synthesise or to deploy.                          *)
(***************************************************************************)
EXTENDS LambdaDeadLetters

CONSTANTS poisoned, fine, finer

MCEvents == {poisoned, fine, finer}
MCPoison == {poisoned}

Queue(retries, size, max, hidden) ==
    [retriesEnabled |-> retries, retryBatchSize |-> size,
     maxReceiveCount |-> max, visibilityTimeoutInSecs |-> hidden]

Lambda(docker, dlqEnabled, dlq, timeout) ==
    [docker |-> docker, deadLetterQueueEnabled |-> dlqEnabled, dlq |-> dlq,
     timeoutInSecs |-> timeout]

MCPropsChoices ==
    {Lambda(d, TRUE, Queue(TRUE, size, 2, 900), NotSet) :
        d \in BOOLEAN, size \in {NotSet, 2, 0, 11}}
    \union {Lambda(FALSE, TRUE, Queue(TRUE, 3, NotSet, hidden), timeout) :
               hidden \in {0, 30}, timeout \in {NotSet, 30}}
    \union {Lambda(FALSE, enabled, Queue(FALSE, NotSet, NotSet, NotSet), 0) :
               enabled \in BOOLEAN}
    \union {Lambda(TRUE, FALSE, Queue(TRUE, NotSet, NotSet, NotSet), NotSet)}
=============================================================================
