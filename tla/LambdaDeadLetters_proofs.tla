----------------------- MODULE LambdaDeadLetters_proofs ---------------------
(***************************************************************************)
(* The safety of dead letters for any number of events, poisonous or not,  *)
(* and any properties of the function.                                     *)
(***************************************************************************)
EXTENDS LambdaDeadLetters, FiniteSetTheorems, TLAPS

(* What the steps of the queue do to the places of its messages.           *)
LEMMA SendType ==
    ASSUME NEW e \in Events, Dlq!QueueTypeOK, Dlq!Send(e)
    PROVE  Dlq!QueueTypeOK'
BY DEF Dlq!Send, Dlq!QueueTypeOK, Dlq!Move, Dlq!Places

LEMMA ReceiveType ==
    ASSUME NEW queue, NEW batch, NEW size,
           Dlq!QueueTypeOK, Dlq!Receive(queue, batch, size)
    PROVE  Dlq!QueueTypeOK'
BY DEF Dlq!Receive, Dlq!QueueTypeOK, Dlq!Move, Dlq!Places

LEMMA RedriveType ==
    ASSUME NEW queue, NEW e \in Events,
           Dlq!QueueTypeOK, Dlq!Redrive(queue, e)
    PROVE  Dlq!QueueTypeOK'
BY DEF Dlq!Redrive, Dlq!QueueTypeOK, Dlq!Move, Dlq!Places

LEMMA SettleType ==
    ASSUME NEW batch, NEW handedBack,
           Dlq!QueueTypeOK, Dlq!Settle(batch, handedBack)
    PROVE  Dlq!QueueTypeOK'
BY DEF Dlq!Settle, Dlq!QueueTypeOK, Dlq!Places

(* What is in flight is what the function works on.                        *)
InFlight ==
    /\ running \subseteq SUBSET Events
    /\ UNION running = Dlq!At("inflight")
    /\ \A a, b \in running : a # b => a \intersect b = {}

LEMMA SettleInFlight ==
    ASSUME InFlight, NEW batch \in running, NEW handedBack, Dlq!QueueTypeOK,
           Dlq!Settle(batch, handedBack), running' = running \ {batch}
    PROVE  InFlight'
<1>1. Dlq!At("inflight")' = Dlq!At("inflight") \ batch
  BY DEF Dlq!At, Dlq!Settle, Dlq!QueueTypeOK, InFlight
<1>2. UNION (running \ {batch}) = (UNION running) \ batch
  BY DEF InFlight
<1>. QED BY <1>1, <1>2 DEF InFlight

LEMMA ReceiveInFlight ==
    ASSUME InFlight, NEW queue, NEW batch, NEW size, Dlq!QueueTypeOK,
           Dlq!Receive(queue, batch, size), running' = running \union {batch}
    PROVE  InFlight'
<1>1. batch \subseteq Events /\ \A e \in batch : place[e] = "visible"
  BY DEF Dlq!Receive, Dlq!At
<1>2. Dlq!At("inflight")' = Dlq!At("inflight") \union batch
  BY <1>1 DEF Dlq!At, Dlq!Receive, Dlq!Move, Dlq!QueueTypeOK
<1>3. Dlq!At("inflight") \intersect batch = {}
  BY <1>1 DEF Dlq!At
<1>4. \A a \in running : a \intersect batch = {}
  BY <1>3 DEF InFlight
<1>. QED BY <1>1, <1>2, <1>4 DEF InFlight

LEMMA StillInFlight ==
    ASSUME InFlight, UNCHANGED running, Dlq!QueueTypeOK,
           Dlq!At("inflight")' = Dlq!At("inflight")
    PROVE  InFlight'
BY DEF InFlight

-----------------------------------------------------------------------------
(* The function keeps its wiring while its properties stay the same.       *)
LEMMA SameWiring ==
    ASSUME UNCHANGED props
    PROVE  /\ Wiring(props)' = Wiring(props)
           /\ Receipts(props)' = Receipts(props)
BY DEF Wiring, Retries, RetryBatchSize, Timeout, Dlq!Truthy, Dlq!Coalesce,
    CreateDeadLetterQueueForLambda, Dlq!CreateQueue, Receipts,
    Dlq!DefaultVisibilityTimeout

(* An invocation that is pending has attempts left.                        *)
AttemptsLeft ==
    \A e \in Events :
        /\ call[e] = "none" => attempts[e] = 0
        /\ call[e] = "pending" => attempts[e] < MaxAttempts

(* What there is besides the queue: the function and its invocations.      *)
FunctionTypeOK ==
    /\ phase \in {"synth", "deployed", "failed"}
    /\ props \in PropsChoices
    /\ fn = NoFunction \/ fn = Wiring(props)
    /\ fn.retries => fn.hasDlq /\ fn.batchSize \in 1..10

InvocationTypeOK ==
    /\ call \in [Events -> {"none", "pending", "done", "queued", "dropped"}]
    /\ attempts \in [Events -> 0..MaxAttempts]
    /\ handled \subseteq Events

LEMMA TypeParts ==
    TypeOK <=> FunctionTypeOK /\ InvocationTypeOK /\ Dlq!QueueTypeOK /\ InFlight
BY DEF TypeOK, FunctionTypeOK, InvocationTypeOK, InFlight

LEMMA SameFunction ==
    ASSUME FunctionTypeOK, UNCHANGED <<phase, props, fn>>
    PROVE  FunctionTypeOK'
BY SameWiring DEF FunctionTypeOK, NoFunction

LEMMA SameInvocations ==
    ASSUME InvocationTypeOK, AttemptsLeft, UNCHANGED <<call, attempts, handled>>
    PROVE  InvocationTypeOK' /\ AttemptsLeft'
BY DEF InvocationTypeOK, AttemptsLeft

LEMMA SameQueue ==
    ASSUME Dlq!QueueTypeOK, InFlight, UNCHANGED queueVars
    PROVE  Dlq!QueueTypeOK' /\ InFlight'
BY DEF queueVars, InFlight, Dlq!QueueTypeOK, Dlq!At

(* Every variable keeps its kind, and what the queue has in flight is what *)
(* the function works on, each event in one batch.                         *)
THEOREM TypeCorrect == Spec => []TypeOK
<1> DEFINE IInv == /\ FunctionTypeOK /\ InvocationTypeOK /\ AttemptsLeft
                   /\ Dlq!QueueTypeOK /\ InFlight
<1>1. Init => IInv
  <2> SUFFICES ASSUME Init PROVE IInv
    OBVIOUS
  <2>1. Dlq!QueueTypeOK /\ Dlq!At("inflight") = {}
    BY DEF Init, Dlq!QueueInit, Dlq!QueueTypeOK, Dlq!Places, Dlq!At
  <2>. QED BY <2>1
       DEF Init, FunctionTypeOK, InvocationTypeOK, InFlight, AttemptsLeft,
           MaxAttempts, NoFunction
<1>2. IInv /\ [Next]_vars => IInv'
  <2> SUFFICES ASSUME IInv, [Next]_vars PROVE IInv'
    OBVIOUS
  <2>1. ASSUME CreateLambdaFunction PROVE IInv'
    <3>1. InvocationTypeOK' /\ AttemptsLeft' /\ Dlq!QueueTypeOK' /\ InFlight'
      BY <2>1, SameInvocations, SameQueue DEF CreateLambdaFunction
    <3>2. FunctionTypeOK'
      <4>1. CASE Retries(props) /\ RetryBatchSize(props) \notin 1..10
        BY <2>1, <4>1, SameWiring
        DEF CreateLambdaFunction, FunctionTypeOK, NoFunction
      <4>2. CASE ~(Retries(props) /\ RetryBatchSize(props) \notin 1..10)
        <5>1. UNCHANGED <<phase, props>> /\ fn' = Wiring(props)
          BY <2>1, <4>2 DEF CreateLambdaFunction
        <5>2. Wiring(props).retries =>
                Wiring(props).hasDlq /\ Wiring(props).batchSize \in 1..10
          BY <4>2 DEF Wiring, Retries
        <5>. QED BY <5>1, <5>2, SameWiring DEF FunctionTypeOK
      <4>. QED BY <4>1, <4>2
    <3>. QED BY <3>1, <3>2
  <2>2. ASSUME Deploy PROVE IInv'
    <3>1. FunctionTypeOK'
      BY <2>2, SameWiring DEF Deploy, FunctionTypeOK
    <3>. QED BY <2>2, <3>1, SameInvocations, SameQueue DEF Deploy
  <2>3. ASSUME NEW e \in Events, Invoke(e) PROVE IInv'
    <3>1. InvocationTypeOK' /\ AttemptsLeft'
      BY <2>3 DEF Invoke, InvocationTypeOK, AttemptsLeft, MaxAttempts
    <3>. QED BY <2>3, <3>1, SameFunction, SameQueue DEF Invoke
  <2>4. ASSUME NEW e \in Events, AttemptSucceeds(e) PROVE IInv'
    <3>1. InvocationTypeOK' /\ AttemptsLeft'
      BY <2>4 DEF AttemptSucceeds, InvocationTypeOK, AttemptsLeft, MaxAttempts
    <3>. QED BY <2>4, <3>1, SameFunction, SameQueue
         DEF AttemptSucceeds
  <2>5. ASSUME NEW e \in Events, AttemptFails(e) PROVE IInv'
    <3>1. InvocationTypeOK' /\ AttemptsLeft'
      BY <2>5 DEF AttemptFails, InvocationTypeOK, AttemptsLeft, MaxAttempts
    <3>2. Dlq!QueueTypeOK' /\ InFlight'
      <4>1. CASE Dlq!Send(e)
        <5>1. Dlq!At("inflight")' = Dlq!At("inflight")
          BY <4>1 DEF Dlq!At, Dlq!Send, Dlq!Move, Dlq!QueueTypeOK
        <5>. QED BY <2>5, <4>1, <5>1, SendType, StillInFlight DEF AttemptFails
      <4>2. CASE UNCHANGED <<place, receives>>
        BY <2>5, <4>2, SameQueue DEF AttemptFails, queueVars
      <4>. QED BY <2>5, <4>1, <4>2 DEF AttemptFails
    <3>. QED BY <2>5, <3>1, <3>2, SameFunction DEF AttemptFails
  <2>6. ASSUME NEW e \in Events, Park(e) PROVE IInv'
    <3>1. Dlq!At("inflight")' = Dlq!At("inflight")
      BY <2>6 DEF Park, Dlq!At, Dlq!Redrive, Dlq!Move, Dlq!QueueTypeOK
    <3>. QED BY <2>6, <3>1, SameFunction, SameInvocations,
            RedriveType, StillInFlight DEF Park
  <2>7. ASSUME NEW batch, Poll(batch) PROVE IInv'
    BY <2>7, SameFunction, SameInvocations, ReceiveType,
       ReceiveInFlight DEF Poll
  <2>8. ASSUME NEW batch, BatchResponds(batch) PROVE IInv'
    <3>1. InvocationTypeOK' /\ AttemptsLeft'
      BY <2>8 DEF BatchResponds, InvocationTypeOK, AttemptsLeft, InFlight
    <3>. QED BY <2>8, <3>1, SameFunction, SettleType,
            SettleInFlight DEF BatchResponds
  <2>9. ASSUME NEW batch, NEW completed, BatchDies(batch, completed) PROVE IInv'
    <3>1. InvocationTypeOK' /\ AttemptsLeft'
      BY <2>9 DEF BatchDies, InvocationTypeOK, AttemptsLeft, InFlight
    <3>. QED BY <2>9, <3>1, SameFunction, SettleType,
            SettleInFlight DEF BatchDies
  <2>10. CASE UNCHANGED vars
    BY <2>10, SameFunction, SameInvocations, SameQueue
    DEF vars, queueVars
  <2>. QED BY <2>1, <2>2, <2>3, <2>4, <2>5, <2>6, <2>7, <2>8, <2>9, <2>10
       DEF Next, Service
<1>3. IInv => TypeOK
  BY TypeParts
<1>. QED BY <1>1, <1>2, <1>3, PTL DEF Spec
-----------------------------------------------------------------------------
(* The steps that leave the queue alone.                                   *)
LEMMA OtherSteps ==
    ASSUME NEW e \in Events,
           \/ CreateLambdaFunction \/ Deploy \/ Invoke(e) \/ AttemptSucceeds(e)
           \/ UNCHANGED vars
    PROVE  UNCHANGED <<props, place, receives, running>> /\ handled \subseteq handled'
BY DEF CreateLambdaFunction, Deploy, Invoke, AttemptSucceeds, vars, queueVars

(* A message leaves the dead letter queue for good only when the function  *)
(* completed it: reportBatchItemFailures hands back what failed.           *)
THEOREM NothingLost == Spec => []DeletedOnlyIfHandled
<1>1. Init => DeletedOnlyIfHandled
  BY DEF Init, DeletedOnlyIfHandled, Dlq!QueueInit
<1>2. TypeOK /\ DeletedOnlyIfHandled /\ [Next]_vars => DeletedOnlyIfHandled'
  <2> SUFFICES ASSUME TypeOK, DeletedOnlyIfHandled, [Next]_vars,
                      NEW m \in Events, place'[m] = "deleted"
               PROVE  m \in handled'
    BY DEF DeletedOnlyIfHandled
  <2>0. place[m] = "deleted" => m \in handled
    BY DEF DeletedOnlyIfHandled
  <2>1. CASE CreateLambdaFunction \/ Deploy \/ UNCHANGED vars
    BY <2>0, <2>1, OtherSteps
  <2>2. ASSUME NEW e \in Events, Invoke(e) \/ AttemptSucceeds(e)
        PROVE  m \in handled'
    BY <2>0, <2>2, OtherSteps
  <2>3. ASSUME NEW e \in Events, AttemptFails(e) PROVE m \in handled'
    BY <2>0, <2>3 DEF AttemptFails, Dlq!Send, Dlq!Move
  <2>4. ASSUME NEW e \in Events, Park(e) PROVE m \in handled'
    BY <2>0, <2>4 DEF Park, Dlq!Redrive, Dlq!Move
  <2>5. ASSUME NEW batch, Poll(batch) PROVE m \in handled'
    BY <2>0, <2>5 DEF Poll, Dlq!Receive, Dlq!Move
  <2>6. ASSUME NEW batch, BatchResponds(batch) PROVE m \in handled'
    BY <2>0, <2>6 DEF BatchResponds, Dlq!Settle, ReportBatchItemFailures
  <2>7. ASSUME NEW batch, NEW completed, BatchDies(batch, completed)
        PROVE  m \in handled'
    BY <2>0, <2>7 DEF BatchDies, Dlq!Settle
  <2>. QED BY <2>1, <2>2, <2>3, <2>4, <2>5, <2>6, <2>7 DEF Next, Service
<1>. QED BY <1>1, <1>2, TypeCorrect, PTL DEF Spec

-----------------------------------------------------------------------------
(* What an event went through, by where it is: an event in the queue was   *)
(* attempted as often as there is, no event was received more often than   *)
(* the queue allows, and a parked one exactly as often.                    *)
RetriesUsedUp ==
    \A e \in Events :
        /\ place[e] # "unsent" => call[e] = "queued"
        /\ call[e] = "queued" => attempts[e] = MaxAttempts
        /\ receives[e] <= Receipts(props)
        /\ place[e] = "dead" => receives[e] = Receipts(props)

LEMMA ReceiptsType == ASSUME props \in PropsChoices PROVE Receipts(props) \in Nat \ {0}
BY PropsAssumption DEF Receipts, Dlq!Coalesce

(* The queue a function consumes is the one its properties describe.       *)
LEMMA ConsumedQueue ==
    ASSUME TypeOK, fn.retries
    PROVE  /\ fn.queue.redrives
           /\ fn.queue.maxReceiveCount = Receipts(props)
           /\ fn.batchSize = RetryBatchSize(props)
<1>1. fn = Wiring(props)
  BY DEF TypeOK, NoFunction
<1>. QED BY <1>1 DEF Wiring, CreateDeadLetterQueueForLambda, Dlq!CreateQueue, Receipts

LEMMA RetriesInvariant == Spec => []RetriesUsedUp
<1>1. Init => RetriesUsedUp
  BY ReceiptsType DEF Init, RetriesUsedUp, Dlq!QueueInit
<1>2. TypeOK /\ TypeOK' /\ RetriesUsedUp /\ [Next]_vars => RetriesUsedUp'
  <2> SUFFICES ASSUME TypeOK, TypeOK', RetriesUsedUp, [Next]_vars
               PROVE  RetriesUsedUp'
    OBVIOUS
  <2>0. /\ props' = props /\ Receipts(props)' = Receipts(props)
        /\ Receipts(props) \in Nat \ {0}
    <3>1. props' = props
      BY DEF Next, Service, CreateLambdaFunction, Deploy, Invoke,
             AttemptSucceeds, AttemptFails, Poll, Park, BatchResponds,
             BatchDies, vars
    <3>. QED BY <3>1, SameWiring, ReceiptsType DEF TypeOK
  <2>t. /\ place \in [Events -> Dlq!Places] /\ receives \in [Events -> Nat]
        /\ attempts \in [Events -> 0..MaxAttempts]
        /\ call \in [Events -> {"none", "pending", "done", "queued", "dropped"}]
    BY DEF TypeOK, Dlq!QueueTypeOK
  <2>1. CASE CreateLambdaFunction \/ Deploy \/ UNCHANGED vars
    BY <2>0, <2>1 DEF CreateLambdaFunction, Deploy, vars, queueVars, RetriesUsedUp
  <2>2. ASSUME NEW e \in Events, Invoke(e) \/ AttemptSucceeds(e)
        PROVE  RetriesUsedUp'
    BY <2>0, <2>t, <2>2 DEF Invoke, AttemptSucceeds, queueVars, RetriesUsedUp
  <2>3. ASSUME NEW e \in Events, AttemptFails(e) PROVE RetriesUsedUp'
    <3>1. /\ call[e] = "pending" /\ place[e] = "unsent"
          /\ attempts' = [attempts EXCEPT ![e] = @ + 1]
          /\ receives' = receives
      BY <2>3 DEF AttemptFails, RetriesUsedUp, Dlq!Send
    <3>2. CASE attempts'[e] < MaxAttempts
      BY <2>0, <2>t, <2>3, <3>1, <3>2 DEF AttemptFails, RetriesUsedUp
    <3>3. CASE ~(attempts'[e] < MaxAttempts)
      <4>1. attempts'[e] = MaxAttempts
        BY <2>t, <3>1, <3>3 DEF MaxAttempts, TypeOK
      <4>2. CASE fn.hasDlq
        BY <2>0, <2>t, <2>3, <3>1, <3>3, <4>1, <4>2
        DEF AttemptFails, RetriesUsedUp, Dlq!Send, Dlq!Move
      <4>3. CASE ~fn.hasDlq
        BY <2>0, <2>t, <2>3, <3>1, <3>3, <4>3 DEF AttemptFails, RetriesUsedUp
      <4>. QED BY <4>2, <4>3
    <3>. QED BY <3>2, <3>3
  <2>4. ASSUME NEW e \in Events, Park(e) PROVE RetriesUsedUp'
    <3>1. receives[e] = Receipts(props)
      BY <2>0, <2>t, <2>4, ConsumedQueue DEF Park, Dlq!Redrive, Dlq!Spent, RetriesUsedUp
    <3>. QED BY <2>0, <2>t, <2>4, <3>1
         DEF Park, Dlq!Redrive, Dlq!Move, RetriesUsedUp
  <2>5. ASSUME NEW batch, Poll(batch) PROVE RetriesUsedUp'
    <3>1. \A e \in batch : receives[e] < Receipts(props) /\ place[e] = "visible"
      BY <2>0, <2>t, <2>5, ConsumedQueue DEF Poll, Dlq!Receive, Dlq!Spent, Dlq!At
    <3>. QED BY <2>0, <2>t, <2>5, <3>1
         DEF Poll, Dlq!Receive, Dlq!Move, RetriesUsedUp
  <2>6. ASSUME NEW batch \in running, NEW handedBack, Dlq!Settle(batch, handedBack),
               UNCHANGED <<call, attempts>>
        PROVE  RetriesUsedUp'
    BY <2>0, <2>t, <2>6 DEF Dlq!Settle, Dlq!At, RetriesUsedUp
  <2>7. ASSUME NEW batch, NEW completed,
               BatchResponds(batch) \/ BatchDies(batch, completed)
        PROVE  RetriesUsedUp'
    BY <2>6, <2>7 DEF BatchResponds, BatchDies
  <2>. QED BY <2>1, <2>2, <2>3, <2>4, <2>5, <2>7 DEF Next, Service
<1>. QED BY <1>1, <1>2, TypeCorrect, PTL DEF Spec

(* A parked event used up its attempts and its receipts, and is not in a   *)
(* batch any more.                                                         *)
THEOREM ParkedLast == Spec => []ParkedAfterEveryRetry
<1>1. TypeOK /\ RetriesUsedUp => ParkedAfterEveryRetry
  <2> SUFFICES ASSUME TypeOK, RetriesUsedUp,
                      NEW e \in Events, place[e] = "dead"
               PROVE  /\ attempts[e] = MaxAttempts
                      /\ receives[e] = Receipts(props)
                      /\ \A batch \in running : e \notin batch
    BY DEF ParkedAfterEveryRetry
  <2>1. attempts[e] = MaxAttempts /\ receives[e] = Receipts(props)
    BY DEF RetriesUsedUp
  <2>2. e \notin UNION running
    BY DEF TypeOK, Dlq!At
  <2>. QED BY <2>1, <2>2
<1>. QED BY <1>1, TypeCorrect, RetriesInvariant, PTL

-----------------------------------------------------------------------------
(* Events that wait in the queue of a function with default batches were   *)
(* never received if the function can handle them, and they are worked on  *)
(* alone.                                                                  *)
AloneInItsBatch ==
    props.dlq.retryBatchSize = NotSet =>
        \A e \in Events \ Poison :
            /\ place[e] \in {"unsent", "visible"} => receives[e] = 0
            /\ place[e] # "dead"
            /\ \A batch \in running : e \in batch => batch = {e}

LEMMA AtMostOne ==
    ASSUME NEW batch \in SUBSET Events, Cardinality(batch) <= 1, NEW e \in batch
    PROVE  batch = {e}
<1>1. IsFiniteSet(batch) /\ Cardinality(batch) \in Nat
  BY EventsAssumption, FS_Subset, FS_CardinalityType
<1>2. Cardinality(batch) = 1
  BY <1>1, FS_EmptySet
<1>. QED BY <1>1, <1>2, FS_Singleton

(* One poisonous event does not get healthy ones parked: with the default  *)
(* retryBatchSize each is received alone, and handled the first time.      *)
THEOREM HealthyHandled == Spec => []HealthyNeverParked
<1>1. Init => AloneInItsBatch
  BY DEF Init, AloneInItsBatch, Dlq!QueueInit
<1>2. TypeOK /\ AloneInItsBatch /\ [Next]_vars => AloneInItsBatch'
  <2> SUFFICES ASSUME TypeOK, AloneInItsBatch, [Next]_vars,
                      props'.dlq.retryBatchSize = NotSet,
                      NEW m \in Events \ Poison
               PROVE  /\ place'[m] \in {"unsent", "visible"} => receives'[m] = 0
                      /\ place'[m] # "dead"
                      /\ \A b \in running' : m \in b => b = {m}
    BY DEF AloneInItsBatch
  <2> DEFINE Goal == /\ place'[m] \in {"unsent", "visible"} => receives'[m] = 0
                     /\ place'[m] # "dead"
                     /\ \A b \in running' : m \in b => b = {m}
  <2>0. props' = props /\ Receipts(props) \in Nat \ {0}
    <3>1. props' = props
      BY DEF Next, Service, CreateLambdaFunction, Deploy, Invoke,
             AttemptSucceeds, AttemptFails, Poll, Park, BatchResponds,
             BatchDies, vars
    <3>. QED BY <3>1, ReceiptsType DEF TypeOK
  <2>t. /\ place \in [Events -> Dlq!Places] /\ receives \in [Events -> Nat]
        /\ running \subseteq SUBSET Events
    BY DEF TypeOK, Dlq!QueueTypeOK
  <2>m. /\ place[m] \in {"unsent", "visible"} => receives[m] = 0
        /\ place[m] # "dead"
        /\ \A b \in running : m \in b => b = {m}
    BY <2>0 DEF AloneInItsBatch
  <2>1. CASE CreateLambdaFunction \/ Deploy \/ UNCHANGED vars
    BY <2>m, <2>1, OtherSteps
  <2>2. ASSUME NEW e \in Events, Invoke(e) \/ AttemptSucceeds(e) PROVE Goal
    BY <2>m, <2>2, OtherSteps
  <2>3. ASSUME NEW e \in Events, AttemptFails(e) PROVE Goal
    BY <2>t, <2>m, <2>3 DEF AttemptFails, Dlq!Send, Dlq!Move
  <2>4. ASSUME NEW e \in Events, Park(e) PROVE Goal
    <3>1. place[e] = "visible" /\ receives[e] >= Receipts(props)
      BY <2>4, ConsumedQueue DEF Park, Dlq!Redrive, Dlq!Spent
    <3>2. e # m
      BY <2>0, <2>m, <3>1
    <3>. QED BY <2>t, <2>m, <2>4, <3>2 DEF Park, Dlq!Redrive, Dlq!Move
  <2>5. ASSUME NEW batch, Poll(batch) PROVE Goal
    <3>1. batch \in SUBSET Events /\ Cardinality(batch) <= 1
      <4>1. RetryBatchSize(props) = 1
        BY <2>0 DEF RetryBatchSize, Dlq!Coalesce
      <4>2. fn.batchSize = 1
        <5>1. fn.retries
          BY <2>5 DEF Poll
        <5>2. fn.batchSize = RetryBatchSize(props)
          BY <5>1, ConsumedQueue
        <5>. QED BY <4>1, <5>2
      <4>3. batch \subseteq Dlq!At("visible") /\ Cardinality(batch) <= fn.batchSize
        BY <2>5 DEF Poll, Dlq!Receive, Cardinality, Dlq!Cardinality
      <4>. QED BY <4>2, <4>3 DEF Dlq!At
    <3>2. m \in batch => batch = {m}
      BY <3>1, AtMostOne
    <3>. QED BY <2>t, <2>m, <2>5, <3>2 DEF Poll, Dlq!Receive, Dlq!Move
  <2>6. ASSUME NEW batch, BatchResponds(batch) PROVE Goal
    BY <2>t, <2>m, <2>6 DEF BatchResponds, Dlq!Settle, ReportBatchItemFailures
  <2>7. ASSUME NEW batch, NEW completed, BatchDies(batch, completed) PROVE Goal
    <3>1. m \notin batch
      BY <2>m, <2>7 DEF BatchDies
    <3>. QED BY <2>t, <2>m, <2>7, <3>1 DEF BatchDies, Dlq!Settle
  <2>. QED BY <2>1, <2>2, <2>3, <2>4, <2>5, <2>6, <2>7 DEF Next, Service
<1>3. AloneInItsBatch => HealthyNeverParked
  BY DEF AloneInItsBatch, HealthyNeverParked
<1>. QED BY <1>1, <1>2, <1>3, TypeCorrect, PTL DEF Spec
=============================================================================
