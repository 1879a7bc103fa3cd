------------------------- MODULE EventHandler_proofs ------------------------
(***************************************************************************)
(* What the methods of EventHandler and PipedEventHandler have put         *)
(* together after each of them, for any properties: the handler and the    *)
(* template are functions of the properties and of how many methods are    *)
(* left, from which the promises about a finished handler follow.  Then    *)
(* what becomes of the events of a piped handler, for any number of them,  *)
(* any pipes and any properties of queue and pipes.                        *)
(***************************************************************************)
EXTENDS PipedEventHandler, FiniteSetTheorems, SequenceTheorems, TLAPS

Methods == InitResources(props)

Names == {"createPipedQueue", "createSQSEventSource", "createWorkflow",
          "createEventRulePattern", "createEventRuleTargets",
          "resolveEventBus", "createEventArchive", "createEventRule",
          "createSqsToSfnPipe", "createSqsToLambdaPipe"}

(* The methods that are left are the last ones of the sequence.            *)
TodoIsSound ==
    /\ todo \in Seq(Names)
    /\ Len(todo) <= Len(Methods)
    /\ \A i \in 1..Len(todo) : todo[i] = Methods[Len(Methods) - Len(todo) + i]

(* The three sequences the methods are put together from.                  *)
LEMMA TheMethods ==
    ASSUME NEW S, "createPipedQueue" \in S, "createSQSEventSource" \in S,
           "createWorkflow" \in S, "createEventRulePattern" \in S,
           "createEventRuleTargets" \in S, "resolveEventBus" \in S,
           "createEventArchive" \in S, "createEventRule" \in S,
           "createSqsToSfnPipe" \in S, "createSqsToLambdaPipe" \in S
    PROVE  /\ HandlerMethods \in Seq(S) /\ <<"createPipedQueue">> \in Seq(S)
           /\ <<"createSqsToSfnPipe", "createSqsToLambdaPipe">> \in Seq(S)
<1>1. HandlerMethods \in [1..7 -> S]
  BY DEF HandlerMethods
<1>2. <<"createPipedQueue">> \in [1..1 -> S]
  OBVIOUS
<1>3. <<"createSqsToSfnPipe", "createSqsToLambdaPipe">> \in [1..2 -> S]
  OBVIOUS
<1>. QED BY <1>1, <1>2, <1>3, 1 \in Nat, 2 \in Nat, 7 \in Nat, SeqDef

(* All methods are known.                                                  *)
LEMMA MethodsType == Methods \in Seq(Names)
<1>1. CASE ~props.piped
  BY <1>1, TheMethods DEF Methods, InitResources, Names
<1>2. CASE props.piped
  <2>1. <<"createPipedQueue">> \o HandlerMethods \in Seq(Names)
    BY TheMethods, ConcatProperties DEF Names
  <2>2. (<<"createPipedQueue">> \o HandlerMethods)
          \o <<"createSqsToSfnPipe", "createSqsToLambdaPipe">> \in Seq(Names)
    BY <2>1, TheMethods, ConcatProperties DEF Names
  <2>. QED BY <1>2, <2>2 DEF Methods, InitResources
<1>. QED BY <1>1, <1>2

(* An event handler has the inherited seven.                               *)
LEMMA PlainMethods ==
    ASSUME ~props.piped
    PROVE  /\ Len(Methods) = 7
           /\ Methods[1] = "createSQSEventSource"
           /\ Methods[2] = "createWorkflow"
           /\ Methods[3] = "createEventRulePattern"
           /\ Methods[4] = "createEventRuleTargets"
           /\ Methods[5] = "resolveEventBus"
           /\ Methods[6] = "createEventArchive"
           /\ Methods[7] = "createEventRule"
BY DEF Methods, InitResources, HandlerMethods

(* A piped handler has one ahead of them and two behind.                   *)
LEMMA PipedMethods ==
    ASSUME props.piped
    PROVE  /\ Len(Methods) = 10
           /\ Methods[1] = "createPipedQueue"
           /\ Methods[2] = "createSQSEventSource"
           /\ Methods[3] = "createWorkflow"
           /\ Methods[4] = "createEventRulePattern"
           /\ Methods[5] = "createEventRuleTargets"
           /\ Methods[6] = "resolveEventBus"
           /\ Methods[7] = "createEventArchive"
           /\ Methods[8] = "createEventRule"
           /\ Methods[9] = "createSqsToSfnPipe"
           /\ Methods[10] = "createSqsToLambdaPipe"
BY DEF Methods, InitResources, HandlerMethods

(* Which of ten methods is called when n are left.                         *)
LEMMA PipedCall ==
    ASSUME props.piped, NEW n \in Nat \ {0}, n <= 10, NEW m, m = Methods[11 - n]
    PROVE  \/ n = 10 /\ m = "createPipedQueue"
           \/ n = 9 /\ m = "createSQSEventSource"
           \/ n = 8 /\ m = "createWorkflow"
           \/ n = 7 /\ m = "createEventRulePattern"
           \/ n = 6 /\ m = "createEventRuleTargets"
           \/ n = 5 /\ m = "resolveEventBus"
           \/ n = 4 /\ m = "createEventArchive"
           \/ n = 3 /\ m = "createEventRule"
           \/ n = 2 /\ m = "createSqsToSfnPipe"
           \/ n = 1 /\ m = "createSqsToLambdaPipe"
BY PipedMethods

(* Which of seven methods is called when n are left.                       *)
LEMMA PlainCall ==
    ASSUME ~props.piped, NEW n \in Nat \ {0}, n <= 7, NEW m, m = Methods[8 - n]
    PROVE  \/ n = 7 /\ m = "createSQSEventSource"
           \/ n = 6 /\ m = "createWorkflow"
           \/ n = 5 /\ m = "createEventRulePattern"
           \/ n = 4 /\ m = "createEventRuleTargets"
           \/ n = 3 /\ m = "resolveEventBus"
           \/ n = 2 /\ m = "createEventArchive"
           \/ n = 1 /\ m = "createEventRule"
BY PlainMethods

(* How many methods are left when one is called: the same with the piped   *)
(* handler's two at the end.                                               *)
Behind == IF props.piped THEN 2 ELSE 0

(* A call takes one method off, the one whose turn it is.                  *)
LEMMA WhenCalled ==
    ASSUME props \in PropsChoices, TodoIsSound, NEW method, Calls(method)
    PROVE  /\ TodoIsSound' /\ props' = props /\ Behind' = Behind /\ Behind \in {0, 2}
           /\ Len(todo) \in Nat \ {0} /\ Len(todo)' = Len(todo) - 1
           /\ method = "createPipedQueue" => props.piped /\ Len(todo) = 8 + Behind
           /\ method = "createSQSEventSource" => Len(todo) = 7 + Behind
           /\ method = "createWorkflow" => Len(todo) = 6 + Behind
           /\ method = "createEventRulePattern" => Len(todo) = 5 + Behind
           /\ method = "createEventRuleTargets" => Len(todo) = 4 + Behind
           /\ method = "resolveEventBus" => Len(todo) = 3 + Behind
           /\ method = "createEventArchive" => Len(todo) = 2 + Behind
           /\ method = "createEventRule" => Len(todo) = 1 + Behind
           /\ method = "createSqsToSfnPipe" => props.piped /\ Len(todo) = 2
           /\ method = "createSqsToLambdaPipe" => props.piped /\ Len(todo) = 1
<1>1. /\ props' = props /\ todo # <<>> /\ todo' = Tail(todo) /\ Head(todo) = method
      /\ Methods' = Methods /\ Behind' = Behind
  BY DEF Calls, Methods, Behind
<1>2. /\ Len(todo) \in Nat \ {0} /\ Len(todo)' = Len(todo) - 1
      /\ Head(todo) = todo[1]
      /\ todo' \in Seq(Names)
      /\ \A i \in 1..(Len(todo) - 1) : todo'[i] = todo[i + 1]
  BY <1>1 DEF TodoIsSound
<1>3. Len(Methods) \in Nat
  BY MethodsType
<1>4. TodoIsSound'
  <2>1. ASSUME NEW i \in 1..(Len(todo) - 1)
        PROVE  todo'[i] = Methods[Len(Methods) - (Len(todo) - 1) + i]
    BY <1>2, <1>3 DEF TodoIsSound
  <2>. QED BY <1>1, <1>2, <1>3, <2>1 DEF TodoIsSound
<1>5. method = Methods[Len(Methods) - Len(todo) + 1] /\ Len(todo) <= Len(Methods)
  BY <1>1, <1>2, <1>3 DEF TodoIsSound
<1>6. CASE props.piped
  <2> DEFINE n == Len(todo)
             k == Len(Methods)
  <2>1. n \in Nat \ {0} /\ n <= k /\ method = Methods[k - n + 1]
    BY <1>2, <1>5
  <2>2. k = 10
    BY <1>6, PipedMethods
  <2> HIDE DEF n, k
  <2>4. k - n + 1 = 11 - n
    BY <2>1, <2>2
  <2>5. n \in Nat \ {0} /\ n <= 10 /\ method = Methods[11 - n]
    BY <2>1, <2>2, <2>4
  <2>3. \/ n = 10 /\ method = "createPipedQueue"
        \/ n = 9 /\ method = "createSQSEventSource"
        \/ n = 8 /\ method = "createWorkflow"
        \/ n = 7 /\ method = "createEventRulePattern"
        \/ n = 6 /\ method = "createEventRuleTargets"
        \/ n = 5 /\ method = "resolveEventBus"
        \/ n = 4 /\ method = "createEventArchive"
        \/ n = 3 /\ method = "createEventRule"
        \/ n = 2 /\ method = "createSqsToSfnPipe"
        \/ n = 1 /\ method = "createSqsToLambdaPipe"
    BY <1>6, <2>5, PipedCall
  <2>. QED BY <1>1, <1>2, <1>4, <1>6, <2>3 DEF Behind, n
<1>7. CASE ~props.piped
  <2> DEFINE n == Len(todo)
             k == Len(Methods)
  <2>1. n \in Nat \ {0} /\ n <= k /\ method = Methods[k - n + 1]
    BY <1>2, <1>5
  <2>2. k = 7
    BY <1>7, PlainMethods
  <2> HIDE DEF n, k
  <2>4. k - n + 1 = 8 - n
    BY <2>1, <2>2
  <2>5. n \in Nat \ {0} /\ n <= 7 /\ method = Methods[8 - n]
    BY <2>1, <2>2, <2>4
  <2>3. \/ n = 7 /\ method = "createSQSEventSource"
        \/ n = 6 /\ method = "createWorkflow"
        \/ n = 5 /\ method = "createEventRulePattern"
        \/ n = 4 /\ method = "createEventRuleTargets"
        \/ n = 3 /\ method = "resolveEventBus"
        \/ n = 2 /\ method = "createEventArchive"
        \/ n = 1 /\ method = "createEventRule"
    BY <1>7, <2>5, PlainCall
  <2>. QED BY <1>1, <1>2, <1>4, <1>7, <2>3 DEF Behind, n
<1>. QED BY <1>6, <1>7
-----------------------------------------------------------------------------
(* The methods up to the rule's, by their distance to the end of the       *)
(* inherited sequence.                                                     *)
Past(k) == Len(todo) < k + Behind

(* A call passes its own place in the sequence and no other.               *)
LEMMA Passes ==
    ASSUME Len(todo) \in Nat, Len(todo)' = Len(todo) - 1,
           Behind' = Behind, Behind \in {0, 2},
           NEW j \in 1..8, Len(todo) = j + Behind
    PROVE  /\ \A k \in 1..8 : Past(k)' <=> Past(k) \/ k = j
           /\ \A k \in 1..8 : Past(k) <=> k > j
           /\ Len(todo) >= 1 + Behind
<1> DEFINE n == Len(todo)
<1>1. n \in Nat /\ n' = n - 1 /\ n = j + Behind
  OBVIOUS
<1> HIDE DEF n
<1>2. \A k \in 1..8 : (n - 1 < k + Behind) <=> (n < k + Behind) \/ k = j
  BY <1>1
<1>3. \A k \in 1..8 : (n < k + Behind) <=> k > j
  BY <1>1
<1>. QED BY <1>1, <1>2, <1>3 DEF Past, n

(* What the methods called so far have left in the handler.                *)
HandlerSoFar ==
    /\ {"queue", "rule", "rulePattern", "eventBus", "workflow",
        "lambdaFunctions", "lambdaTargets", "stepFunctionTargets",
        "sqsTargets", "targets"} \subseteq DOMAIN handler
    /\ handler.lambdaFunctions = IF props.piped THEN props.functions ELSE {}
    /\ handler.lambdaTargets = IF props.piped THEN {} ELSE props.functions
    /\ handler.sqsTargets = IF Past(7) /\ props.eventSqs THEN {"sqs-queue"}
                            ELSE IF Past(8) /\ props.piped THEN {"pipe-queue"}
                            ELSE {}
    /\ handler.workflow =
         IF Past(6) /\ props.workflow THEN "workflow" ELSE NotSet
    /\ handler.stepFunctionTargets =
         IF Past(6) /\ props.workflow /\ ~props.piped THEN {"workflow"} ELSE {}
    /\ handler.rulePattern = IF Past(5) /\ props.eventRule # NotSet
                               THEN props.eventRule.pattern ELSE NotSet
    /\ Past(4) => handler.targets = Targets
    /\ Past(3) => handler.eventBus = FormattedBus(props.eventBusName)

(* What they have left in the template.                                    *)
ArchiveOf(p) == [pattern |-> handler.rulePattern, bus |-> handler.eventBus]

ArchivesSoFar ==
    template.archives = IF Past(2) /\ Archives(props) THEN {ArchiveOf(props)} ELSE {}

RulesSoFar ==
    template.rules = IF Past(1) /\ props.eventRule # NotSet /\ ~RuleThrows(props)
                       THEN {RuleOf(props)} ELSE {}

SfnPipesSoFar ==
    IF props.piped /\ Len(todo) < 2 /\ HasSfnPipe
      THEN {SfnPipe(props.sqsToSfnPipe)} ELSE {}

LambdaPipesSoFar ==
    IF props.piped /\ Len(todo) < 1 /\ props.sqsToLambdaPipe # NotSet
      THEN {LambdaPipe(props.sqsToLambdaPipe, f) : f \in handler.lambdaFunctions}
      ELSE {}

TemplateSoFar ==
    /\ {"queues", "policies", "rules", "archives", "pipes"} \subseteq DOMAIN template
    /\ ArchivesSoFar /\ RulesSoFar
    /\ template.pipes = SfnPipesSoFar \union LambdaPipesSoFar

(* And how far the handler has come.                                       *)
BadRule(r) == r.pattern = NotSet /\ r.schedule = NotSet

StatusSoFar ==
    /\ status \in {"synth", "synthesised", "deployed", "failed"}
    /\ status # "failed" /\ Past(1) /\ props.eventRule # NotSet => ~RuleThrows(props)
    /\ status # "failed" /\ Finished => todo = <<>> /\ \A r \in template.rules : ~BadRule(r)
    /\ status = "deployed" => Deployable
    /\ status = "failed" =>
         \/ props.eventRule # NotSet /\ RuleThrows(props)
         \/ todo = <<>> /\ \E r \in template.rules : BadRule(r)
         \/ todo = <<>> /\ ~Deployable

SynthInv ==
    /\ props \in PropsChoices /\ TodoIsSound
    /\ HandlerSoFar /\ TemplateSoFar /\ StatusSoFar

(* A handler that was not put together yet has nothing.                    *)
LEMMA SynthEstablished == ASSUME SynthInit PROVE SynthInv
<1>1. props \in PropsChoices /\ todo = Methods /\ status = "synth"
      /\ handler = NewHandler(props) /\ template = NoResources
  BY DEF SynthInit, Methods
<1>2. props.piped \in BOOLEAN
  BY <1>1, PropsAssumption
<1>3. TodoIsSound
  <2> DEFINE n == Len(Methods)
  <2>1. n \in Nat
    BY MethodsType
  <2>2. todo \in Seq(Names) /\ Len(todo) = n
    BY <1>1, MethodsType
  <2> HIDE DEF n
  <2>3. \A i \in 1..n : n - n + i = i
    BY <2>1
  <2>. QED BY <1>1, <2>1, <2>2, <2>3 DEF TodoIsSound, n
<1>4. Len(todo) = IF props.piped THEN 10 ELSE 7
  BY <1>1, PlainMethods, PipedMethods
<1>5. /\ props.piped => Len(todo) = 10 /\ Behind = 2
      /\ ~props.piped => Len(todo) = 7 /\ Behind = 0
  BY <1>4 DEF Behind
<1>6. /\ \A k \in 1..7 : ~Past(k)
      /\ props.piped => ~Past(8)
  <2>1. CASE props.piped
    <3>1. /\ \A k \in 1..7 : ~(10 < k + 2)
          /\ ~(10 < 8 + 2)
      OBVIOUS
    <3>2. Len(todo) = 10 /\ Behind = 2
      BY <1>5, <2>1
    <3>. QED BY <3>1, <3>2 DEF Past
  <2>2. CASE ~props.piped
    <3>1. \A k \in 1..7 : ~(7 < k + 0)
      OBVIOUS
    <3>2. Len(todo) = 7 /\ Behind = 0
      BY <1>5, <2>2
    <3>. QED BY <2>2, <3>1, <3>2 DEF Past
  <2>. QED BY <2>1, <2>2
<1>7. HandlerSoFar
  BY <1>1, <1>2, <1>6 DEF HandlerSoFar, NewHandler
<1>8. TemplateSoFar
  <2>1. ArchivesSoFar /\ RulesSoFar
    BY <1>1, <1>6 DEF ArchivesSoFar, RulesSoFar, NoResources
  <2>2. ~(Len(todo) < 2) /\ ~(Len(todo) < 1)
    BY <1>2, <1>4
  <2>3. SfnPipesSoFar = {} /\ LambdaPipesSoFar = {}
    BY <2>2 DEF SfnPipesSoFar, LambdaPipesSoFar
  <2>. QED BY <1>1, <2>1, <2>3 DEF TemplateSoFar, NoResources
<1>9. StatusSoFar
  BY <1>1, <1>6 DEF StatusSoFar, Finished
<1>. QED BY <1>1, <1>3, <1>7, <1>8, <1>9 DEF SynthInv
-----------------------------------------------------------------------------
(* The methods ahead of the archive and the rule add neither, nor pipes.   *)
LEMMA EarlyCall ==
    ASSUME SynthInv, NEW method, Calls(method), status' = status,
           NEW j \in 3..8, Len(todo) = j + Behind,
           DOMAIN template' = DOMAIN template,
           template'.archives = template.archives,
           template'.rules = template.rules,
           template'.pipes = template.pipes
    PROVE  /\ props' = props /\ props' \in PropsChoices /\ TodoIsSound'
           /\ TemplateSoFar' /\ StatusSoFar'
           /\ \A k \in 1..8 : Past(k)' <=> Past(k) \/ k = j
           /\ \A k \in 1..8 : Past(k) <=> k > j
<1>1. /\ TodoIsSound' /\ props' = props /\ Behind' = Behind /\ Behind \in {0, 2}
      /\ Len(todo) \in Nat \ {0} /\ Len(todo)' = Len(todo) - 1
  BY WhenCalled DEF SynthInv
<1>2. /\ \A k \in 1..8 : Past(k)' <=> Past(k) \/ k = j
      /\ \A k \in 1..8 : Past(k) <=> k > j
  <2>1. Len(todo) \in Nat /\ j \in 1..8
    BY <1>1
  <2>. QED BY <1>1, <2>1, Passes
<1>3. ~Past(1) /\ ~Past(2) /\ ~Past(1)' /\ ~Past(2)'
  BY <1>2
<1>4. /\ ~(Len(todo) < 2) /\ ~(Len(todo)' < 2)
      /\ ~(Len(todo) < 1) /\ ~(Len(todo)' < 1)
  BY <1>1
<1>5. TemplateSoFar'
  <2>1. ArchivesSoFar' /\ RulesSoFar'
    BY <1>3 DEF SynthInv, TemplateSoFar, ArchivesSoFar, RulesSoFar
  <2>2. SfnPipesSoFar = {} /\ LambdaPipesSoFar = {}
    BY <1>4 DEF SfnPipesSoFar, LambdaPipesSoFar
  <2>3. SfnPipesSoFar' = {} /\ LambdaPipesSoFar' = {}
    BY <1>4 DEF SfnPipesSoFar, LambdaPipesSoFar
  <2>. QED BY <2>1, <2>2, <2>3 DEF SynthInv, TemplateSoFar
<1>6. status = "synth" /\ status' = "synth"
  BY DEF Calls
<1>7. StatusSoFar'
  BY <1>3, <1>6 DEF StatusSoFar, Finished
<1>. QED BY <1>1, <1>2, <1>5, <1>7 DEF SynthInv

(* The piped queue becomes the only queue among the targets.               *)
LEMMA PipedQueueStep == ASSUME SynthInv, CreatePipedQueue PROVE SynthInv'
<1>1. Calls("createPipedQueue") /\ props.piped /\ Len(todo) = 8 + Behind
  BY WhenCalled DEF SynthInv, CreatePipedQueue
<1>2. /\ props' = props /\ props' \in PropsChoices /\ TodoIsSound'
      /\ TemplateSoFar' /\ StatusSoFar'
      /\ \A k \in 1..8 : Past(k)' <=> Past(k) \/ k = 8
      /\ \A k \in 1..8 : Past(k) <=> k > 8
  BY <1>1, EarlyCall DEF SynthInv, TemplateSoFar, CreatePipedQueue
<1>3. HandlerSoFar'
  BY <1>1, <1>2 DEF SynthInv, HandlerSoFar, CreatePipedQueue
<1>. QED BY <1>2, <1>3 DEF SynthInv

(* The event queue replaces it.                                            *)
LEMMA SQSEventSourceStep == ASSUME SynthInv, CreateSQSEventSource PROVE SynthInv'
<1>1. Calls("createSQSEventSource") /\ Len(todo) = 7 + Behind
  BY WhenCalled DEF SynthInv, CreateSQSEventSource
<1>t. /\ DOMAIN template' = DOMAIN template
      /\ template'.archives = template.archives
      /\ template'.rules = template.rules
      /\ template'.pipes = template.pipes
      /\ status' = status
  <2>1. CASE ~props.eventSqs
    BY <2>1 DEF CreateSQSEventSource
  <2>2. CASE props.eventSqs
    BY <2>2 DEF CreateSQSEventSource, SynthInv, TemplateSoFar
  <2>. QED BY <2>1, <2>2
<1>2. /\ props' = props /\ props' \in PropsChoices /\ TodoIsSound'
      /\ TemplateSoFar' /\ StatusSoFar'
      /\ \A k \in 1..8 : Past(k)' <=> Past(k) \/ k = 7
      /\ \A k \in 1..8 : Past(k) <=> k > 7
  BY <1>1, <1>t, EarlyCall
<1>3. HandlerSoFar'
  <2>1. CASE ~props.eventSqs
    BY <1>2, <2>1 DEF SynthInv, HandlerSoFar, CreateSQSEventSource
  <2>2. CASE props.eventSqs
    <3>1. handler' = [handler EXCEPT !.queue = "sqs-queue",
                                     !.sqsTargets = {"sqs-queue"}]
      BY <2>2 DEF CreateSQSEventSource
    <3>. QED BY <1>2, <2>2, <3>1 DEF SynthInv, HandlerSoFar
  <2>. QED BY <2>1, <2>2
<1>. QED BY <1>2, <1>3 DEF SynthInv

(* The workflow is a target unless the handler is piped.                   *)
LEMMA WorkflowStep == ASSUME SynthInv, CreateWorkflow PROVE SynthInv'
<1>1. Calls("createWorkflow") /\ Len(todo) = 6 + Behind
  BY WhenCalled DEF SynthInv, CreateWorkflow
<1>2. /\ props' = props /\ props' \in PropsChoices /\ TodoIsSound'
      /\ TemplateSoFar' /\ StatusSoFar'
      /\ \A k \in 1..8 : Past(k)' <=> Past(k) \/ k = 6
      /\ \A k \in 1..8 : Past(k) <=> k > 6
  BY <1>1, EarlyCall DEF CreateWorkflow
<1>3. HandlerSoFar'
  <2>1. CASE ~props.workflow
    BY <1>2, <2>1 DEF SynthInv, HandlerSoFar, CreateWorkflow
  <2>2. CASE props.workflow
    <3>1. handler' = [handler EXCEPT
                        !.workflow = "workflow",
                        !.stepFunctionTargets =
                            IF ~props.piped THEN {"workflow"} ELSE @]
      BY <2>2 DEF CreateWorkflow, ProvisionTarget
    <3>. QED BY <1>2, <2>2, <3>1 DEF SynthInv, HandlerSoFar
  <2>. QED BY <2>1, <2>2
<1>. QED BY <1>2, <1>3 DEF SynthInv

(* The pattern is there before the archive and the rule.                   *)
LEMMA RulePatternStep == ASSUME SynthInv, CreateEventRulePattern PROVE SynthInv'
<1>1. Calls("createEventRulePattern") /\ Len(todo) = 5 + Behind
  BY WhenCalled DEF SynthInv, CreateEventRulePattern
<1>2. /\ props' = props /\ props' \in PropsChoices /\ TodoIsSound'
      /\ TemplateSoFar' /\ StatusSoFar'
      /\ \A k \in 1..8 : Past(k)' <=> Past(k) \/ k = 5
      /\ \A k \in 1..8 : Past(k) <=> k > 5
  BY <1>1, EarlyCall DEF CreateEventRulePattern
<1>3. HandlerSoFar'
  BY <1>1, <1>2 DEF SynthInv, HandlerSoFar, CreateEventRulePattern
<1>. QED BY <1>2, <1>3 DEF SynthInv

(* The targets are collected after every method that sets one.             *)
LEMMA RuleTargetsStep == ASSUME SynthInv, CreateEventRuleTargets PROVE SynthInv'
<1>1. Calls("createEventRuleTargets") /\ Len(todo) = 4 + Behind
  BY WhenCalled DEF SynthInv, CreateEventRuleTargets
<1>2. /\ props' = props /\ props' \in PropsChoices /\ TodoIsSound'
      /\ TemplateSoFar' /\ StatusSoFar'
      /\ \A k \in 1..8 : Past(k)' <=> Past(k) \/ k = 4
      /\ \A k \in 1..8 : Past(k) <=> k > 4
  BY <1>1, EarlyCall DEF CreateEventRuleTargets
<1>3. HandlerSoFar'
  BY <1>1, <1>2 DEF SynthInv, HandlerSoFar, CreateEventRuleTargets, Targets
<1>. QED BY <1>2, <1>3 DEF SynthInv

(* The bus is named before the archive.                                    *)
LEMMA EventBusStep == ASSUME SynthInv, ResolveEventBus PROVE SynthInv'
<1>1. Calls("resolveEventBus") /\ Len(todo) = 3 + Behind
  BY WhenCalled DEF SynthInv, ResolveEventBus
<1>2. /\ props' = props /\ props' \in PropsChoices /\ TodoIsSound'
      /\ TemplateSoFar' /\ StatusSoFar'
      /\ \A k \in 1..8 : Past(k)' <=> Past(k) \/ k = 3
      /\ \A k \in 1..8 : Past(k) <=> k > 3
  BY <1>1, EarlyCall DEF ResolveEventBus
<1>3. HandlerSoFar'
  BY <1>1, <1>2 DEF SynthInv, HandlerSoFar, ResolveEventBus, Targets
<1>. QED BY <1>2, <1>3 DEF SynthInv
-----------------------------------------------------------------------------
(* From the archive on the handler only gets its rule.                     *)
LEMMA SameHandler ==
    ASSUME HandlerSoFar, props' = props, NEW r,
           handler' = handler \/ handler' = [handler EXCEPT !.rule = r],
           \A k \in 3..8 : Past(k)' <=> Past(k)
    PROVE  /\ HandlerSoFar' /\ Targets' = Targets
           /\ handler'.rulePattern = handler.rulePattern
           /\ handler'.eventBus = handler.eventBus
           /\ handler'.workflow = handler.workflow
           /\ handler'.lambdaFunctions = handler.lambdaFunctions
           /\ handler'.targets = handler.targets
<1>1. /\ DOMAIN handler' = DOMAIN handler
      /\ \A f \in DOMAIN handler : f # "rule" => handler'[f] = handler[f]
  OBVIOUS
<1>2. /\ handler'.lambdaTargets = handler.lambdaTargets
      /\ handler'.stepFunctionTargets = handler.stepFunctionTargets
      /\ handler'.sqsTargets = handler.sqsTargets
      /\ handler'.rulePattern = handler.rulePattern
      /\ handler'.eventBus = handler.eventBus
      /\ handler'.workflow = handler.workflow
      /\ handler'.lambdaFunctions = handler.lambdaFunctions
      /\ handler'.targets = handler.targets
  BY <1>1 DEF HandlerSoFar
<1>3. Targets' = Targets
  BY <1>2 DEF Targets
<1>. QED BY <1>1, <1>2, <1>3 DEF HandlerSoFar

(* The archive and the rule stay what they are while the handler does.     *)
LEMMA SameRecords ==
    ASSUME props' = props, handler'.rulePattern = handler.rulePattern,
           handler'.eventBus = handler.eventBus,
           handler'.targets = handler.targets,
           handler'.workflow = handler.workflow
    PROVE  /\ ArchiveOf(props)' = ArchiveOf(props) /\ RuleOf(props)' = RuleOf(props)
           /\ Archives(props)' = Archives(props)
           /\ RuleThrows(props)' = RuleThrows(props)
           /\ HasSfnPipe' = HasSfnPipe
           /\ SfnPipe(props.sqsToSfnPipe)' = SfnPipe(props.sqsToSfnPipe)
BY DEF ArchiveOf, RuleOf, Archives, RuleThrows, HasSfnPipe, SfnPipe, Pipe,
    InvocationType, Coalesce

(* There is no pipe yet when the archive and the rule are created.         *)
LEMMA NoPipesYet ==
    ASSUME props.piped \in BOOLEAN, Behind' = Behind, props' = props,
           NEW j \in {1, 2}, Len(todo) = j + Behind, Len(todo)' = Len(todo) - 1
    PROVE  /\ SfnPipesSoFar' = SfnPipesSoFar
           /\ LambdaPipesSoFar' = LambdaPipesSoFar
<1>1. CASE props.piped
  <2>1. /\ ~(Len(todo) < 2) /\ ~(Len(todo)' < 2)
        /\ ~(Len(todo) < 1) /\ ~(Len(todo)' < 1)
    BY <1>1 DEF Behind
  <2>2. /\ SfnPipesSoFar = {} /\ LambdaPipesSoFar = {}
        /\ SfnPipesSoFar' = {} /\ LambdaPipesSoFar' = {}
    BY <2>1 DEF SfnPipesSoFar, LambdaPipesSoFar
  <2>. QED BY <2>2
<1>2. CASE ~props.piped
  BY <1>2 DEF SfnPipesSoFar, LambdaPipesSoFar
<1>. QED BY <1>1, <1>2

(* The archive gets the pattern and the bus the handler has by then.       *)
LEMMA ArchiveStep == ASSUME SynthInv, CreateEventArchive PROVE SynthInv'
<1>1. /\ Calls("createEventArchive") /\ Len(todo) = 2 + Behind
      /\ TodoIsSound' /\ props' = props /\ Behind' = Behind /\ Behind \in {0, 2}
      /\ Len(todo) \in Nat \ {0} /\ Len(todo)' = Len(todo) - 1
  BY WhenCalled DEF SynthInv, CreateEventArchive
<1>2. /\ \A k \in 1..8 : Past(k)' <=> Past(k) \/ k = 2
      /\ \A k \in 1..8 : Past(k) <=> k > 2
  BY <1>1, Passes
<1>3. handler' = handler /\ status' = status /\ status = "synth"
  BY DEF CreateEventArchive, Calls
<1>4. HandlerSoFar'
  BY <1>1, <1>2, <1>3, SameHandler DEF SynthInv
<1>5. TemplateSoFar'
  <2>1. /\ DOMAIN template' = DOMAIN template
        /\ template'.rules = template.rules
        /\ template'.pipes = template.pipes
        /\ template'.archives =
             template.archives \union IF Archives(props) THEN {ArchiveOf(props)} ELSE {}
    <3>1. CASE ~Archives(props)
      BY <3>1 DEF CreateEventArchive
    <3>2. CASE Archives(props)
      BY <3>2 DEF CreateEventArchive, ArchiveOf, SynthInv, TemplateSoFar
    <3>. QED BY <3>1, <3>2
  <2>2. template.archives = {} /\ template.rules = {}
    BY <1>2 DEF SynthInv, TemplateSoFar, ArchivesSoFar, RulesSoFar
  <2>3. ArchivesSoFar'
    <3>1. template'.archives = IF Archives(props) THEN {ArchiveOf(props)} ELSE {}
      BY <2>1, <2>2
    <3>2. ArchiveOf(props)' = ArchiveOf(props) /\ Archives(props)' = Archives(props)
      BY <1>1, <1>3, SameRecords
    <3>. QED BY <1>2, <3>1, <3>2 DEF ArchivesSoFar
  <2>4. RulesSoFar'
    BY <1>2, <2>1, <2>2 DEF RulesSoFar
  <2>5. SfnPipesSoFar' = SfnPipesSoFar /\ LambdaPipesSoFar' = LambdaPipesSoFar
    BY <1>1, NoPipesYet, PropsAssumption DEF SynthInv
  <2>. QED BY <2>1, <2>3, <2>4, <2>5 DEF SynthInv, TemplateSoFar
<1>6. StatusSoFar'
  BY <1>2, <1>3 DEF StatusSoFar, Finished
<1>. QED BY <1>1, <1>4, <1>5, <1>6 DEF SynthInv

(* The rule is created or throws.                                          *)
LEMMA RuleStep == ASSUME SynthInv, CreateEventRule PROVE SynthInv'
<1>1. /\ Calls("createEventRule") /\ Len(todo) = 1 + Behind
      /\ TodoIsSound' /\ props' = props /\ Behind' = Behind /\ Behind \in {0, 2}
      /\ Len(todo) \in Nat \ {0} /\ Len(todo)' = Len(todo) - 1
  BY WhenCalled DEF SynthInv, CreateEventRule
<1>2. /\ \A k \in 1..8 : Past(k)' <=> Past(k) \/ k = 1
      /\ \A k \in 1..8 : Past(k) <=> k > 1
  BY <1>1, Passes
<1>3. handler' = handler \/ handler' = [handler EXCEPT !.rule = "rule"]
  BY DEF CreateEventRule
<1>4. /\ HandlerSoFar'
      /\ handler'.rulePattern = handler.rulePattern
      /\ handler'.eventBus = handler.eventBus
      /\ handler'.workflow = handler.workflow
      /\ handler'.targets = handler.targets
  BY <1>1, <1>2, <1>3, SameHandler DEF SynthInv
<1>5. /\ ArchiveOf(props)' = ArchiveOf(props) /\ RuleOf(props)' = RuleOf(props)
      /\ Archives(props)' = Archives(props)
      /\ RuleThrows(props)' = RuleThrows(props)
  BY <1>1, <1>4, SameRecords
<1>6. TemplateSoFar'
  <2> DEFINE added == IF props.eventRule # NotSet /\ ~RuleThrows(props)
                        THEN {RuleOf(props)} ELSE {}
  <2>1. /\ DOMAIN template' = DOMAIN template
        /\ template'.archives = template.archives
        /\ template'.pipes = template.pipes
        /\ template'.rules = template.rules \union added
    <3>1. CASE props.eventRule = NotSet \/ RuleThrows(props)
      BY <3>1 DEF CreateEventRule
    <3>2. CASE props.eventRule # NotSet /\ ~RuleThrows(props)
      <4>1. template' = [template EXCEPT !.rules = @ \union {RuleOf(props)}]
        BY <3>2 DEF CreateEventRule
      <4>. QED BY <3>2, <4>1 DEF SynthInv, TemplateSoFar
    <3>. QED BY <3>1, <3>2
  <2>2. template.rules = {}
    BY <1>2 DEF SynthInv, TemplateSoFar, RulesSoFar
  <2>3. RulesSoFar'
    BY <1>1, <1>2, <1>5, <2>1, <2>2 DEF RulesSoFar
  <2>4. ArchivesSoFar'
    BY <1>1, <1>2, <1>5, <2>1 DEF SynthInv, TemplateSoFar, ArchivesSoFar
  <2>5. SfnPipesSoFar' = SfnPipesSoFar /\ LambdaPipesSoFar' = LambdaPipesSoFar
    BY <1>1, NoPipesYet, PropsAssumption DEF SynthInv
  <2>. QED BY <2>1, <2>3, <2>4, <2>5 DEF SynthInv, TemplateSoFar
<1>7. StatusSoFar'
  <2>1. status = "synth" /\ (status' = "synth" \/ status' = "failed")
    BY DEF CreateEventRule, Calls
  <2>2. /\ status' = "synth" => props.eventRule = NotSet \/ ~RuleThrows(props)
        /\ status' = "failed" => props.eventRule # NotSet /\ RuleThrows(props)
    BY <2>1 DEF CreateEventRule
  <2>. QED BY <1>1, <1>5, <2>1, <2>2 DEF StatusSoFar, Finished
<1>. QED BY <1>1, <1>4, <1>6, <1>7 DEF SynthInv
-----------------------------------------------------------------------------
(* The pipes' methods come last, and leave the rule and its archive alone. *)
LEMMA PipesCall ==
    ASSUME SynthInv, NEW method, Calls(method), props.piped, Len(todo) \in {1, 2},
           handler' = handler, status' = status,
           DOMAIN template' = DOMAIN template,
           template'.archives = template.archives,
           template'.rules = template.rules
    PROVE  /\ props' = props /\ props' \in PropsChoices /\ TodoIsSound'
           /\ HandlerSoFar' /\ ArchivesSoFar' /\ RulesSoFar' /\ StatusSoFar'
           /\ Len(todo)' = Len(todo) - 1
           /\ HasSfnPipe' = HasSfnPipe
           /\ SfnPipe(props.sqsToSfnPipe)' = SfnPipe(props.sqsToSfnPipe)
<1>1. /\ TodoIsSound' /\ props' = props /\ Behind' = Behind
      /\ Len(todo)' = Len(todo) - 1
  BY WhenCalled DEF SynthInv
<1>2. Behind = 2
  BY DEF Behind
<1>3. \A k \in 1..8 : Past(k) /\ Past(k)'
  <2>1. \A k \in 1..8 : 2 < k + 2 /\ 1 < k + 2 /\ 0 < k + 2
    OBVIOUS
  <2>2. CASE Len(todo) = 1
    <3>1. Len(todo)' = 0
      BY <1>1, <2>2
    <3>. QED BY <1>1, <1>2, <2>1, <2>2, <3>1 DEF Past
  <2>3. CASE Len(todo) = 2
    <3>1. Len(todo)' = 1
      BY <1>1, <2>3
    <3>. QED BY <1>1, <1>2, <2>1, <2>3, <3>1 DEF Past
  <2>. QED BY <2>2, <2>3
<1>4. /\ HandlerSoFar'
      /\ handler'.rulePattern = handler.rulePattern
      /\ handler'.eventBus = handler.eventBus
      /\ handler'.workflow = handler.workflow
      /\ handler'.targets = handler.targets
  BY <1>1, <1>3, SameHandler DEF SynthInv
<1>5. /\ ArchiveOf(props)' = ArchiveOf(props) /\ RuleOf(props)' = RuleOf(props)
      /\ Archives(props)' = Archives(props)
      /\ RuleThrows(props)' = RuleThrows(props)
      /\ HasSfnPipe' = HasSfnPipe
      /\ SfnPipe(props.sqsToSfnPipe)' = SfnPipe(props.sqsToSfnPipe)
  BY <1>1, <1>4, SameRecords
<1>6. ArchivesSoFar' /\ RulesSoFar'
  BY <1>1, <1>3, <1>5 DEF SynthInv, TemplateSoFar, ArchivesSoFar, RulesSoFar
<1>7. status = "synth"
  BY DEF Calls
<1>8. StatusSoFar'
  BY <1>1, <1>3, <1>5, <1>7 DEF SynthInv, StatusSoFar, Finished
<1>. QED BY <1>1, <1>4, <1>5, <1>6, <1>8 DEF SynthInv

(* The workflow's pipe is added if there is a workflow.                    *)
LEMMA SfnPipeStep == ASSUME SynthInv, CreateSqsToSfnPipe PROVE SynthInv'
<1>1. Calls("createSqsToSfnPipe") /\ props.piped /\ Len(todo) = 2
  BY WhenCalled DEF SynthInv, CreateSqsToSfnPipe
<1>2. /\ DOMAIN template' = DOMAIN template
      /\ template'.archives = template.archives
      /\ template'.rules = template.rules
      /\ template'.pipes = template.pipes \union
           IF HasSfnPipe THEN {SfnPipe(props.sqsToSfnPipe)} ELSE {}
  <2>1. CASE ~HasSfnPipe
    BY <2>1 DEF CreateSqsToSfnPipe
  <2>2. CASE HasSfnPipe
    <3>1. template' = [template EXCEPT
                         !.pipes = @ \union {SfnPipe(props.sqsToSfnPipe)}]
      BY <2>2 DEF CreateSqsToSfnPipe
    <3>. QED BY <2>2, <3>1 DEF SynthInv, TemplateSoFar
  <2>. QED BY <2>1, <2>2
<1>3. handler' = handler /\ status' = status
  BY DEF CreateSqsToSfnPipe
<1>4. /\ props' = props /\ props' \in PropsChoices /\ TodoIsSound'
      /\ HandlerSoFar' /\ ArchivesSoFar' /\ RulesSoFar' /\ StatusSoFar'
      /\ Len(todo)' = Len(todo) - 1
      /\ HasSfnPipe' = HasSfnPipe
      /\ SfnPipe(props.sqsToSfnPipe)' = SfnPipe(props.sqsToSfnPipe)
  BY <1>1, <1>2, <1>3, PipesCall
<1>5. SfnPipesSoFar = {} /\ LambdaPipesSoFar = {} /\ LambdaPipesSoFar' = {}
  BY <1>1, <1>4 DEF SfnPipesSoFar, LambdaPipesSoFar
<1>6. SfnPipesSoFar' = IF HasSfnPipe THEN {SfnPipe(props.sqsToSfnPipe)} ELSE {}
  BY <1>1, <1>4 DEF SfnPipesSoFar
<1>7. TemplateSoFar'
  BY <1>2, <1>4, <1>5, <1>6 DEF SynthInv, TemplateSoFar
<1>. QED BY <1>4, <1>7 DEF SynthInv

(* So is one for each of the functions.                                    *)
LEMMA LambdaPipeStep == ASSUME SynthInv, CreateSqsToLambdaPipe PROVE SynthInv'
<1> DEFINE pipes == {LambdaPipe(props.sqsToLambdaPipe, f) :
                       f \in handler.lambdaFunctions}
<1>1. Calls("createSqsToLambdaPipe") /\ props.piped /\ Len(todo) = 1
  BY WhenCalled DEF SynthInv, CreateSqsToLambdaPipe
<1>2. /\ DOMAIN template' = DOMAIN template
      /\ template'.archives = template.archives
      /\ template'.rules = template.rules
      /\ template'.pipes = template.pipes \union
           IF props.sqsToLambdaPipe # NotSet THEN pipes ELSE {}
  <2>1. CASE props.sqsToLambdaPipe = NotSet
    BY <2>1 DEF CreateSqsToLambdaPipe
  <2>2. CASE props.sqsToLambdaPipe # NotSet
    <3>1. template' = [template EXCEPT !.pipes = @ \union pipes]
      BY <2>2 DEF CreateSqsToLambdaPipe
    <3> HIDE DEF pipes
    <3>. QED BY <2>2, <3>1 DEF SynthInv, TemplateSoFar
  <2>. QED BY <2>1, <2>2
<1>3. handler' = handler /\ status' = status
  BY DEF CreateSqsToLambdaPipe
<1>4. /\ props' = props /\ props' \in PropsChoices /\ TodoIsSound'
      /\ HandlerSoFar' /\ ArchivesSoFar' /\ RulesSoFar' /\ StatusSoFar'
      /\ Len(todo)' = 0
      /\ HasSfnPipe' = HasSfnPipe
      /\ SfnPipe(props.sqsToSfnPipe)' = SfnPipe(props.sqsToSfnPipe)
  BY <1>1, <1>2, <1>3, PipesCall
<1>5. SfnPipesSoFar' = SfnPipesSoFar /\ LambdaPipesSoFar = {}
  BY <1>1, <1>4 DEF SfnPipesSoFar, LambdaPipesSoFar
<1>6. pipes' = pipes
  BY <1>3, <1>4 DEF LambdaPipe, Pipe
<1>7. LambdaPipesSoFar' = IF props.sqsToLambdaPipe # NotSet THEN pipes ELSE {}
  <2>1. LambdaPipesSoFar' = IF props.sqsToLambdaPipe # NotSet THEN pipes' ELSE {}
    BY <1>1, <1>4 DEF LambdaPipesSoFar
  <2> HIDE DEF pipes
  <2>. QED BY <1>6, <2>1
<1> HIDE DEF pipes
<1>8. TemplateSoFar'
  BY <1>2, <1>4, <1>5, <1>7 DEF SynthInv, TemplateSoFar
<1>. QED BY <1>4, <1>8 DEF SynthInv

(* While only the status changes.                                          *)
LEMMA OnlyStatus ==
    ASSUME SynthInv, UNCHANGED <<props, todo, handler, template>>
    PROVE  /\ props' \in PropsChoices /\ TodoIsSound' /\ HandlerSoFar' /\ TemplateSoFar'
           /\ (\A k \in 1..8 : Past(k)' <=> Past(k))
           /\ Deployable' = Deployable /\ RuleThrows(props)' = RuleThrows(props)
<1>1. Behind' = Behind /\ Methods' = Methods
  BY DEF Behind, Methods
<1>2. \A k \in 1..8 : Past(k)' <=> Past(k)
  BY <1>1 DEF Past
<1>3. TodoIsSound'
  BY <1>1 DEF SynthInv, TodoIsSound
<1>4. HandlerSoFar'
  BY <1>2, SameHandler DEF SynthInv
<1>5. TemplateSoFar'
  <2>1. /\ ArchiveOf(props)' = ArchiveOf(props) /\ RuleOf(props)' = RuleOf(props)
        /\ Archives(props)' = Archives(props)
        /\ RuleThrows(props)' = RuleThrows(props)
        /\ HasSfnPipe' = HasSfnPipe
        /\ SfnPipe(props.sqsToSfnPipe)' = SfnPipe(props.sqsToSfnPipe)
    BY SameRecords
  <2>2. LambdaPipesSoFar' = LambdaPipesSoFar
    BY DEF LambdaPipesSoFar, LambdaPipe, Pipe
  <2>3. SfnPipesSoFar' = SfnPipesSoFar
    BY <2>1 DEF SfnPipesSoFar
  <2>4. ArchivesSoFar' /\ RulesSoFar'
    BY <1>2, <2>1 DEF SynthInv, TemplateSoFar, ArchivesSoFar, RulesSoFar
  <2>. QED BY <2>2, <2>3, <2>4 DEF SynthInv, TemplateSoFar
<1>6. Deployable' = Deployable /\ RuleThrows(props)' = RuleThrows(props)
  BY DEF Deployable, RuleThrows
<1>. QED BY <1>2, <1>3, <1>4, <1>5, <1>6 DEF SynthInv

(* Synthesis fails on a rule without pattern and schedule.                 *)
LEMMA SynthesiseStep == ASSUME SynthInv, Synthesise PROVE SynthInv'
<1>1. /\ status = "synth" /\ todo = <<>>
      /\ UNCHANGED <<props, todo, handler, template>>
      /\ status' = IF \E r \in template.rules : BadRule(r)
                     THEN "failed" ELSE "synthesised"
  BY DEF Synthesise, BadRule
<1>2. StatusSoFar'
  <2>1. (\A k \in 1..8 : Past(k)' <=> Past(k)) /\ RuleThrows(props)' = RuleThrows(props)
    BY <1>1, OnlyStatus
  <2>2. \A r : BadRule(r)' = BadRule(r)
    BY DEF BadRule
  <2>. QED BY <1>1, <2>1, <2>2 DEF SynthInv, StatusSoFar, Finished
<1>. QED BY <1>1, <1>2, OnlyStatus DEF SynthInv

(* Deployment fails on what CloudFormation refuses.                        *)
LEMMA DeployStep == ASSUME SynthInv, Deploy PROVE SynthInv'
<1>1. /\ status = "synthesised"
      /\ UNCHANGED <<props, todo, handler, template>>
      /\ status' = IF Deployable THEN "deployed" ELSE "failed"
  BY DEF Deploy
<1>2. StatusSoFar'
  <2>1. /\ \A k \in 1..8 : Past(k)' <=> Past(k)
        /\ RuleThrows(props)' = RuleThrows(props) /\ Deployable' = Deployable
    BY <1>1, OnlyStatus
  <2>2. \A r : BadRule(r)' = BadRule(r)
    BY DEF BadRule
  <2>. QED BY <1>1, <2>1, <2>2 DEF SynthInv, StatusSoFar, Finished
<1>. QED BY <1>1, <1>2, OnlyStatus DEF SynthInv

(* Nothing changes by itself.                                              *)
LEMMA NoSynthStep == ASSUME SynthInv, UNCHANGED synthVars PROVE SynthInv'
<1>1. UNCHANGED <<props, todo, status, handler, template>>
  BY DEF synthVars
<1>2. StatusSoFar'
  <2>1. /\ \A k \in 1..8 : Past(k)' <=> Past(k)
        /\ RuleThrows(props)' = RuleThrows(props) /\ Deployable' = Deployable
    BY <1>1, OnlyStatus
  <2>2. \A r : BadRule(r)' = BadRule(r)
    BY DEF BadRule
  <2>. QED BY <1>1, <2>1, <2>2 DEF SynthInv, StatusSoFar, Finished
<1>. QED BY <1>1, <1>2, OnlyStatus DEF SynthInv

(* The methods keep the handler and the template what they say.            *)
LEMMA SynthInvariant == SynthSpec => []SynthInv
<1>1. SynthInit => SynthInv
  BY SynthEstablished
<1>2. SynthInv /\ [SynthNext]_synthVars => SynthInv'
  BY PipedQueueStep, SQSEventSourceStep, WorkflowStep, RulePatternStep,
     RuleTargetsStep, EventBusStep, ArchiveStep, RuleStep, SfnPipeStep,
     LambdaPipeStep, SynthesiseStep, DeployStep, NoSynthStep
  DEF SynthNext
<1>. QED BY <1>1, <1>2, PTL DEF SynthSpec
-----------------------------------------------------------------------------
(* What there is when the last method has returned.                        *)
TheRules ==
    IF props.eventRule # NotSet /\ ~RuleThrows(props) THEN {RuleOf(props)} ELSE {}
TheArchives == IF Archives(props) THEN {ArchiveOf(props)} ELSE {}
ThePipes ==
    (IF props.piped /\ HasSfnPipe THEN {SfnPipe(props.sqsToSfnPipe)} ELSE {})
    \union (IF props.piped /\ props.sqsToLambdaPipe # NotSet
              THEN {LambdaPipe(props.sqsToLambdaPipe, f) : f \in props.functions}
              ELSE {})

(* What a handler and its template are when the last method returned.      *)
LEMMA Completed ==
    ASSUME SynthInv, todo = <<>>
    PROVE  /\ template.rules = TheRules /\ template.archives = TheArchives
           /\ template.pipes = ThePipes
           /\ handler.targets = Targets
           /\ handler.eventBus = FormattedBus(props.eventBusName)
           /\ props.eventRule # NotSet => handler.rulePattern = props.eventRule.pattern
           /\ handler.lambdaTargets = IF props.piped THEN {} ELSE props.functions
           /\ handler.sqsTargets = IF props.eventSqs THEN {"sqs-queue"}
                                   ELSE IF props.piped THEN {"pipe-queue"} ELSE {}
           /\ props.piped => handler.stepFunctionTargets = {}
<1>1. Len(todo) = 0 /\ Behind \in {0, 2}
  BY DEF Behind
<1>2. \A k \in 1..8 : Past(k)
  BY <1>1 DEF Past
<1>3. Len(todo) < 1 /\ Len(todo) < 2
  BY <1>1
<1>4. template.rules = TheRules /\ template.archives = TheArchives
  BY <1>2 DEF SynthInv, TemplateSoFar, RulesSoFar, ArchivesSoFar, TheRules, TheArchives
<1>5. template.pipes = ThePipes
  <2>1. SfnPipesSoFar = IF props.piped /\ HasSfnPipe
                          THEN {SfnPipe(props.sqsToSfnPipe)} ELSE {}
    BY <1>3 DEF SfnPipesSoFar
  <2>2. LambdaPipesSoFar = IF props.piped /\ props.sqsToLambdaPipe # NotSet
              THEN {LambdaPipe(props.sqsToLambdaPipe, f) : f \in props.functions}
              ELSE {}
    <3>1. CASE ~props.piped
      BY <3>1 DEF LambdaPipesSoFar
    <3>2. CASE props.piped
      <4>1. handler.lambdaFunctions = props.functions
        BY <3>2 DEF SynthInv, HandlerSoFar
      <4>. QED BY <1>3, <3>2, <4>1 DEF LambdaPipesSoFar
    <3>. QED BY <3>1, <3>2
  <2>. QED BY <2>1, <2>2 DEF ThePipes, SynthInv, TemplateSoFar
<1>6. /\ handler.targets = Targets
      /\ handler.eventBus = FormattedBus(props.eventBusName)
      /\ props.eventRule # NotSet => handler.rulePattern = props.eventRule.pattern
      /\ handler.lambdaTargets = IF props.piped THEN {} ELSE props.functions
      /\ handler.sqsTargets = IF props.eventSqs THEN {"sqs-queue"}
                              ELSE IF props.piped THEN {"pipe-queue"} ELSE {}
      /\ props.piped => handler.stepFunctionTargets = {}
  BY <1>2 DEF SynthInv, HandlerSoFar
<1>. QED BY <1>4, <1>5, <1>6

(* Whatever a handler provisions for its events is reached by them, and by *)
(* one way, whichever methods overwrite what others left.                  *)
THEOREM OneRoute == SynthSpec => []EventsTakeOneRoute
<1>1. SynthInv => EventsTakeOneRoute
  <2> SUFFICES ASSUME SynthInv, Finished PROVE EventsTakeOneRoute
    BY DEF EventsTakeOneRoute, RuleHasEveryTarget, OneRouteToTheWorkflow,
           PipesAreFedUnlessReplaced
  <2>1. todo = <<>> /\ props \in PropsChoices
    BY DEF SynthInv, StatusSoFar, Finished
  <2>2. \A r \in template.rules : r.targets = Targets
    BY <2>1, Completed DEF TheRules, RuleOf
  <2>3. OneRouteToTheWorkflow
    <3>1. template.pipes # {} => props.piped
      BY <2>1, Completed DEF ThePipes
    <3>2. props.piped => "workflow" \notin Targets
      BY <2>1, Completed DEF Targets
    <3>. QED BY <2>2, <3>1, <3>2 DEF OneRouteToTheWorkflow
  <2>4. PipesAreFedUnlessReplaced
    <3>1. CASE props.piped
      <4>1. Targets = IF props.eventSqs THEN {"sqs-queue"} ELSE {"pipe-queue"}
        BY <2>1, <3>1, Completed DEF Targets
      <4>. QED BY <2>2, <4>1 DEF PipesAreFedUnlessReplaced
    <3>2. CASE ~props.piped
      BY <3>2 DEF PipesAreFedUnlessReplaced
    <3>. QED BY <3>1, <3>2
  <2>. QED BY <2>2, <2>3, <2>4 DEF EventsTakeOneRoute, RuleHasEveryTarget
<1>. QED BY <1>1, SynthInvariant, PTL

(* A deployed archive records what a rule of the handler matches.          *)
THEOREM ArchivedAsMatched == SynthSpec => []ArchiveRecordsTheRule
<1>1. SynthInv => ArchiveRecordsTheRule
  <2> SUFFICES ASSUME SynthInv, status = "deployed", NEW a \in template.archives
               PROVE  \E r \in template.rules :
                        r.pattern = a.pattern /\ r.bus = a.bus /\ r.schedule = NotSet
    BY DEF ArchiveRecordsTheRule
  <2>1. todo = <<>> /\ Deployable
    BY DEF SynthInv, StatusSoFar, Finished
  <2>2. Archives(props) /\ a = ArchiveOf(props)
    BY <2>1, Completed DEF TheArchives
  <2>3. props.eventRule # NotSet /\ props.eventRuleSchedule = NotSet
    BY <2>2 DEF Archives
  <2>4. RuleOf(props) \in template.rules
    BY <2>1, <2>3, Completed DEF TheRules, RuleThrows
  <2>5. a.pattern = handler.rulePattern /\ a.bus = handler.eventBus
    BY <2>2 DEF ArchiveOf
  <2>6. props.eventBusName # NotSet
    BY <2>1, <2>5, Completed DEF Deployable, FormattedBus, Formatted, Buses
  <2>. QED BY <2>3, <2>4, <2>5, <2>6 DEF RuleOf
<1>. QED BY <1>1, SynthInvariant, PTL

(* A finite set with more than one element has two that differ.            *)
LEMMA MoreThanOne ==
    ASSUME NEW S, IsFiniteSet(S)
    PROVE  Cardinality(S) > 1 <=> \E x, y \in S : x # y
<1>1. Cardinality(S) \in Nat
  BY FS_CardinalityType
<1>2. ASSUME NEW x \in S, NEW y \in S, x # y PROVE Cardinality(S) > 1
  <2>1. Cardinality(S) # 0
    BY FS_EmptySet
  <2>2. Cardinality(S) # 1
    BY <1>2, FS_Singleton
  <2>. QED BY <1>1, <2>1, <2>2
<1>3. ASSUME Cardinality(S) > 1 PROVE \E x, y \in S : x # y
  <2>1. S # {}
    BY <1>3, FS_EmptySet
  <2>2. PICK x \in S : TRUE
    BY <2>1
  <2>3. S # {x}
    BY <1>3, FS_Singleton
  <2>. QED BY <2>2, <2>3
<1>. QED BY <1>2, <1>3

(* Which handlers are deployed can be read off their properties.           *)
THEOREM DeployedByItsProps == SynthSpec => []DeployedUnlessItsPropsForbid
<1>1. SynthInv => DeployedUnlessItsPropsForbid
  <2> SUFFICES ASSUME SynthInv PROVE DeployedUnlessItsPropsForbid
    OBVIOUS
  <2>0. /\ props \in PropsChoices /\ props.piped \in BOOLEAN
        /\ props.eventBusName \in {"default", "custom", NotSet}
        /\ IsFiniteSet(props.functions)
    BY PropsAssumption DEF SynthInv
  <2> DEFINE TwoPipes == /\ props.piped /\ props.sqsToLambdaPipe # NotSet
                         /\ Cardinality(props.functions) > 1
             NoArchiveBus ==
               /\ props.eventRule # NotSet
               /\ props.eventRuleArchiveEnabled /\ props.eventBusName = NotSet
               /\ {props.eventRuleSchedule, props.eventRule.schedule} = {NotSet}
             NoRuleBus == props.eventRule # NotSet /\ props.eventBusName = "default"
             NoBus == NoArchiveBus \/ NoRuleBus
             NoPattern == /\ props.eventRule # NotSet /\ props.eventRuleSchedule = NotSet
                          /\ props.eventRule.pattern = NotSet
             OwnBus == props.eventRule # NotSet /\ RuleThrows(props)
  <2>1. NeverDeployed(props) <=> OwnBus \/ NoPattern \/ NoBus \/ TwoPipes
    BY DEF NeverDeployed, RuleThrows
  <2>2. ASSUME todo = <<>>, ~OwnBus
        PROVE  (\E r \in template.rules : BadRule(r)) <=> NoPattern
    <3>1. /\ RuleOf(props).pattern = handler.rulePattern
          /\ RuleOf(props).schedule = props.eventRuleSchedule
      BY DEF RuleOf
    <3>. QED BY <2>2, <3>1, Completed DEF TheRules, BadRule
  <2>3. ASSUME todo = <<>>, ~OwnBus
        PROVE  (\/ \E r \in template.rules : r.bus \notin Buses
                \/ \E a \in template.archives : a.bus \notin Buses) <=> NoBus
    <3>1. ArchiveOf(props).bus = FormattedBus(props.eventBusName)
      BY <2>3, Completed DEF ArchiveOf
    <3>2. RuleOf(props).bus = IF props.eventBusName = NotSet THEN "default"
                              ELSE FormattedBus(props.eventBusName)
      BY <2>3, Completed DEF RuleOf
    <3>3. /\ FormattedBus(props.eventBusName) \notin Buses
               <=> props.eventBusName \in {NotSet, "default"}
          /\ RuleOf(props).bus \notin Buses <=> props.eventBusName = "default"
      BY <2>0, <3>2, NotSetAssumption DEF FormattedBus, Formatted, Buses
    <3>4. (\E r \in template.rules : r.bus \notin Buses) <=> NoRuleBus
      BY <2>3, <3>3, Completed DEF TheRules
    <3>5. (\E a \in template.archives : a.bus \notin Buses)
             <=> Archives(props) /\ props.eventBusName \in {NotSet, "default"}
      BY <2>3, <3>1, <3>3, Completed DEF TheArchives
    <3>6. Archives(props) /\ props.eventBusName \in {NotSet, "default"} => NoBus
      BY DEF Archives
    <3>7. NoArchiveBus => Archives(props) /\ props.eventBusName \in {NotSet, "default"}
      BY DEF Archives
    <3> HIDE DEF NoArchiveBus, NoRuleBus
    <3>. QED BY <3>4, <3>5, <3>6, <3>7
  <2>4. ASSUME todo = <<>>
        PROVE  (\E p, q \in template.pipes : p.name = q.name /\ p # q) <=> TwoPipes
    <3>1. /\ SfnPipe(props.sqsToSfnPipe).name = "sfn-pipe"
          /\ \A f : /\ LambdaPipe(props.sqsToLambdaPipe, f).name = "lambda-pipe"
                    /\ LambdaPipe(props.sqsToLambdaPipe, f).target = f
      BY DEF SfnPipe, LambdaPipe, Pipe
    <3>2. (\E p, q \in ThePipes : p.name = q.name /\ p # q)
            <=> /\ props.piped /\ props.sqsToLambdaPipe # NotSet
                /\ \E f, g \in props.functions : f # g
      BY <3>1 DEF ThePipes
    <3>3. (\E f, g \in props.functions : f # g) <=> Cardinality(props.functions) > 1
      BY <2>0, MoreThanOne
    <3>. QED BY <2>4, <3>2, <3>3, Completed
  <2>5. ASSUME todo = <<>>, ~OwnBus PROVE Deployable <=> ~NoBus /\ ~TwoPipes
    <3> HIDE DEF NoBus, TwoPipes
    <3>. QED BY <2>3, <2>4, <2>5 DEF Deployable
  <2>6. /\ status = "deployed" =>
             /\ todo = <<>> /\ Deployable /\ \A r \in template.rules : ~BadRule(r)
        /\ status = "failed" => \/ OwnBus
                                \/ todo = <<>> /\ \E r \in template.rules : BadRule(r)
                                \/ todo = <<>> /\ ~Deployable
    BY DEF SynthInv, StatusSoFar, Finished
  <2>7. status = "deployed" => ~OwnBus
    <3>1. todo = <<>> => Past(1)
      BY DEF Past, Behind
    <3>. QED BY <2>6, <3>1 DEF SynthInv, StatusSoFar
  <2> HIDE DEF NoBus, TwoPipes, NoPattern, OwnBus
  <2>. QED BY <2>1, <2>2, <2>5, <2>6, <2>7 DEF DeployedUnlessItsPropsForbid
<1>. QED BY <1>1, SynthInvariant, PTL
-----------------------------------------------------------------------------
(* The events of a piped handler. *)

(* The pipes have their queue, and those that do not wait are workflow     *)
(* pipes of a type that does not.                                          *)
FireAndForget ==
    /\ props.sqsToSfnPipe # NotSet
    /\ props.sqsToSfnPipe.sfnInvocationType # "REQUEST_RESPONSE"

TemplateIsSound ==
    /\ props \in PropsChoices /\ props.piped
    /\ todo = InitResources(props) \/ "pipe-queue" \in template.queues
    /\ template.pipes # {} => "pipe-queue" \in template.queues
    /\ {"queues", "policies", "rules", "archives", "pipes"} \subseteq DOMAIN template
    /\ \A p \in template.pipes :
         p.source = "pipe-queue" /\ (~p.waits => FireAndForget)

(* Nothing is published before the handler is deployed.                    *)
NothingYet ==
    status # "deployed" =>
      /\ \A e \in Events : place[e] = "unsent"
      /\ busy = {} /\ executions = {}
      /\ completed = {} /\ filtered = {} /\ abandoned = {}

(* The batches of the pipes are what the queue has in flight.              *)
InFlight ==
    /\ \A b \in busy : b.pipe \in template.pipes /\ b.batch \subseteq Events
    /\ UNION {b.batch : b \in busy} = PipedQueue!At("inflight")
    /\ \A b, c \in busy : b # c => b.batch \intersect c.batch = {}

(* What was taken from the queue is deleted from it, and met one fate.     *)
OneFate ==
    /\ PipedQueue!At("deleted") = Taken \union filtered
    /\ Taken \intersect filtered = {}
    /\ completed \intersect abandoned = {}
    /\ \A x \in executions : x \intersect (completed \union abandoned) = {}
    /\ \A x, y \in executions : x # y => x \intersect y = {}

Receipts == Coalesce(props.pipedQueue.maxReceiveCount, 5)
ReceiptsUsedUp ==
    \A e \in Events :
      /\ receives[e] <= Receipts
      /\ place[e] = "dead" => receives[e] = Receipts

SomebodyForgets == executions # {} \/ abandoned # {} => FireAndForget

SiftedByPipes ==
    /\ \A e \in Taken : \E p \in template.pipes : LetsThrough(p, e)
    /\ \A e \in filtered : \E p \in template.pipes : ~LetsThrough(p, e)

IInv ==
    /\ TemplateIsSound /\ NothingYet /\ PipedQueue!QueueTypeOK /\ InFlight
    /\ OneFate /\ ReceiptsUsedUp /\ SomebodyForgets /\ SiftedByPipes
-----------------------------------------------------------------------------
(* The first method a piped handler calls is its own.                      *)
LEMMA FirstMethod ==
    ASSUME props.piped
    PROVE  Head(InitResources(props)) = "createPipedQueue"
BY DEF InitResources, HandlerMethods

(* Every other method finds the piped queue there.                         *)
LEMMA LaterMethod ==
    ASSUME TemplateIsSound, NEW method, Calls(method), method # "createPipedQueue"
    PROVE  "pipe-queue" \in template.queues /\ props' = props
BY FirstMethod DEF TemplateIsSound, Calls

(* What a method adds, and that the template stays sound with it.          *)
LEMMA StillSound ==
    ASSUME TemplateIsSound, UNCHANGED props, DOMAIN template' = DOMAIN template,
           "pipe-queue" \in template'.queues,
           \A p \in template'.pipes \ template.pipes :
             p.source = "pipe-queue" /\ (~p.waits => FireAndForget)
    PROVE  TemplateIsSound'
<1>1. FireAndForget' = FireAndForget
  BY DEF FireAndForget
<1>. QED BY <1>1 DEF TemplateIsSound

(* The template stays sound while nobody touches it.                       *)
LEMMA SameTemplate ==
    ASSUME TemplateIsSound, UNCHANGED <<props, todo, template>>
    PROVE  TemplateIsSound'
<1>1. FireAndForget' = FireAndForget /\ InitResources(props)' = InitResources(props)
  BY DEF FireAndForget, InitResources, HandlerMethods
<1>. QED BY <1>1 DEF TemplateIsSound

(* The methods leave a sound template, with the piped queue ahead of all   *)
(* pipes, and only the workflow's pipe may forget what it takes.           *)
LEMMA SynthesisIsSound ==
    ASSUME TemplateIsSound, SynthNext
    PROVE  TemplateIsSound'
<1>d. {"queues", "policies", "rules", "archives", "pipes"} \subseteq DOMAIN template
  BY DEF TemplateIsSound
<1>1. CASE CreatePipedQueue
  BY <1>1, <1>d, StillSound DEF CreatePipedQueue, Calls
<1>2. CASE CreateSQSEventSource
  <2>1. "pipe-queue" \in template.queues /\ props' = props
    BY <1>2, LaterMethod DEF CreateSQSEventSource
  <2>. QED BY <1>2, <1>d, <2>1, StillSound DEF CreateSQSEventSource
<1>3. CASE \/ CreateWorkflow \/ CreateEventRulePattern
           \/ CreateEventRuleTargets \/ ResolveEventBus
  <2>1. "pipe-queue" \in template.queues /\ props' = props /\ template' = template
    BY <1>3, LaterMethod
    DEF CreateWorkflow, CreateEventRulePattern, CreateEventRuleTargets,
        ResolveEventBus
  <2>. QED BY <2>1, StillSound
<1>4. CASE CreateEventArchive
  <2>1. "pipe-queue" \in template.queues /\ props' = props
    BY <1>4, LaterMethod DEF CreateEventArchive
  <2>. QED BY <1>4, <1>d, <2>1, StillSound DEF CreateEventArchive
<1>5. CASE CreateEventRule
  <2>1. "pipe-queue" \in template.queues /\ props' = props
    BY <1>5, LaterMethod DEF CreateEventRule
  <2>. QED BY <1>5, <1>d, <2>1, StillSound DEF CreateEventRule
<1>6. CASE CreateSqsToSfnPipe
  <2>1. "pipe-queue" \in template.queues /\ props' = props
    BY <1>6, LaterMethod DEF CreateSqsToSfnPipe
  <2>2. CASE ~HasSfnPipe
    BY <1>6, <2>1, <2>2, StillSound DEF CreateSqsToSfnPipe
  <2>3. CASE HasSfnPipe
    <3> DEFINE pipe == SfnPipe(props.sqsToSfnPipe)
    <3>1. pipe.source = "pipe-queue"
      BY DEF SfnPipe, Pipe
    <3>2. ~pipe.waits => FireAndForget
      BY <2>3, NotSetAssumption
      DEF SfnPipe, Pipe, HasSfnPipe, InvocationType, Coalesce, FireAndForget
    <3>3. template' = [template EXCEPT !.pipes = @ \union {pipe}]
      BY <1>6, <2>3 DEF CreateSqsToSfnPipe
    <3>4. \A p \in template'.pipes \ template.pipes : p = pipe
      BY <3>3, <1>d
    <3>5. DOMAIN template' = DOMAIN template /\ template'.queues = template.queues
      BY <3>3
    <3>. HIDE DEF pipe
    <3>. QED BY <2>1, <3>1, <3>2, <3>4, <3>5, StillSound
  <2>. QED BY <2>2, <2>3
<1>7. CASE CreateSqsToLambdaPipe
  <2>1. "pipe-queue" \in template.queues /\ props' = props
    BY <1>7, LaterMethod DEF CreateSqsToLambdaPipe
  <2>2. CASE props.sqsToLambdaPipe = NotSet
    BY <1>7, <2>1, <2>2, StillSound DEF CreateSqsToLambdaPipe
  <2>3. CASE props.sqsToLambdaPipe # NotSet
    <3> DEFINE pipes == {LambdaPipe(props.sqsToLambdaPipe, f) :
                           f \in handler.lambdaFunctions}
    <3>1. \A p \in pipes : p.source = "pipe-queue" /\ p.waits
      BY DEF LambdaPipe, Pipe
    <3>2. template' = [template EXCEPT !.pipes = @ \union pipes]
      BY <1>7, <2>3 DEF CreateSqsToLambdaPipe
    <3>3. \A p \in template'.pipes \ template.pipes : p \in pipes
      BY <3>2, <1>d
    <3>4. DOMAIN template' = DOMAIN template /\ template'.queues = template.queues
      BY <3>2
    <3>. HIDE DEF pipes
    <3>. QED BY <2>1, <3>1, <3>3, <3>4, StillSound
  <2>. QED BY <2>2, <2>3
<1>8. CASE Synthesise \/ Deploy
  BY <1>8, SameTemplate DEF Synthesise, Deploy
<1>. QED BY <1>1, <1>2, <1>3, <1>4, <1>5, <1>6, <1>7, <1>8 DEF SynthNext
-----------------------------------------------------------------------------
(* A construct is put together once, before any event.                     *)
LEMMA BeforeTheEvents ==
    ASSUME SynthNext
    PROVE  status # "deployed" /\ props' = props
BY DEF SynthNext, CreatePipedQueue, CreateSQSEventSource, CreateWorkflow,
    CreateEventRulePattern, CreateEventRuleTargets, ResolveEventBus,
    CreateEventArchive, CreateEventRule, CreateSqsToSfnPipe,
    CreateSqsToLambdaPipe, Synthesise, Deploy, Calls

(* There is a number of receipts after which a message is parked.          *)
LEMMA ReceiptsType == ASSUME TemplateIsSound PROVE Receipts \in Nat \ {0}
BY PipedQueueAssumption DEF TemplateIsSound, Receipts, Coalesce

(* The piped queue is one that redrives, after that number.                *)
LEMMA QueueRedrives ==
    /\ Queue.redrives
    /\ Queue.maxReceiveCount = Receipts
BY DEF Queue, PipedQueue!CreateQueue, Receipts, Coalesce, PipedQueue!Coalesce

(* Before the handler is put together nothing has happened.                *)
LEMMA Established == ASSUME Init PROVE IInv
<1>1. TemplateIsSound
  BY DEF Init, SynthInit, NoResources, TemplateIsSound
<1>2. /\ \A e \in Events : place[e] = "unsent" /\ receives[e] = 0
      /\ PipedQueue!QueueTypeOK
  BY DEF Init, PipedQueue!QueueInit, PipedQueue!QueueTypeOK, PipedQueue!Places
<1>3. NothingYet /\ OneFate /\ SomebodyForgets /\ SiftedByPipes
  BY <1>2 DEF Init, NothingYet, OneFate, SomebodyForgets, SiftedByPipes, Taken,
       PipedQueue!At
<1>4. InFlight
  BY <1>2 DEF Init, InFlight, PipedQueue!At
<1>5. ReceiptsUsedUp
  BY <1>1, <1>2, ReceiptsType DEF ReceiptsUsedUp
<1>. QED BY <1>1, <1>2, <1>3, <1>4, <1>5 DEF IInv

(* While nothing happens in the queue.                                     *)
LEMMA QueueUnchanged ==
    ASSUME PipedQueue!QueueTypeOK, UNCHANGED queueVars
    PROVE  /\ PipedQueue!QueueTypeOK'
           /\ \A where : PipedQueue!At(where)' = PipedQueue!At(where)
BY DEF queueVars, PipedQueue!QueueTypeOK, PipedQueue!At

(* Both depend on the properties alone.                                    *)
LEMMA SameReceipts ==
    ASSUME UNCHANGED props
    PROVE  Receipts' = Receipts /\ FireAndForget' = FireAndForget
BY DEF Receipts, FireAndForget

(* No event is there while the handler is put together.                    *)
LEMMA SynthKeeps == ASSUME IInv, Synth PROVE IInv'
<1>1. status # "deployed" /\ props' = props
  BY BeforeTheEvents DEF Synth
<1>2. /\ UNCHANGED <<place, receives, busy, executions, completed, filtered, abandoned>>
      /\ UNCHANGED queueVars
  BY DEF Synth, queueVars, resultVars
<1>3. /\ \A e \in Events : place[e] = "unsent"
      /\ busy = {} /\ executions = {}
      /\ completed = {} /\ filtered = {} /\ abandoned = {}
  BY <1>1 DEF IInv, NothingYet
<1>4. TemplateIsSound' /\ PipedQueue!QueueTypeOK'
  BY <1>2, SynthesisIsSound, QueueUnchanged DEF IInv, Synth
<1>5. NothingYet' /\ OneFate' /\ SomebodyForgets' /\ SiftedByPipes'
  BY <1>2, <1>3 DEF NothingYet, OneFate, SomebodyForgets, SiftedByPipes, Taken,
       PipedQueue!At
<1>6. InFlight'
  BY <1>2, <1>3 DEF InFlight, PipedQueue!At
<1>7. ReceiptsUsedUp'
  BY <1>1, <1>2, SameReceipts DEF IInv, ReceiptsUsedUp
<1>. QED BY <1>4, <1>5, <1>6, <1>7 DEF IInv
-----------------------------------------------------------------------------
(* Steps of the queue that neither take nor delete anything.               *)
LEMMA QueueStepKeeps ==
    ASSUME IInv, UNCHANGED <<synthVars, busy, resultVars>>,
           PipedQueue!QueueTypeOK', ReceiptsUsedUp',
           PipedQueue!At("inflight")' = PipedQueue!At("inflight"),
           PipedQueue!At("deleted")' = PipedQueue!At("deleted"),
           status = "deployed"
    PROVE  IInv'
<1>1. UNCHANGED <<props, todo, status, template, busy, executions, completed,
                  filtered, abandoned>>
  BY DEF synthVars, resultVars
<1>2. TemplateIsSound' /\ NothingYet'
  BY <1>1, SameTemplate DEF IInv, NothingYet
<1>3. InFlight'
  BY <1>1 DEF IInv, InFlight
<1>4. OneFate'
  BY <1>1 DEF IInv, OneFate, Taken
<1>5. SomebodyForgets' /\ SiftedByPipes'
  BY <1>1, SameReceipts DEF IInv, SomebodyForgets, SiftedByPipes, Taken
<1>. QED BY <1>2, <1>3, <1>4, <1>5 DEF IInv

(* A published event waits in the queue.                                   *)
LEMMA PublishKeeps ==
    ASSUME IInv, NEW e \in Events, Publish(e)
    PROVE  IInv'
<1>1. /\ place[e] = "unsent" /\ place' = PipedQueue!Move({e}, "visible")
      /\ receives' = receives /\ status = "deployed"
      /\ UNCHANGED <<synthVars, busy, resultVars>> /\ props' = props
  BY DEF Publish, PipedQueue!Send, synthVars
<1>2. /\ PipedQueue!QueueTypeOK'
      /\ PipedQueue!At("inflight")' = PipedQueue!At("inflight")
      /\ PipedQueue!At("deleted")' = PipedQueue!At("deleted")
  BY <1>1 DEF IInv, PipedQueue!QueueTypeOK, PipedQueue!Move, PipedQueue!At,
       PipedQueue!Places
<1>3. ReceiptsUsedUp'
  BY <1>1, SameReceipts DEF IInv, ReceiptsUsedUp, PipedQueue!Move
<1>. QED BY <1>1, <1>2, <1>3, QueueStepKeeps

(* An event is parked after as many receipts as it may have.               *)
LEMMA RedriveKeeps ==
    ASSUME IInv, NEW e \in Events, Redrive(e)
    PROVE  IInv'
<1>1. /\ place[e] = "visible" /\ place' = PipedQueue!Move({e}, "dead")
      /\ receives' = receives /\ receives[e] >= Receipts
      /\ UNCHANGED <<synthVars, busy, resultVars>> /\ props' = props
  BY QueueRedrives DEF Redrive, PipedQueue!Redrive, PipedQueue!Spent, synthVars
<1>2. status = "deployed"
  BY <1>1 DEF IInv, NothingYet
<1>3. /\ PipedQueue!QueueTypeOK'
      /\ PipedQueue!At("inflight")' = PipedQueue!At("inflight")
      /\ PipedQueue!At("deleted")' = PipedQueue!At("deleted")
  BY <1>1 DEF IInv, PipedQueue!QueueTypeOK, PipedQueue!Move, PipedQueue!At,
       PipedQueue!Places
<1>4. receives[e] = Receipts
  BY <1>1, ReceiptsType DEF IInv, ReceiptsUsedUp, PipedQueue!QueueTypeOK
<1>5. ReceiptsUsedUp'
  BY <1>1, <1>4, SameReceipts DEF IInv, ReceiptsUsedUp, PipedQueue!Move
<1>. QED BY <1>1, <1>2, <1>3, <1>5, QueueStepKeeps

(* What a pipe takes was nobody's.                                         *)
LEMMA PollKeeps ==
    ASSUME IInv, NEW pipe \in template.pipes, NEW batch, status = "deployed",
           Poll(pipe, batch)
    PROVE  IInv'
<1> DEFINE b == [pipe |-> pipe, batch |-> batch]
<1>1. /\ UNCHANGED <<props, todo, status, template, executions, completed,
                     filtered, abandoned>>
      /\ busy' = busy \union {b}
      /\ batch \subseteq Events
      /\ \A e \in batch : place[e] = "visible" /\ ~PipedQueue!Spent(Queue, e)
      /\ place' = PipedQueue!Move(batch, "inflight")
      /\ receives' = [e \in Events |->
                        IF e \in batch THEN receives[e] + 1 ELSE receives[e]]
  BY DEF Poll, PipedQueue!Receive, PipedQueue!At, synthVars, resultVars
<1>2. TemplateIsSound' /\ NothingYet'
  BY <1>1, SameTemplate DEF IInv, NothingYet
<1>3. /\ PipedQueue!QueueTypeOK'
      /\ PipedQueue!At("inflight")' = PipedQueue!At("inflight") \union batch
      /\ PipedQueue!At("deleted")' = PipedQueue!At("deleted")
      /\ PipedQueue!At("inflight") \intersect batch = {}
  BY <1>1 DEF IInv, PipedQueue!QueueTypeOK, PipedQueue!Move, PipedQueue!At,
       PipedQueue!Places
<1>4. InFlight'
  <2>1. b.pipe = pipe /\ b.batch = batch
    OBVIOUS
  <2> HIDE DEF b
  <2>2. \A c \in busy : c.batch \intersect batch = {}
    BY <1>3 DEF IInv, InFlight
  <2>3. UNION {c.batch : c \in busy'} = (UNION {c.batch : c \in busy}) \union batch
    BY <1>1, <2>1
  <2>. QED BY <1>1, <1>3, <2>1, <2>2, <2>3 DEF IInv, InFlight
<1>5. OneFate'
  BY <1>1, <1>3 DEF IInv, OneFate, Taken
<1>6. SomebodyForgets' /\ SiftedByPipes'
  BY <1>1, SameReceipts DEF IInv, SomebodyForgets, SiftedByPipes, Taken
<1>7. ReceiptsUsedUp'
  <2>1. \A e \in batch : receives[e] < Receipts
    BY <1>1, QueueRedrives, ReceiptsType DEF IInv, PipedQueue!Spent, PipedQueue!QueueTypeOK
  <2>. QED BY <1>1, <2>1, SameReceipts, ReceiptsType
       DEF IInv, ReceiptsUsedUp, PipedQueue!Move, PipedQueue!QueueTypeOK
<1>. QED BY <1>2, <1>3, <1>4, <1>5, <1>6, <1>7 DEF IInv
-----------------------------------------------------------------------------
(* A pipe is done with a batch, of which it hands back nothing or what it  *)
(* wanted.                                                                 *)
LEMMA DoneKeeps ==
    ASSUME IInv, NEW b \in busy, NEW handedBack,
           handedBack = {} \/ handedBack = Wanted(b.pipe, b.batch),
           Done(b, handedBack)
    PROVE  /\ TemplateIsSound' /\ PipedQueue!QueueTypeOK' /\ InFlight'
           /\ ReceiptsUsedUp' /\ template' = template
           /\ filtered' = filtered \union (b.batch \ Wanted(b.pipe, b.batch))
           /\ status' = "deployed" /\ FireAndForget' = FireAndForget
           /\ PipedQueue!At("deleted")'
                = PipedQueue!At("deleted") \union (b.batch \ handedBack)
           /\ b.batch \intersect (Taken \union filtered) = {}
           /\ Wanted(b.pipe, b.batch) \subseteq b.batch
           /\ \A e \in b.batch :
                e \in Wanted(b.pipe, b.batch) <=> LetsThrough(b.pipe, e)
           /\ b.pipe \in template.pipes
           /\ ~b.pipe.waits => FireAndForget
<1>1. /\ UNCHANGED <<props, todo, status, template, receives>>
      /\ busy' = busy \ {b}
      /\ filtered' = filtered \union (b.batch \ Wanted(b.pipe, b.batch))
      /\ place' = [e \in Events |->
                     IF e \notin b.batch THEN place[e]
                     ELSE IF e \in handedBack THEN "visible" ELSE "deleted"]
  BY DEF Done, PipedQueue!Settle, synthVars
<1>2. /\ b.pipe \in template.pipes /\ b.batch \subseteq Events
      /\ b.batch \subseteq PipedQueue!At("inflight")
  BY DEF IInv, InFlight
<1>3. TemplateIsSound' /\ FireAndForget' = FireAndForget /\ Receipts' = Receipts
  BY <1>1, SameTemplate, SameReceipts DEF IInv
<1>4. status' = "deployed"
  BY <1>1 DEF IInv, NothingYet
<1>5. /\ PipedQueue!QueueTypeOK'
      /\ PipedQueue!At("inflight")' = PipedQueue!At("inflight") \ b.batch
      /\ PipedQueue!At("deleted")'
           = PipedQueue!At("deleted") \union (b.batch \ handedBack)
  BY <1>1, <1>2 DEF IInv, PipedQueue!QueueTypeOK, PipedQueue!At, PipedQueue!Places
<1>6. InFlight'
  <2>1. UNION {c.batch : c \in busy'} = (UNION {c.batch : c \in busy}) \ b.batch
    BY <1>1 DEF IInv, InFlight
  <2>. QED BY <1>1, <1>5, <2>1 DEF IInv, InFlight
<1>7. ReceiptsUsedUp'
  BY <1>1, <1>3 DEF IInv, ReceiptsUsedUp
<1>8. b.batch \intersect (Taken \union filtered) = {}
  <2>1. PipedQueue!At("inflight") \intersect PipedQueue!At("deleted") = {}
    BY DEF PipedQueue!At
  <2>. QED BY <1>2, <2>1 DEF IInv, OneFate
<1>9. \A e \in b.batch : e \in Wanted(b.pipe, b.batch) <=> LetsThrough(b.pipe, e)
  BY DEF Wanted, LetsThrough
<1>10. Wanted(b.pipe, b.batch) \subseteq b.batch
  BY DEF Wanted
<1>11. ~b.pipe.waits => FireAndForget
  BY <1>2 DEF IInv, TemplateIsSound
<1>. QED BY <1>1, <1>2, <1>3, <1>4, <1>5, <1>6, <1>7, <1>8, <1>9, <1>10, <1>11

(* What a pipe took for its target is added to what was taken, the rest of *)
(* its batch to what was filtered.                                         *)
LEMMA FatesGrow ==
    ASSUME IInv, NEW b \in busy, Done(b, {}),
           Taken' = Taken \union Wanted(b.pipe, b.batch)
    PROVE  /\ PipedQueue!At("deleted")' = Taken' \union filtered'
           /\ Taken' \intersect filtered' = {}
<1> DEFINE wanted == Wanted(b.pipe, b.batch)
<1>1. /\ PipedQueue!At("deleted")' = PipedQueue!At("deleted") \union b.batch
      /\ filtered' = filtered \union (b.batch \ wanted)
      /\ b.batch \intersect (Taken \union filtered) = {}
      /\ wanted \subseteq b.batch
  BY DoneKeeps
<1>2. /\ PipedQueue!At("deleted") = Taken \union filtered
      /\ Taken \intersect filtered = {}
  BY DEF IInv, OneFate
<1>. HIDE DEF wanted
<1>. QED BY <1>1, <1>2 DEF wanted

(* What it took passed its filter, the rest did not.                       *)
LEMMA SiftedStill ==
    ASSUME IInv, NEW b \in busy, NEW handedBack,
           handedBack = {} \/ handedBack = Wanted(b.pipe, b.batch),
           Done(b, handedBack),
           Taken' = Taken \/ Taken' = Taken \union Wanted(b.pipe, b.batch)
    PROVE  SiftedByPipes'
<1>1. /\ template' = template /\ b.pipe \in template.pipes
      /\ filtered' = filtered \union (b.batch \ Wanted(b.pipe, b.batch))
      /\ Wanted(b.pipe, b.batch) \subseteq b.batch
      /\ \A e \in b.batch : e \in Wanted(b.pipe, b.batch) <=> LetsThrough(b.pipe, e)
  BY DoneKeeps
<1>2. \A p, e : LetsThrough(p, e)' <=> LetsThrough(p, e)
  BY DEF LetsThrough
<1>. QED BY <1>1, <1>2 DEF IInv, SiftedByPipes

(* An execution nobody waits for takes what its pipe wanted.               *)
LEMMA StartsExecutionKeeps ==
    ASSUME IInv, NEW b \in busy, StartsExecution(b)
    PROVE  IInv'
<1>1. /\ Done(b, {}) /\ ~b.pipe.waits
      /\ executions' = executions \union {Wanted(b.pipe, b.batch)}
      /\ UNCHANGED <<completed, abandoned>>
  BY DEF StartsExecution
<1>2. OneFate' /\ SiftedByPipes'
  <2>1. Taken' = Taken \union Wanted(b.pipe, b.batch)
    BY <1>1 DEF Taken
  <2>2. /\ completed \subseteq Taken /\ abandoned \subseteq Taken
        /\ \A x \in executions : x \subseteq Taken
    BY DEF Taken
  <2>3. \A x \in executions : x \intersect Wanted(b.pipe, b.batch) = {}
    BY <1>1, <2>2, DoneKeeps
  <2>4. (completed \union abandoned) \intersect Wanted(b.pipe, b.batch) = {}
    BY <1>1, <2>2, DoneKeeps
  <2>5. OneFate'
    <3>1. PipedQueue!At("deleted")' = Taken' \union filtered'
          /\ Taken' \intersect filtered' = {}
      BY <1>1, <2>1, FatesGrow
    <3>. QED BY <1>1, <2>3, <2>4, <3>1 DEF IInv, OneFate
  <2>. QED BY <1>1, <2>1, <2>5, SiftedStill
<1>3. NothingYet' /\ SomebodyForgets'
  BY <1>1, DoneKeeps DEF NothingYet, SomebodyForgets
<1>. QED BY <1>1, <1>2, <1>3, DoneKeeps DEF IInv

(* A target completes what its pipe wanted.                                *)
LEMMA TargetCompletesKeeps ==
    ASSUME IInv, NEW b \in busy, TargetCompletes(b)
    PROVE  IInv'
<1>1. /\ Done(b, {})
      /\ completed' = completed \union Wanted(b.pipe, b.batch)
      /\ UNCHANGED <<executions, abandoned>>
  BY DEF TargetCompletes
<1>2. OneFate' /\ SiftedByPipes'
  <2>1. Taken' = Taken \union Wanted(b.pipe, b.batch)
    BY <1>1 DEF Taken
  <2>2. /\ abandoned \subseteq Taken
        /\ \A x \in executions : x \subseteq Taken
    BY DEF Taken
  <2>3. \A x \in executions : x \intersect Wanted(b.pipe, b.batch) = {}
    BY <1>1, <2>2, DoneKeeps
  <2>4. abandoned \intersect Wanted(b.pipe, b.batch) = {}
    BY <1>1, <2>2, DoneKeeps
  <2>5. OneFate'
    <3>1. PipedQueue!At("deleted")' = Taken' \union filtered'
          /\ Taken' \intersect filtered' = {}
      BY <1>1, <2>1, FatesGrow
    <3>. QED BY <1>1, <2>3, <2>4, <3>1 DEF IInv, OneFate
  <2>. QED BY <1>1, <2>1, <2>5, SiftedStill
<1>3. NothingYet' /\ SomebodyForgets'
  BY <1>1, DoneKeeps DEF IInv, NothingYet, SomebodyForgets
<1>. QED BY <1>1, <1>2, <1>3, DoneKeeps DEF IInv

(* A failed target gives back what its pipe wanted.                        *)
LEMMA TargetFailsKeeps ==
    ASSUME IInv, NEW b \in busy, TargetFails(b)
    PROVE  IInv'
<1>1. /\ Done(b, Wanted(b.pipe, b.batch))
      /\ UNCHANGED <<executions, completed, abandoned>>
  BY DEF TargetFails
<1>2. OneFate' /\ SiftedByPipes'
  <2>1. Taken' = Taken
    BY <1>1 DEF Taken
  <2>2. OneFate'
    BY <1>1, <2>1, DoneKeeps DEF IInv, OneFate
  <2>. QED BY <1>1, <2>1, <2>2, SiftedStill
<1>3. NothingYet' /\ SomebodyForgets'
  BY <1>1, DoneKeeps DEF IInv, NothingYet, SomebodyForgets
<1>. QED BY <1>1, <1>2, <1>3, DoneKeeps DEF IInv

(* An execution completes or abandons what was taken for it.               *)
LEMMA ExecutionEndsKeeps ==
    ASSUME IInv, NEW batch, NEW through, ExecutionEnds(batch, through)
    PROVE  IInv'
<1>1. /\ UNCHANGED <<props, todo, status, template, busy, filtered>>
      /\ UNCHANGED queueVars /\ UNCHANGED <<place, receives>>
      /\ batch \in executions /\ through \subseteq batch
      /\ executions' = executions \ {batch}
      /\ completed' = completed \union through
      /\ abandoned' = abandoned \union (batch \ through)
  BY DEF ExecutionEnds, synthVars, queueVars
<1>2. TemplateIsSound' /\ NothingYet'
  BY <1>1, SameTemplate DEF IInv, NothingYet
<1>3. /\ PipedQueue!QueueTypeOK'
      /\ PipedQueue!At("inflight")' = PipedQueue!At("inflight")
      /\ PipedQueue!At("deleted")' = PipedQueue!At("deleted")
  BY <1>1, QueueUnchanged DEF IInv
<1>4. InFlight'
  BY <1>1, <1>3 DEF IInv, InFlight
<1>5. Taken' = Taken
  <2>1. UNION executions = (UNION executions') \union batch
    BY <1>1
  <2>. QED BY <1>1, <2>1 DEF Taken
<1>6. OneFate'
  <2>1. \A x \in executions' : x \intersect batch = {}
    BY <1>1 DEF IInv, OneFate
  <2>2. batch \intersect (completed \union abandoned) = {}
    BY <1>1 DEF IInv, OneFate
  <2>. QED BY <1>1, <1>3, <1>5, <2>1, <2>2 DEF IInv, OneFate
<1>7. SomebodyForgets' /\ SiftedByPipes' /\ ReceiptsUsedUp'
  BY <1>1, <1>5, SameReceipts
  DEF IInv, SomebodyForgets, SiftedByPipes, ReceiptsUsedUp
<1>. QED BY <1>2, <1>3, <1>4, <1>6, <1>7 DEF IInv

(* Nothing changes by itself.                                              *)
LEMMA NothingKeeps ==
    ASSUME IInv, UNCHANGED vars
    PROVE  IInv'
<1>1. /\ UNCHANGED <<props, todo, status, template, busy, executions,
                     completed, filtered, abandoned, place, receives>>
      /\ UNCHANGED queueVars
  BY DEF vars, synthVars, queueVars, resultVars
<1>2. TemplateIsSound' /\ NothingYet'
  BY <1>1, SameTemplate DEF IInv, NothingYet
<1>3. /\ PipedQueue!QueueTypeOK'
      /\ PipedQueue!At("inflight")' = PipedQueue!At("inflight")
      /\ PipedQueue!At("deleted")' = PipedQueue!At("deleted")
  BY <1>1, QueueUnchanged DEF IInv
<1>4. InFlight' /\ OneFate'
  BY <1>1, <1>3 DEF IInv, InFlight, OneFate, Taken
<1>5. SomebodyForgets' /\ SiftedByPipes' /\ ReceiptsUsedUp'
  BY <1>1, SameReceipts DEF IInv, SomebodyForgets, SiftedByPipes, Taken, ReceiptsUsedUp
<1>. QED BY <1>2, <1>3, <1>4, <1>5 DEF IInv

(* The events stay accounted for.                                          *)
LEMMA Invariant == Spec => []IInv
<1>1. Init => IInv
  BY Established
<1>2. IInv /\ [Next]_vars => IInv'
  <2> SUFFICES ASSUME IInv, [Next]_vars PROVE IInv'
    OBVIOUS
  <2>1. CASE Synth
    BY <2>1, SynthKeeps
  <2>2. ASSUME NEW e \in Events, Publish(e) PROVE IInv'
    BY <2>2, PublishKeeps
  <2>3. ASSUME NEW e \in Events, Redrive(e) PROVE IInv'
    BY <2>3, RedriveKeeps
  <2>4. ASSUME NEW pipe \in template.pipes, NEW batch \in SUBSET Events,
               status = "deployed", Poll(pipe, batch)
        PROVE  IInv'
    BY <2>4, PollKeeps
  <2>5. ASSUME NEW b \in busy,
               StartsExecution(b) \/ TargetCompletes(b) \/ TargetFails(b)
        PROVE  IInv'
    BY <2>5, StartsExecutionKeeps, TargetCompletesKeeps, TargetFailsKeeps
  <2>6. ASSUME NEW batch \in executions, NEW through \in SUBSET batch,
               ExecutionEnds(batch, through)
        PROVE  IInv'
    BY <2>6, ExecutionEndsKeeps
  <2>7. CASE UNCHANGED vars
    BY <2>7, NothingKeeps
  <2>. QED BY <2>1, <2>2, <2>3, <2>4, <2>5, <2>6, <2>7 DEF Next, Service
<1>. QED BY <1>1, <1>2, PTL DEF Spec
-----------------------------------------------------------------------------
(* What the pipes work on is what the queue has in flight, each event with *)
(* one of them, executions are for events out of the queue, and every pipe *)
(* polls a queue the template has, created ahead of it.                    *)
THEOREM TypeCorrect == Spec => []TypeOK
<1>1. IInv => TypeOK
  <2> SUFFICES ASSUME IInv PROVE TypeOK
    OBVIOUS
  <2>1. PipedQueue!At("deleted") \subseteq Events
    BY DEF PipedQueue!At
  <2>2. \A p \in template.pipes : p.source \in template.queues
    BY DEF IInv, TemplateIsSound
  <2>. QED BY <2>1, <2>2 DEF IInv, TypeOK, InFlight, OneFate, Taken
<1>. QED BY <1>1, Invariant, PTL

(* What is parked in pipedDlq went there after its last receipt, and no    *)
(* execution, function or filter ever took it out of the queue.            *)
THEOREM ParkedUntaken == Spec => []ParkedWasNeverTaken
<1>1. IInv => ParkedWasNeverTaken
  BY DEF IInv, ParkedWasNeverTaken, ReceiptsUsedUp, Receipts, OneFate,
         Taken, PipedQueue!At
<1>. QED BY <1>1, Invariant, PTL

(* Events are abandoned only behind a workflow pipe that does not wait.    *)
THEOREM AbandonedByForgetting == Spec => []OnlyFireAndForgetAbandons
<1>1. IInv => OnlyFireAndForgetAbandons
  BY DEF IInv, SomebodyForgets, FireAndForget, OnlyFireAndForgetAbandons
<1>. QED BY <1>1, Invariant, PTL

(* Every event that left the queue for another place than pipedDlq met one *)
(* fate, once, whichever pipes polled it and however their filters differ. *)
THEOREM OneFateEach == Spec => []EveryEventHasOneFate
<1>1. IInv => EveryEventHasOneFate
  BY DEF IInv, OneFate, SiftedByPipes, EveryEventHasOneFate
<1>. QED BY <1>1, Invariant, PTL
=============================================================================
