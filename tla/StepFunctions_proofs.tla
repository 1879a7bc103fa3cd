------------------------ MODULE StepFunctions_proofs ------------------------
(***************************************************************************)
(* What a machine that starts executions of another one may rely on, for   *)
(* any number of steps, executions, retries and lost answers.              *)
(***************************************************************************)
EXTENDS StepFunctions, SequenceTheorems, WellFoundedInduction, TLAPS

Fields == {"at", "child", "input", "status"}

HasOwn(e, i) ==
    \E c \in children : c.by = e /\ c.name = ExecutionName(e, steps[i])

(* What an execution waits for is what its step names.                     *)
RunIsSound(e) ==
    /\ Fields \subseteq DOMAIN runs[e]
    /\ runs[e].at \in Nat \ {0}
    /\ runs[e].child # NoChild =>
         /\ runs[e].child = ExecutionName(e, StepOf(e))
         /\ Associated(StepOf(e).props) => HasOwn(e, runs[e].at)
    /\ runs[e].status = "none" => runs[e] = NewRun

(* An execution that was started names the parent, in its input the only   *)
(* one that can be there, and the parent has its own input by then.        *)
ChildIsSound(c) ==
    /\ {"name", "input", "by", "at", "state"} \subseteq DOMAIN c
    /\ c.by \in Executions
    /\ c.at \in Nat /\ c.at \in DOMAIN steps /\ steps[c.at].kind = "execution"
    /\ c.name = ExecutionName(c.by, steps[c.at])
    /\ Len(c.input) = 2 => c.input[2] = c.by
    /\ runs[c.by].status # "none"

NamesAreTaken ==
    phase = "deployed" /\ ~plan.machine.childExpress =>
      \A c, d \in children : c.name = d.name => c = d

(* Nobody passes a step that waits before the execution has succeeded.     *)
NobodyRunsAhead ==
    \A c \in children :
      steps[c.at].props.sync /\ c.state # "succeeded" => runs[c.by].at <= c.at

NothingYet ==
    phase # "deployed" => children = {} /\ \A e \in Executions : runs[e] = NewRun

DeployedIsAcceptable ==
    phase = "deployed" => \A i \in DOMAIN steps : Acceptable(steps[i])

IInv ==
    /\ DOMAIN runs = Executions
    /\ NothingYet
    /\ DeployedIsAcceptable
    /\ \A e \in Executions : RunIsSound(e)
    /\ \A c \in children : ChildIsSound(c)
    /\ NamesAreTaken
    /\ NobodyRunsAhead
    /\ NobodyJoinsAnothers
-----------------------------------------------------------------------------
(* Updates of one execution *)

(* An execution that has its input keeps it.                               *)
Going(old, run) == run.input = old.input /\ run.status # "none"

(* A failure leaves an execution where it is, waiting for nothing or for   *)
(* what it waited for.                                                     *)
LEMMA FailedStays ==
    ASSUME NEW run, Fields \subseteq DOMAIN run, run.status # "none",
           NEW step, NEW error
    PROVE  /\ Fields \subseteq DOMAIN Failed(run, step, error)
           /\ Going(run, Failed(run, step, error))
           /\ Failed(run, step, error).at = run.at
           /\ Failed(run, step, error).child \in {run.child, NoChild}
<1> USE DEF Fields, Going
<1>1. ASSUME NEW r, Fields \subseteq DOMAIN r, r.status # "none", NEW seconds
      PROVE  /\ Fields \subseteq DOMAIN Waits(r, seconds)
             /\ Going(r, Waits(r, seconds))
             /\ Waits(r, seconds).at = r.at
             /\ Waits(r, seconds).child = r.child
  BY <1>1 DEF Waits
<1> DEFINE seen == [run EXCEPT !.calls = @ + 1, !.error = error]
           gone == [seen EXCEPT !.status = "failed"]
<1>2. /\ Fields \subseteq DOMAIN seen /\ Going(run, seen)
      /\ seen.at = run.at /\ seen.child = run.child
  OBVIOUS
<1>3. /\ Fields \subseteq DOMAIN gone /\ Going(run, gone)
      /\ gone.at = run.at /\ gone.child = run.child
  BY <1>2
<1>4. ASSUME NEW used
      PROVE  LET again == [seen EXCEPT !.used = used, !.child = NoChild]
             IN /\ Fields \subseteq DOMAIN again /\ Going(run, again)
                /\ again.at = run.at /\ again.child = NoChild
  BY <1>2
<1>5. \/ Failed(run, step, error) = gone
      \/ \E used, seconds :
           Failed(run, step, error)
             = Waits([seen EXCEPT !.used = used, !.child = NoChild], seconds)
  BY DEF Failed
<1> QED
  <2>1. CASE Failed(run, step, error) = gone
    BY <2>1, <1>3
  <2>2. CASE \E used, seconds :
               Failed(run, step, error)
                 = Waits([seen EXCEPT !.used = used, !.child = NoChild], seconds)
    <3>1. PICK used, seconds :
            Failed(run, step, error)
              = Waits([seen EXCEPT !.used = used, !.child = NoChild], seconds)
      BY <2>2
    <3> DEFINE again == [seen EXCEPT !.used = used, !.child = NoChild]
    <3>2. /\ Fields \subseteq DOMAIN again /\ Going(run, again)
          /\ again.at = run.at /\ again.child = NoChild
      BY <1>4
    <3>3. Failed(run, step, error) = Waits(again, seconds)
      BY <3>1
    <3> HIDE DEF again, seen, gone
    <3> QED  BY <3>2, <3>3, <1>1
  <2> QED  BY <1>5, <2>1, <2>2

LEMMA OnwardMoves ==
    ASSUME NEW run, Fields \subseteq DOMAIN run
    PROVE  /\ Fields \subseteq DOMAIN Onward(run)
           /\ Going(run, Onward(run))
           /\ Onward(run).at = run.at + 1
           /\ Onward(run).child = NoChild
BY DEF Onward, Fields, Going

LEMMA WaitsStays ==
    ASSUME NEW run, Fields \subseteq DOMAIN run, run.status # "none", NEW seconds
    PROVE  /\ Fields \subseteq DOMAIN Waits(run, seconds)
           /\ Going(run, Waits(run, seconds))
           /\ Waits(run, seconds).at = run.at
           /\ Waits(run, seconds).child = run.child
BY DEF Waits, Fields, Going
-----------------------------------------------------------------------------
(* The invariant *)

LEMMA InitIInv == Init => IInv
<1> SUFFICES ASSUME Init PROVE IInv
  OBVIOUS
<1>1. /\ children = {} /\ phase = "building"
      /\ \A e \in Executions : runs[e] = NewRun
      /\ DOMAIN runs = Executions
  BY DEF Init
<1>2. \A e \in Executions : runs[e].at = 1 /\ runs[e].child = NoChild
                              /\ Fields \subseteq DOMAIN runs[e]
  BY <1>1 DEF NewRun, Fields
<1>3. NobodyJoinsAnothers
  BY <1>2 DEF NobodyJoinsAnothers
<1> QED
  BY <1>1, <1>2, <1>3
     DEF IInv, NothingYet, DeployedIsAcceptable, RunIsSound, NamesAreTaken,
         NobodyRunsAhead

(* Until a machine is deployed there is no execution.                      *)
LEMMA BeforeDeployment ==
    ASSUME IInv, phase # "deployed", UNCHANGED <<runs, children>>,
           DeployedIsAcceptable'
    PROVE  IInv'
<1>1. /\ children' = {} /\ runs' = runs
      /\ \A e \in Executions : runs[e] = NewRun
      /\ DOMAIN runs = Executions
  BY DEF IInv, NothingYet
<1>2. \A e \in Executions : runs'[e].at = 1 /\ runs'[e].child = NoChild
                              /\ Fields \subseteq DOMAIN runs'[e]
  BY <1>1 DEF NewRun, Fields
<1>3. NobodyJoinsAnothers'
  BY <1>2 DEF NobodyJoinsAnothers
<1> QED
  BY <1>1, <1>2, <1>3
     DEF IInv, NothingYet, RunIsSound, NamesAreTaken, NobodyRunsAhead

(* What may change when one execution makes a step: it starts at most one  *)
(* execution, of the name of its step; it waits for that name only; and it *)
(* passes a step only if it started what it was to start, and if nothing   *)
(* that it started and waits for is running or has failed.                 *)
NewChild(e) ==
    [name |-> ExecutionName(e, StepOf(e)),
     input |-> ChildInput(e, StepOf(e).props), by |-> e, at |-> runs[e].at,
     state |-> "running"]

Starts(e, new) ==
    /\ children' = children \cup new /\ new \subseteq {NewChild(e)}
    /\ new # {} =>
         /\ runs[e].at \in DOMAIN steps /\ StepOf(e).kind = "execution"
         /\ ~plan.machine.childExpress =>
              \A c \in children : c.name # ExecutionName(e, StepOf(e))

HasOwnNow(e) ==
    Associated(StepOf(e).props) =>
      \E c \in children' : c.by = e /\ c.name = ExecutionName(e, StepOf(e))

Remains(e, run) ==
    /\ run.at = runs[e].at
    /\ \/ run.child \in {runs[e].child, NoChild}
       \/ run.child = ExecutionName(e, StepOf(e)) /\ HasOwnNow(e)

Passes(e, run) ==
    /\ run.at = runs[e].at + 1 /\ run.child = NoChild
    /\ StepOf(e).kind = "execution" => HasOwnNow(e)
    /\ \A c \in children' :
         c.by = e /\ c.at = runs[e].at /\ steps[c.at].props.sync
           => c.state = "succeeded"

LEMMA OneStep ==
    ASSUME IInv, phase = "deployed", NEW e \in Executions, NEW run, NEW new,
           Fields \subseteq DOMAIN run, Going(runs[e], run),
           runs[e].status # "none",
           runs' = [runs EXCEPT ![e] = run], UNCHANGED <<plan, steps, phase>>,
           Starts(e, new), Remains(e, run) \/ Passes(e, run)
    PROVE  IInv'
<1> USE DEF IInv
<1>1. /\ DOMAIN runs' = Executions /\ runs'[e] = run
      /\ \A f \in Executions : f # e => runs'[f] = runs[f]
      /\ \A f \in Executions : runs'[f].input = runs[f].input
      /\ \A c \in children : c \in children'
      /\ run.status # "none"
  BY DEF Starts, Going
<1>2. RunIsSound(e)
  OBVIOUS
<1>3. NothingYet' /\ DeployedIsAcceptable'
  BY DEF NothingYet, DeployedIsAcceptable, Acceptable
<1>4. \A f \in Executions : RunIsSound(f)'
  <2>1. ASSUME NEW f \in Executions, f # e
        PROVE  RunIsSound(f)'
    <3>1. /\ RunIsSound(f) /\ runs'[f] = runs[f] /\ StepOf(f)' = StepOf(f)
          /\ HasOwn(f, runs[f].at) => HasOwn(f, runs[f].at)'
      BY <1>1, <2>1 DEF StepOf, HasOwn, ExecutionName
    <3> QED  BY <3>1 DEF RunIsSound, ExecutionName, Associated, NewRun
  <2>2. RunIsSound(e)'
    <3>1. CASE Passes(e, run)
      BY <1>1, <1>2, <3>1 DEF RunIsSound, Passes
    <3>2. CASE Remains(e, run) /\ run.child = NoChild
      BY <1>1, <1>2, <3>2 DEF RunIsSound, Remains
    <3>3. CASE Remains(e, run) /\ run.child # NoChild /\ run.child = runs[e].child
      <4>1. StepOf(e)' = StepOf(e) /\ runs'[e].at = runs[e].at
        BY <1>1, <3>3 DEF StepOf, Remains
      <4>2. HasOwn(e, runs[e].at) => HasOwn(e, runs[e].at)'
        BY <1>1, <4>1 DEF HasOwn, ExecutionName
      <4>3. /\ run.child = ExecutionName(e, StepOf(e))
            /\ Associated(StepOf(e).props) => HasOwn(e, runs[e].at)
        BY <1>2, <3>3 DEF RunIsSound
      <4>4. Associated(StepOf(e).props) => HasOwn(e, runs[e].at)'
        BY <4>2, <4>3
      <4> QED  BY <1>1, <1>2, <3>3, <4>1, <4>3, <4>4
              DEF RunIsSound, ExecutionName, Associated
    <3>4. CASE /\ run.at = runs[e].at
               /\ run.child = ExecutionName(e, StepOf(e)) /\ HasOwnNow(e)
      <4>1. StepOf(e)' = StepOf(e) /\ runs'[e].at = runs[e].at
        BY <1>1, <3>4 DEF StepOf
      <4>2. Associated(StepOf(e).props) => HasOwn(e, runs[e].at)'
        BY <1>1, <3>4 DEF HasOwn, HasOwnNow, ExecutionName, StepOf
      <4> QED  BY <1>1, <1>2, <3>4, <4>1, <4>2
              DEF RunIsSound, ExecutionName, Associated
    <3> QED  BY <3>1, <3>2, <3>3, <3>4 DEF Remains
  <2> QED  BY <2>1, <2>2
<1>5. \A c \in children' : ChildIsSound(c)'
  <2>1. ASSUME NEW c \in children
        PROVE  ChildIsSound(c)'
    BY <1>1 DEF ChildIsSound, ExecutionName
  <2>2. ASSUME NEW c \in new
        PROVE  ChildIsSound(c)'
    <3>1. /\ c = NewChild(e) /\ runs[e].at \in DOMAIN steps
          /\ StepOf(e).kind = "execution"
      BY <2>2 DEF Starts
    <3>2. Len(c.input) = 2 => c.input[2] = e
      BY <3>1 DEF NewChild, ChildInput
    <3>3. /\ c.by = e /\ c.at = runs[e].at /\ runs[e].at \in Nat
          /\ c.name = ExecutionName(e, StepOf(e))
          /\ {"name", "input", "by", "at", "state"} \subseteq DOMAIN c
      BY <3>1, <1>2 DEF NewChild, RunIsSound
    <3>4. c.name = ExecutionName(e, steps[c.at])'
      BY <1>1, <3>3 DEF ExecutionName, StepOf
    <3> QED
      BY <1>1, <3>1, <3>2, <3>3, <3>4 DEF ChildIsSound, StepOf, ExecutionName
  <2> QED  BY <2>1, <2>2 DEF Starts
<1>6. NamesAreTaken'
  BY DEF NamesAreTaken, Starts, NewChild
<1>7. NobodyRunsAhead'
  <2> SUFFICES ASSUME NEW c \in children', steps[c.at].props.sync,
                      c.state # "succeeded"
               PROVE  runs'[c.by].at <= c.at
    BY DEF NobodyRunsAhead
  <2>1. CASE c \in children /\ c.by # e
    BY <1>1, <2>1 DEF NobodyRunsAhead, ChildIsSound
  <2>2. CASE c \in children /\ c.by = e /\ Remains(e, run)
    BY <1>1, <2>2 DEF NobodyRunsAhead, Remains
  <2>3. CASE c \in children /\ c.by = e /\ Passes(e, run)
    <3>1. runs[e].at <= c.at /\ runs[e].at # c.at
      BY <2>3 DEF NobodyRunsAhead, Passes
    <3>2. runs[e].at \in Nat /\ c.at \in Nat
      <4>1. ChildIsSound(c)
        BY <2>3
      <4> QED  BY <4>1, <1>2 DEF RunIsSound, ChildIsSound
    <3> QED  BY <1>1, <2>3, <3>1, <3>2 DEF Passes
  <2>4. CASE c \in new
    <3>1. c.at = runs[e].at /\ c.by = e
      BY <2>4 DEF Starts, NewChild
    <3>2. Remains(e, run)
      BY <3>1 DEF Passes
    <3> QED  BY <1>1, <1>2, <3>1, <3>2 DEF Remains, RunIsSound
  <2> QED  BY <2>1, <2>2, <2>3, <2>4 DEF Starts
<1>8. NobodyJoinsAnothers'
  <2> SUFFICES ASSUME NEW f \in Executions, NEW i \in 1..(runs'[f].at - 1),
                      steps[i].kind = "execution", Associated(steps[i].props)
               PROVE  \E c \in children' :
                        c.by = f /\ c.name = ExecutionName(f, steps[i])
    BY <1>1 DEF NobodyJoinsAnothers, ExecutionName
  <2>1. CASE i \in 1..(runs[f].at - 1)
    BY <1>1, <2>1 DEF NobodyJoinsAnothers
  <2>2. CASE i \notin 1..(runs[f].at - 1)
    <3>1. f = e
      BY <1>1, <2>2
    <3>2. Passes(e, run) /\ i = runs[e].at
      BY <1>1, <1>2, <2>2, <3>1 DEF RunIsSound, Remains, Passes
    <3> QED  BY <3>1, <3>2 DEF Passes, HasOwnNow, StepOf
  <2> QED  BY <2>1, <2>2
<1> QED
  BY <1>1, <1>3, <1>4, <1>5, <1>6, <1>7, <1>8
-----------------------------------------------------------------------------
(* Every action preserves it *)

LEMMA BuildingStartsNothing ==
    Building => /\ phase = "building" /\ phase' # "deployed"
                /\ UNCHANGED <<runs, children>>
<1>1. ASSUME phase = "building", Throws
      PROVE  phase' # "deployed" /\ UNCHANGED <<runs, children>>
  BY <1>1 DEF Throws
<1>2. ASSUME phase = "building", NEW id, NEW kind, NEW retriers,
             New(id, kind, retriers)
      PROVE  phase' # "deployed" /\ UNCHANGED <<runs, children>>
  BY <1>1, <1>2 DEF New
<1>3. CASE CreateStateMachine
  BY <1>3 DEF CreateStateMachine
<1>4. CASE \/ CreateSuccessStep \/ CreateFailStep \/ CreatePassStep
           \/ CreateChoiceStep \/ CreateWaitStep \/ CreateParallelStep
  BY <1>1, <1>2, <1>4
     DEF CreateSuccessStep, CreateFailStep, CreatePassStep, CreateChoiceStep,
         CreateWaitStep, CreateParallelStep, Calls, NewNamed
<1>5. CASE \/ CreateDynamoDbGetItemStep \/ CreateDynamoDbPutItemStep
           \/ CreateDynamoDbDeleteItemStep \/ CreateSendSqsMessageStep
           \/ CreateApiStep
  BY <1>1, <1>2, <1>5
     DEF CreateDynamoDbGetItemStep, CreateDynamoDbPutItemStep,
         CreateDynamoDbDeleteItemStep, CreateSendSqsMessageStep, CreateApiStep,
         Calls, NewTask
<1>6. CASE CreateLambdaStep \/ CreateSkippableLambdaStep
  BY <1>1, <1>2, <1>6
     DEF CreateLambdaStep, CreateSkippableLambdaStep, Calls, NewNamed,
         NewLambdaInvoke
<1>7. CASE CreateSfnExecutionStep \/ CreateMapState
  BY <1>1, <1>2, <1>7 DEF CreateSfnExecutionStep, CreateMapState, Calls
<1> QED  BY <1>3, <1>4, <1>5, <1>6, <1>7 DEF Building

(* An execution that gets its input has nothing to name by it yet.         *)
LEMMA StartIInv ==
    ASSUME IInv, NEW e \in Executions, Start(e)
    PROVE  IInv'
<1> USE DEF IInv
<1>1. PICK input \in Inputs :
        runs' = [runs EXCEPT ![e] = [runs[e] EXCEPT !.status = "running",
                                                    !.input = input]]
  BY DEF Start
<1>2. /\ phase = "deployed" /\ runs[e].status = "none" /\ runs[e] = NewRun
      /\ UNCHANGED <<plan, steps, phase, children>>
  BY DEF Start, RunIsSound
<1>3. /\ DOMAIN runs' = Executions
      /\ \A f \in Executions : f # e => runs'[f] = runs[f]
      /\ Fields \subseteq DOMAIN runs'[e]
      /\ runs'[e].at = 1 /\ runs'[e].child = NoChild
      /\ runs'[e].status = "running" /\ runs[e].at = 1
  BY <1>1, <1>2 DEF NewRun, Fields
<1>4. \A c \in children : c.by # e /\ c.by \in Executions
  BY <1>2 DEF ChildIsSound
<1>5. NothingYet' /\ DeployedIsAcceptable' /\ NamesAreTaken'
  BY <1>2 DEF NothingYet, DeployedIsAcceptable, NamesAreTaken, Acceptable
<1>6. \A f \in Executions : RunIsSound(f)'
  <2>1. RunIsSound(e)'
    BY <1>3 DEF RunIsSound
  <2>2. ASSUME NEW f \in Executions, f # e
        PROVE  RunIsSound(f)'
    <3>1. /\ RunIsSound(f) /\ runs'[f] = runs[f] /\ StepOf(f)' = StepOf(f)
          /\ HasOwn(f, runs[f].at) => HasOwn(f, runs[f].at)'
      BY <1>2, <1>3, <2>2 DEF StepOf, HasOwn, ExecutionName
    <3> QED  BY <3>1 DEF RunIsSound, ExecutionName, Associated, NewRun
  <2> QED  BY <2>1, <2>2
<1>7. \A c \in children' : ChildIsSound(c)'
  BY <1>2, <1>3, <1>4 DEF ChildIsSound, ExecutionName
<1>8. NobodyRunsAhead'
  BY <1>2, <1>3, <1>4 DEF NobodyRunsAhead
<1>9. NobodyJoinsAnothers'
  <2> SUFFICES ASSUME NEW f \in Executions, NEW i \in 1..(runs'[f].at - 1),
                      steps[i].kind = "execution", Associated(steps[i].props)
               PROVE  HasOwn(f, i)'
    BY <1>2 DEF NobodyJoinsAnothers, HasOwn, Associated
  <2>1. f # e
    BY <1>3
  <2>2. HasOwn(f, i)
    BY <1>3, <2>1 DEF NobodyJoinsAnothers, HasOwn
  <2> QED  BY <1>2, <1>3, <2>1, <2>2 DEF HasOwn, ExecutionName
<1> QED  BY <1>3, <1>5, <1>6, <1>7, <1>8, <1>9

LEMMA NextIInv == IInv /\ [Next]_vars => IInv'
<1> SUFFICES ASSUME IInv, [Next]_vars PROVE IInv'
  OBVIOUS
<1>1. \A e \in Executions : RunIsSound(e)
  BY DEF IInv
<1>2. ASSUME NEW e \in Executions, NEW kinds, IsAt(e, kinds)
      PROVE  /\ phase = "deployed" /\ runs[e].at \in DOMAIN steps
             /\ StepOf(e).kind \in kinds /\ runs[e].status # "none"
  BY <1>2 DEF IsAt, IInv, NothingYet, NewRun
<1>3. ASSUME NEW e \in Executions, NEW run, phase = "deployed",
             Fields \subseteq DOMAIN run, Going(runs[e], run),
             runs[e].status # "none", Becomes(e, run), UNCHANGED children,
             Remains(e, run) \/ Passes(e, run)
      PROVE  IInv'
  <2>1. Starts(e, {})
    BY <1>3 DEF Starts
  <2> QED  BY <1>3, <2>1, OneStep DEF Becomes
<1>4. ASSUME NEW e \in Executions, NEW error, phase = "deployed",
             runs[e].status # "none",
             Becomes(e, Failed(runs[e], StepOf(e), error)), UNCHANGED children
      PROVE  IInv'
  BY <1>1, <1>3, <1>4, FailedStays DEF Remains, RunIsSound
<1>5. ASSUME NEW e \in Executions, phase = "deployed",
             StepOf(e).kind # "execution", runs[e].status # "none",
             Becomes(e, Onward(runs[e])), UNCHANGED children
      PROVE  IInv'
  <2>1. \A c \in children' : c.by = e => c.at # runs[e].at
    BY <1>5 DEF IInv, ChildIsSound, StepOf
  <2> QED  BY <1>1, <1>3, <1>5, <2>1, OnwardMoves DEF Passes, RunIsSound
<1>6. CASE UNCHANGED vars
  <2>1. DeployedIsAcceptable' /\ NothingYet' /\ NamesAreTaken' /\ NobodyRunsAhead'
    BY <1>6 DEF vars, IInv, NothingYet, DeployedIsAcceptable, NamesAreTaken,
                NobodyRunsAhead, Acceptable
  <2>2. \A e \in Executions : RunIsSound(e)'
    BY <1>1, <1>6 DEF vars, RunIsSound, StepOf, HasOwn, ExecutionName, Associated
  <2>3. \A c \in children' : ChildIsSound(c)'
    BY <1>6 DEF vars, IInv, ChildIsSound, ExecutionName
  <2>4. NobodyJoinsAnothers'
    BY <1>6 DEF vars, IInv, NobodyJoinsAnothers, ExecutionName, Associated
  <2> QED  BY <1>6, <2>1, <2>2, <2>3, <2>4 DEF vars, IInv
<1>7. CASE Building
  <2>1. DeployedIsAcceptable'
    BY <1>7, BuildingStartsNothing DEF DeployedIsAcceptable
  <2> QED  BY <1>7, <2>1, BuildingStartsNothing, BeforeDeployment
<1>8. CASE Deploy
  <2>1. DeployedIsAcceptable'
    BY <1>8 DEF Deploy, DeployedIsAcceptable, Acceptable
  <2> QED  BY <1>8, <2>1, BeforeDeployment DEF Deploy
<1>9. ASSUME NEW e \in Executions, Start(e)
      PROVE  IInv'
  BY <1>9, StartIInv
<1>10. ASSUME NEW e \in Executions, GoOn(e)
       PROVE  IInv'
  BY <1>2, <1>5, <1>10 DEF GoOn
<1>11. ASSUME NEW e \in Executions, Wait(e)
       PROVE  IInv'
  <2> DEFINE run == Waits(runs[e], StepOf(e).props.delayInSeconds)
  <2>0. runs[e].status # "none"
    BY <1>2, <1>11 DEF Wait
  <2>1. /\ Fields \subseteq DOMAIN run /\ Going(runs[e], run)
        /\ run.at = runs[e].at /\ run.child = runs[e].child
    BY <1>1, <2>0, WaitsStays DEF RunIsSound
  <2>2. /\ phase = "deployed" /\ StepOf(e).kind # "execution"
        /\ UNCHANGED children
        /\ Becomes(e, IF run.status = "running" THEN Onward(run) ELSE run)
    BY <1>2, <1>11 DEF Wait
  <2> HIDE DEF run
  <2>3. CASE run.status = "running"
    <3>1. /\ Fields \subseteq DOMAIN Onward(run) /\ Going(runs[e], Onward(run))
          /\ Onward(run).at = runs[e].at + 1 /\ Onward(run).child = NoChild
      BY <2>1, OnwardMoves DEF Going
    <3>2. \A c \in children' : c.by = e => c.at # runs[e].at
      BY <2>2 DEF IInv, ChildIsSound, StepOf
    <3> QED  BY <1>3, <2>0, <2>2, <2>3, <3>1, <3>2 DEF Passes
  <2>4. CASE run.status # "running"
    BY <1>3, <2>0, <2>1, <2>2, <2>4 DEF Remains
  <2> QED  BY <2>3, <2>4
<1>12. ASSUME NEW e \in Executions, Stop(e)
       PROVE  IInv'
  <2> DEFINE run == [runs[e] EXCEPT !.status =
                       IF StepOf(e).kind = "fail" THEN "failed" ELSE "succeeded"]
  <2>1. /\ Fields \subseteq DOMAIN run /\ Going(runs[e], run)
        /\ run.at = runs[e].at /\ run.child = runs[e].child
    BY <1>1 DEF RunIsSound, Fields, Going
  <2>2. /\ phase = "deployed" /\ Becomes(e, run) /\ UNCHANGED children
        /\ runs[e].status # "none"
    BY <1>2, <1>12 DEF Stop
  <2> HIDE DEF run
  <2> QED  BY <1>3, <2>1, <2>2 DEF Remains
<1>13. ASSUME NEW e \in Executions, Answer(e)
       PROVE  IInv'
  BY <1>2, <1>4, <1>5, <1>13 DEF Answer, Tasks
<1>14. ASSUME NEW e \in Executions, StartIsLost(e)
       PROVE  IInv'
  BY <1>2, <1>4, <1>14 DEF StartIsLost
<1>15. ASSUME NEW e \in Executions, StartExecution(e)
       PROVE  IInv'
  <2> DEFINE step == StepOf(e)
             name == ExecutionName(e, step)
             taken == {c \in children : c.name = name /\ ~plan.machine.childExpress}
             same == {c \in taken : c.state = "running"
                                      /\ c.input = ChildInput(e, step.props)}
             new == IF taken = {} THEN {NewChild(e)} ELSE {}
             asked == IF taken = {} THEN NewChild(e) ELSE CHOOSE c \in taken : TRUE
             answered == IF step.props.sync
                           THEN [runs[e] EXCEPT !.child = asked.name]
                         ELSE Onward(runs[e])
  <2>1. /\ phase = "deployed" /\ runs[e].at \in DOMAIN steps
        /\ step.kind = "execution" /\ ~Waiting(e) /\ runs[e].status # "none"
        /\ children' = children \cup new
        /\ IF taken # {} /\ same = {}
             THEN Becomes(e, Failed(runs[e], step, "exists"))
           ELSE \/ Becomes(e, answered)
                \/ Becomes(e, Failed(runs[e], step, "service"))
    BY <1>2, <1>15 DEF StartExecution, NewChild
  <2>2. Starts(e, new)
    BY <2>1 DEF Starts, NewChild
  <2>3. ASSUME NEW run, Fields \subseteq DOMAIN run, Going(runs[e], run),
               Becomes(e, run), Remains(e, run) \/ Passes(e, run)
        PROVE  IInv'
    BY <2>1, <2>2, <2>3, OneStep DEF Becomes
  <2>4. ASSUME NEW error, Becomes(e, Failed(runs[e], step, error))
        PROVE  IInv'
    BY <1>1, <2>1, <2>3, <2>4, FailedStays DEF Remains, RunIsSound
  <2>5. CASE Becomes(e, answered) /\ (taken = {} \/ same # {})
    <3>1. HasOwnNow(e)
      <4>1. CASE taken = {}
        <5>1. NewChild(e) \in children'
          BY <2>1, <4>1
        <5> QED  BY <5>1 DEF HasOwnNow, NewChild
      <4>2. ASSUME Associated(step.props), NEW c \in same
            PROVE  c.by = e /\ c.name = name /\ c \in children'
        <5>1. ChildIsSound(c) /\ c \in children
          BY DEF IInv
        <5>2. c.input = <<runs[e].input, e>>
          BY <4>2 DEF ChildInput
        <5>3. Len(c.input) = 2 /\ c.input[2] = e
          BY <5>2
        <5> QED  BY <2>1, <5>1, <5>3 DEF ChildIsSound
      <4> QED  BY <2>5, <4>1, <4>2 DEF HasOwnNow
    <3>2. asked.name = name
      BY DEF NewChild
    <3>3. CASE step.props.sync
      <4> DEFINE run == [runs[e] EXCEPT !.child = asked.name]
      <4>1. /\ Fields \subseteq DOMAIN run /\ Going(runs[e], run)
            /\ run.at = runs[e].at /\ run.child = name
        BY <1>1, <2>1, <3>2 DEF RunIsSound, Fields, Going
      <4>2. Becomes(e, run)
        BY <2>5, <3>3
      <4> HIDE DEF run
      <4> QED  BY <2>3, <3>1, <4>1, <4>2 DEF Remains
    <3>4. CASE ~step.props.sync
      <4>1. Becomes(e, Onward(runs[e]))
        BY <2>5, <3>4
      <4>2. \A c : c.at = runs[e].at => ~steps[c.at].props.sync
        BY <3>4 DEF StepOf
      <4> QED  BY <1>1, <2>3, <3>1, <4>1, <4>2, OnwardMoves
               DEF Passes, RunIsSound
    <3> QED  BY <3>3, <3>4
  <2> QED  BY <2>1, <2>4, <2>5
<1>16. ASSUME NEW e \in Executions, ParentLearns(e)
       PROVE  IInv'
  <2>1. PICK c \in children :
          /\ c.name = runs[e].child /\ c.state # "running"
          /\ Becomes(e, IF c.state = "succeeded" THEN Onward(runs[e])
                        ELSE Failed(runs[e], StepOf(e), "task"))
    BY <1>16 DEF ParentLearns
  <2>2. /\ phase = "deployed" /\ runs[e].at \in DOMAIN steps
        /\ StepOf(e).kind = "execution" /\ runs[e].child # NoChild
        /\ runs[e].status # "none"
        /\ UNCHANGED children
    BY <1>2, <1>16 DEF ParentLearns, Waiting
  <2>3. CASE c.state = "succeeded"
    <3>1. Becomes(e, Onward(runs[e]))
      BY <2>1, <2>3
    <3>2. HasOwnNow(e)
      BY <1>1, <2>2 DEF RunIsSound, HasOwn, HasOwnNow, StepOf
    <3>3. ASSUME NEW d \in children, d.by = e, d.at = runs[e].at,
                 steps[d.at].props.sync
          PROVE  d.state = "succeeded"
      <4>1. ~plan.machine.childExpress
        BY <2>2, <3>3 DEF IInv, DeployedIsAcceptable, Acceptable, StepOf
      <4>2. d.name = ExecutionName(e, StepOf(e))
        BY <3>3 DEF IInv, ChildIsSound, StepOf
      <4>3. c.name = d.name
        BY <1>1, <2>1, <2>2, <4>2 DEF RunIsSound
      <4>4. c = d
        BY <2>2, <4>1, <4>3 DEF IInv, NamesAreTaken
      <4> QED  BY <2>3, <4>4
    <3> QED
      BY <1>1, <1>3, <2>2, <3>1, <3>2, <3>3, OnwardMoves DEF Passes, RunIsSound
  <2>4. CASE c.state # "succeeded"
    BY <1>4, <2>1, <2>2, <2>4
  <2> QED  BY <2>3, <2>4
<1>17. ASSUME NEW c \in children, ChildEnds(c)
       PROVE  IInv'
  <2>1. PICK state :
          /\ children' = (children \ {c}) \cup {[c EXCEPT !.state = state]}
          /\ c.state = "running" /\ UNCHANGED <<plan, steps, phase, runs>>
    BY <1>17 DEF ChildEnds
  <2> DEFINE new == [c EXCEPT !.state = state]
  <2>2. ChildIsSound(c)
    BY DEF IInv
  <2>3. /\ {"name", "input", "by", "at", "state"} \subseteq DOMAIN new
        /\ new.name = c.name /\ new.by = c.by /\ new.at = c.at
        /\ new.input = c.input
    BY <2>2 DEF ChildIsSound
  <2>4. children' = (children \ {c}) \cup {new}
    BY <2>1
  <2> HIDE DEF new
  <2>5. \A e \in Executions : \A i : HasOwn(e, i) => HasOwn(e, i)'
    BY <2>1, <2>3, <2>4 DEF HasOwn, ExecutionName
  <2>6. NothingYet' /\ DeployedIsAcceptable'
    BY <2>1 DEF IInv, NothingYet, DeployedIsAcceptable, Acceptable
  <2>7. \A e \in Executions : RunIsSound(e)'
    <3> SUFFICES ASSUME NEW e \in Executions PROVE RunIsSound(e)'
      OBVIOUS
    <3>1. HasOwn(e, runs[e].at) => HasOwn(e, runs[e].at)'
      BY <2>1, <2>3, <2>4 DEF HasOwn, ExecutionName
    <3>2. StepOf(e)' = StepOf(e)
      BY <2>1 DEF StepOf
    <3> QED  BY <1>1, <2>1, <3>1, <3>2 DEF RunIsSound, ExecutionName, Associated
  <2>8. \A d \in children' : ChildIsSound(d)'
    <3>1. ASSUME NEW d \in children PROVE ChildIsSound(d)'
      BY <2>1 DEF IInv, ChildIsSound, ExecutionName
    <3>2. ChildIsSound(new)'
      BY <2>1, <2>2, <2>3 DEF ChildIsSound, ExecutionName
    <3> QED  BY <2>4, <3>1, <3>2
  <2>9. NamesAreTaken'
    BY <2>1, <2>3, <2>4 DEF IInv, NamesAreTaken
  <2>10. NobodyRunsAhead'
    BY <2>1, <2>3, <2>4 DEF IInv, NobodyRunsAhead
  <2>11. NobodyJoinsAnothers'
    <3> SUFFICES ASSUME NEW e \in Executions, NEW i \in 1..(runs[e].at - 1),
                        steps[i].kind = "execution", Associated(steps[i].props)
                 PROVE  HasOwn(e, i)'
      BY <2>1 DEF NobodyJoinsAnothers, HasOwn, ExecutionName, Associated
    <3>1. HasOwn(e, i)
      BY DEF IInv, NobodyJoinsAnothers, HasOwn
    <3> QED  BY <2>5, <3>1
  <2> QED
    BY <2>1, <2>6, <2>7, <2>8, <2>9, <2>10, <2>11 DEF IInv
<1> QED
  BY <1>6, <1>7, <1>8, <1>9, <1>10, <1>11, <1>12, <1>13, <1>14, <1>15, <1>16,
     <1>17 DEF Next
-----------------------------------------------------------------------------
(* The executions that are started are the ones that are named.            *)
THEOREM SpecIInv == Spec => []IInv
BY InitIInv, NextIInv, PTL DEF Spec

(* An execution of a standard machine is started once, whatever answers    *)
(* are lost and however often the start is retried.                        *)
THEOREM SpecChildStartedOnce == Spec => []ChildStartedOnce
<1>1. IInv => ChildStartedOnce
  <2> SUFFICES ASSUME IInv, phase = "deployed", ~plan.machine.childExpress,
                      NEW c \in children, NEW d \in children,
                      c.at = d.at, c # d
               PROVE  /\ steps[c.at].props.executionName = "path"
                      /\ runs[c.by].input # runs[d.by].input
    BY DEF ChildStartedOnce
  <2>1. c.name # d.name
    BY DEF IInv, NamesAreTaken
  <2> QED  BY <2>1 DEF IInv, ChildIsSound, ExecutionName
<1> QED  BY <1>1, SpecIInv, PTL

(* An execution that got past a step has started an execution of its own.  *)
THEOREM SpecNobodyJoinsAnothers == Spec => []NobodyJoinsAnothers
<1>1. IInv => NobodyJoinsAnothers
  BY DEF IInv
<1> QED  BY <1>1, SpecIInv, PTL

(* What waits for an execution that failed does not get past it.           *)
THEOREM SpecFailedChildIsFinal == Spec => []FailedChildIsFinal
<1>1. IInv => FailedChildIsFinal
  BY DEF IInv, NobodyRunsAhead, FailedChildIsFinal
<1> QED  BY <1>1, SpecIInv, PTL
-----------------------------------------------------------------------------
(* Delays *)

(* A set of natural numbers with none that is the first has none.          *)
LEMMA NoFirst ==
    ASSUME NEW S \in SUBSET Nat, \A x \in S : \E y \in S : y < x
    PROVE  S = {}
<1> SUFFICES ASSUME S # {} PROVE FALSE
  OBVIOUS
<1>1. \E x \in S : \A y \in S : ~(<<y, x>> \in OpToRel(<, Nat))
  BY NatLessThanWellFounded, WFMin
<1> QED  BY <1>1 DEF OpToRel

Delays(retrier, n, f) ==
    f = [i \in 0..n |-> IF i = 0 THEN retrier.interval ELSE 2 * f[i - 1]]

LEMMA DelaysExist ==
    ASSUME NEW retrier, NEW n \in Nat
    PROVE  \E f : Delays(retrier, n, f)
<1> DEFINE S == {i \in Nat : ~\E f : Delays(retrier, i, f)}
<1>1. ASSUME NEW i \in S PROVE \E j \in S : j < i
  <2>1. CASE i = 0
    <3>1. Delays(retrier, 0, [j \in 0..0 |-> retrier.interval])
      BY DEF Delays
    <3> QED  BY <2>1, <3>1
  <2>2. CASE i # 0 /\ i - 1 \notin S
    <3>1. PICK f : Delays(retrier, i - 1, f)
      BY <2>2
    <3> DEFINE g == [j \in 0..i |-> IF j = i THEN 2 * f[i - 1] ELSE f[j]]
    <3>2. Delays(retrier, i, g)
      <4>1. ASSUME NEW j \in 0..i
            PROVE  g[j] = IF j = 0 THEN retrier.interval ELSE 2 * g[j - 1]
        <5>1. CASE j = i
          BY <2>2, <5>1
        <5>2. CASE j # i
          <6>1. j \in 0..(i - 1) /\ (j # 0 => j - 1 \in 0..i /\ j - 1 # i)
            BY <5>2
          <6>2. f[j] = IF j = 0 THEN retrier.interval ELSE 2 * f[j - 1]
            BY <3>1, <6>1 DEF Delays
          <6>3. j # 0 => g[j - 1] = f[j - 1]
            BY <6>1
          <6> QED  BY <5>2, <6>2, <6>3
        <5> QED  BY <5>1, <5>2
      <4> HIDE DEF g
      <4>2. g = [j \in 0..i |-> g[j]]
        BY DEF g
      <4> QED  BY <4>1, <4>2 DEF Delays
    <3> QED  BY <3>2
  <2>3. CASE i # 0 /\ i - 1 \in S
    BY <2>3
  <2> QED  BY <2>1, <2>2, <2>3
<1>2. S = {}
  <2> HIDE DEF S
  <2>1. S \subseteq Nat
    BY DEF S
  <2> QED  BY <1>1, <2>1, NoFirst
<1> QED  BY <1>2

LEMMA DelayDoubles ==
    ASSUME NEW retrier, retrier.interval \in Nat, NEW n \in Nat
    PROVE  /\ Delay(retrier, n) \in Nat
           /\ n = 0 => Delay(retrier, n) = retrier.interval
           /\ n = 1 => Delay(retrier, n) = 2 * retrier.interval
           /\ n = 2 => Delay(retrier, n) = 4 * retrier.interval
           /\ n = 3 => Delay(retrier, n) = 8 * retrier.interval
<1> DEFINE f == CHOOSE g : Delays(retrier, n, g)
<1>1. Delays(retrier, n, f)
  BY DelaysExist
<1>2. Delay(retrier, n) = f[n]
  BY DEF Delay, Delays
<1> HIDE DEF f
<1>3. /\ f[0] = retrier.interval
      /\ \A i \in 1..n : f[i] = 2 * f[i - 1]
  BY <1>1 DEF Delays
<1> DEFINE S == {i \in 0..n : f[i] \notin Nat}
<1>4. ASSUME NEW i \in S PROVE \E j \in S : j < i
  <2>1. i \in 0..n /\ i # 0 /\ f[i] = 2 * f[i - 1]
    BY <1>3
  <2>2. f[i - 1] \notin Nat /\ i - 1 \in 0..n /\ i - 1 < i
    BY <2>1
  <2> QED  BY <2>2
<1>5. S = {}
  <2> HIDE DEF S
  <2>1. S \subseteq Nat
    BY DEF S
  <2> QED  BY <1>4, <2>1, NoFirst
<1>6. f[n] \in Nat
  BY <1>5
<1>7. n = 1 => f[1] = 2 * f[0]
  BY <1>3
<1>8. n = 2 => f[1] = 2 * f[0] /\ f[2] = 2 * f[1]
  BY <1>3
<1>9. n = 3 => f[1] = 2 * f[0] /\ f[2] = 2 * f[1] /\ f[3] = 2 * f[2]
  BY <1>3
<1> QED  BY <1>2, <1>3, <1>6, <1>7, <1>8, <1>9
-----------------------------------------------------------------------------
(* Retries, asked for and built *)

(* The steps as the manager built them.                                    *)
RetriersOf(step) ==
    IF step.kind \notin Tasks \cup {"execution"} THEN <<>>
    ELSE IF step.kind = "lambda"
      THEN RetryOnServiceExceptions \o AddRetries(step.props.retries)
    ELSE AddRetries(step.props.retries)

StepIsBuilt(step) ==
    /\ step.retriers = RetriersOf(step)
    /\ step.kind \in Tasks \cup {"execution", "wait"} =>
         step.props # NotSet /\ MayBeAsked(step.props)

BuiltAsAsked ==
    /\ "calls" \in DOMAIN plan /\ plan.calls \in Seq(AllCalls)
    /\ \E S : steps \in Seq(S)
    /\ \A i \in DOMAIN steps : StepIsBuilt(steps[i])

(* The retries used of a retrier, and how long those of the default one    *)
(* took at least: none takes less.                                         *)
Used(run, i) == IF run.used = <<>> THEN 0 ELSE run.used[i]
TimeOf(used) == <<0, 30, 90, 210>>[used + 1]

ByDefault(step) ==
    step.kind \in Tasks /\ step.props.retries \in {NotSet, <<>>}
DefaultRetrier(step) == IF step.kind = "lambda" THEN 2 ELSE 1

(* An execution counts its calls, which no retrier outnumbers.             *)
Counts(run) ==
    /\ DOMAIN NewRun \subseteq DOMAIN run
    /\ run.calls \in Nat /\ run.waited \in Nat
    /\ run.used # <<>> =>
         /\ DOMAIN run.used = DOMAIN steps[run.at].retriers
         /\ \A i \in DOMAIN run.used : run.used[i] \in 0..run.calls

(* An express execution has waited for its default retries and is not      *)
(* over its limit.                                                         *)
WaitsForDefaults(run, step) ==
    /\ run.waited <= ExpressLimit
    /\ run.status = "running" /\ ByDefault(step) =>
         LET used == Used(run, DefaultRetrier(step))
         IN /\ used \in 0..3 /\ run.waited >= TimeOf(used)
            /\ step.kind # "lambda" => run.calls = used

GivesUp(run, step) ==
    run.status = "failed" /\ run.error # NotSet =>
      /\ step.kind \in Tasks \cup {"execution"} =>
           run.calls > AskedRetries(step, run.error)
      /\ step.kind = "parallel" => run.calls = 1

Outlasts(run, step) ==
    ByDefault(step) =>
      /\ run.status = "failed" => step.kind = "lambda" /\ run.error = "service"
      /\ run.status = "timedOut" /\ step.kind # "lambda" => run.calls <= 4

Retried(run) ==
    /\ Counts(run)
    /\ run.status = "none" => run = NewRun
    /\ run.status = "failed" => run.at \in DOMAIN steps
    /\ run.at \in DOMAIN steps =>
         LET step == steps[run.at]
         IN /\ run.status = "running" /\ step.kind \notin Tasks \cup {"execution"}
                 => run.calls = 0
            /\ GivesUp(run, step)
            /\ plan.machine.express =>
                 WaitsForDefaults(run, step) /\ Outlasts(run, step)

RetryInv ==
    /\ BuiltAsAsked
    /\ \A e \in Executions :
         IF phase = "deployed" THEN Retried(runs[e]) ELSE runs[e] = NewRun
-----------------------------------------------------------------------------
(* Which retrier decides *)

(* A nonempty set of natural numbers has a first.                          *)
LEMMA FirstExists ==
    ASSUME NEW S \in SUBSET Nat, S # {}
    PROVE  \E i \in S : \A j \in S : i <= j
<1> SUFFICES ASSUME \A i \in S : \E j \in S : ~(i <= j) PROVE FALSE
  OBVIOUS
<1>1. \A i \in S : \E j \in S : j < i
  OBVIOUS
<1> QED  BY <1>1, NoFirst

First(S) == CHOOSE i \in S : \A j \in S : i <= j

LEMMA FirstIs ==
    ASSUME NEW S \in SUBSET Nat, S # {}
    PROVE  First(S) \in S /\ \A j \in S : First(S) <= j
BY FirstExists DEF First

(* The retries of a step are a list of one or more.                        *)
LEMMA RetriesAreList ==
    ASSUME NEW props, MayBeAsked(props)
    PROVE  LET retries == Retries(props.retries)
               built == AddRetries(props.retries)
           IN \E n \in Nat \ {0} :
                /\ DOMAIN retries = 1..n /\ DOMAIN built = 1..n /\ Len(built) = n
                /\ \E S : built \in Seq(S)
                /\ \A i \in 1..n : /\ built[i] = AddRetry(retries[i])
                                   /\ built[i].interval \in Nat
<1> DEFINE retries == Retries(props.retries)
           built == AddRetries(props.retries)
<1>1. \E n \in Nat \ {0} :
        /\ DOMAIN retries = 1..n
        /\ \A i \in 1..n :
             {retries[i].intervalInSecs, retries[i].interval} \subseteq Nat \cup {NotSet}
  <2>1. CASE props.retries \in {NotSet, <<>>}
    <3>1. retries = DefaultRetryConfig
      BY <2>1 DEF Retries
    <3>2. DOMAIN retries = 1..1 /\ retries[1].intervalInSecs = 30
            /\ retries[1].interval = NotSet
      BY <3>1 DEF DefaultRetryConfig
    <3> QED  BY <3>2
  <2>2. CASE props.retries \notin {NotSet, <<>>}
    <3>1. retries = props.retries /\ IsRetryList(retries)
      BY <2>2 DEF Retries, MayBeAsked
    <3>2. DOMAIN retries = 1..Len(retries) /\ Len(retries) \in Nat \ {0}
      BY <2>2, <3>1 DEF IsRetryList
    <3> QED  BY <3>1, <3>2 DEF IsRetryList
  <2> QED  BY <2>1, <2>2
<1>2. PICK n \in Nat \ {0} :
        /\ DOMAIN retries = 1..n
        /\ \A i \in 1..n :
             {retries[i].intervalInSecs, retries[i].interval} \subseteq Nat \cup {NotSet}
  BY <1>1
<1>3. built = [i \in 1..n |-> AddRetry(retries[i])]
  BY <1>2 DEF AddRetries
<1> HIDE DEF built, retries
<1>4. ASSUME NEW i \in 1..n PROVE AddRetry(retries[i]).interval \in Nat
  <2>1. IntervalSeconds(retries[i].interval) \in Nat
    BY <1>2 DEF IntervalSeconds, Coalesce
  <2>2. Interval(retries[i]) \in Nat
    BY <1>2, <2>1 DEF Interval, Truthy
  <2> QED  BY <2>2 DEF AddRetry
<1>5. built \in [1..n -> {AddRetry(retries[i]) : i \in 1..n}]
  BY <1>3
<1>6. built \in Seq({AddRetry(retries[i]) : i \in 1..n}) /\ Len(built) = n
  BY <1>5, <1>3, SeqDef
<1>7. \E S : built \in Seq(S)
  BY <1>6
<1> QED  BY <1>2, <1>3, <1>4, <1>6, <1>7 DEF built, retries

(* The retriers of a step that has any: LambdaInvoke has its own before.   *)
LEMMA RetriersAre ==
    ASSUME NEW step, StepIsBuilt(step), step.kind \in Tasks \cup {"execution"}
    PROVE  LET retries == Retries(step.props.retries)
               own == IF step.kind = "lambda" THEN 1 ELSE 0
           IN \E n \in Nat \ {0} :
                /\ DOMAIN retries = 1..n
                /\ DOMAIN step.retriers = 1..(n + own)
                /\ \A i \in 1..n : step.retriers[own + i] = AddRetry(retries[i])
                /\ step.kind = "lambda" =>
                     step.retriers[1] = RetryOnServiceExceptions[1]
                /\ \A i \in DOMAIN step.retriers : step.retriers[i].interval \in Nat
<1> DEFINE retries == Retries(step.props.retries)
           built == AddRetries(step.props.retries)
<1>1. PICK n \in Nat \ {0} :
        /\ DOMAIN retries = 1..n /\ DOMAIN built = 1..n /\ Len(built) = n
        /\ \E S : built \in Seq(S)
        /\ \A i \in 1..n : built[i] = AddRetry(retries[i]) /\ built[i].interval \in Nat
  BY RetriesAreList DEF StepIsBuilt
<1> HIDE DEF built, retries
<1>2. CASE step.kind # "lambda"
  <2>1. step.retriers = built
    BY <1>2 DEF StepIsBuilt, RetriersOf, built
  <2>2. n + 0 = n /\ \A i \in 1..n : 0 + i = i
    OBVIOUS
  <2>3. /\ DOMAIN step.retriers = 1..(n + 0)
        /\ \A i \in 1..n : step.retriers[0 + i] = AddRetry(retries[i])
        /\ \A i \in DOMAIN step.retriers : step.retriers[i].interval \in Nat
    BY <1>1, <2>1, <2>2
  <2> QED  BY <1>1, <1>2, <2>3 DEF retries
<1>3. CASE step.kind = "lambda"
  <2> DEFINE own == RetryOnServiceExceptions
  <2>1. step.retriers = own \o built
    BY <1>3 DEF StepIsBuilt, RetriersOf, built
  <2>2. PICK S : built \in Seq(S)
    BY <1>1
  <2> DEFINE T == S \cup {own[1]}
  <2>3. built \in Seq(T)
    <3>1. S \subseteq T
      OBVIOUS
    <3> QED  BY <2>2, <3>1, SeqMonotonic
  <2>4. own \in Seq(T) /\ Len(own) = 1 /\ own[1].interval = 2
    BY DEF RetryOnServiceExceptions
  <2> HIDE DEF T, own
  <2>5. /\ own \o built \in Seq(T)
        /\ Len(own \o built) = Len(own) + Len(built)
        /\ \A i \in 1..(Len(own) + Len(built)) :
             (own \o built)[i] = IF i <= Len(own) THEN own[i] ELSE built[i - Len(own)]
    BY <2>3, <2>4, ConcatProperties
  <2>6. /\ DOMAIN step.retriers = 1..(n + 1)
        /\ step.retriers[1] = own[1]
    BY <1>1, <2>1, <2>4, <2>5
  <2>7. ASSUME NEW i \in 1..n
        PROVE  step.retriers[1 + i] = built[i]
    <3>1. 1 + i \in 1..(Len(own) + Len(built)) /\ ~(1 + i <= Len(own))
            /\ (1 + i) - Len(own) = i
      BY <1>1, <2>4
    <3> QED  BY <2>1, <2>5, <3>1
  <2>8. \A i \in DOMAIN step.retriers : step.retriers[i].interval \in Nat
    <3> SUFFICES ASSUME NEW i \in 1..(n + 1)
                 PROVE  step.retriers[i].interval \in Nat
      BY <2>6
    <3>1. CASE i = 1
      BY <2>4, <2>6, <3>1
    <3>2. CASE i # 1
      <4>1. i - 1 \in 1..n /\ 1 + (i - 1) = i
        BY <3>2
      <4> QED  BY <1>1, <2>7, <4>1
    <3> QED  BY <3>1, <3>2
  <2> QED  BY <1>1, <1>3, <2>6, <2>7, <2>8 DEF retries, own
<1> QED  BY <1>2, <1>3

(* Its first retrier for an error has the attempts that were asked for;    *)
(* without one, none were asked for.                                       *)
LEMMA RetriersAreAsked ==
    ASSUME NEW step, StepIsBuilt(step), step.kind \in Tasks \cup {"execution"},
           NEW error \in Errors
    PROVE  LET matching == Matching(step, error)
           IN /\ matching \subseteq DOMAIN step.retriers /\ matching \in SUBSET Nat
              /\ matching = {} => AskedRetries(step, error) = 0
              /\ matching # {} =>
                   step.retriers[First(matching)].attempts = AskedRetries(step, error)
<1> DEFINE retries == Retries(step.props.retries)
           own == IF step.kind = "lambda" THEN 1 ELSE 0
           matching == Matching(step, error)
           asked == {i \in DOMAIN retries : error \in retries[i].errors}
<1>1. PICK n \in Nat \ {0} :
        /\ DOMAIN retries = 1..n
        /\ DOMAIN step.retriers = 1..(n + own)
        /\ \A i \in 1..n : step.retriers[own + i] = AddRetry(retries[i])
        /\ step.kind = "lambda" => step.retriers[1] = RetryOnServiceExceptions[1]
  BY RetriersAre
<1>2. matching = {i \in 1..(n + own) : error \in step.retriers[i].errors}
  BY <1>1 DEF Matching
<1>3. matching \subseteq DOMAIN step.retriers /\ matching \in SUBSET Nat
  BY <1>1, <1>2
<1>4. asked \in SUBSET Nat /\ asked \subseteq 1..n
  BY <1>1
<1>5. \A i \in 1..n : own + i \in matching <=> i \in asked
  <2> TAKE i \in 1..n
  <2>1. own + i \in 1..(n + own)
    OBVIOUS
  <2>2. step.retriers[own + i].errors = retries[i].errors
    <3>1. step.retriers[own + i] = AddRetry(retries[i])
      BY <1>1
    <3> HIDE DEF retries
    <3> QED  BY <3>1 DEF AddRetry
  <2> QED  BY <1>1, <1>2, <2>1, <2>2
<1>6. CASE step.kind = "lambda" /\ error = "service"
  <2>1. step.retriers[1].errors = {"service"} /\ step.retriers[1].attempts = 6
    BY <1>1, <1>6 DEF RetryOnServiceExceptions
  <2>2. 1 \in matching
    BY <1>1, <1>2, <1>6, <2>1
  <2>3. First(matching) = 1
    <3> HIDE DEF matching
    <3>1. First(matching) \in matching /\ First(matching) <= 1
      BY <1>3, <2>2, FirstIs
    <3> QED  BY <1>1, <1>2, <3>1
  <2> QED  BY <1>3, <1>6, <2>1, <2>2, <2>3 DEF AskedRetries
<1>7. CASE ~(step.kind = "lambda" /\ error = "service")
  <2>1. \A i \in matching : i - own \in asked
    <3> TAKE i \in matching
    <3>1. i # own
      BY <1>1, <1>2, <1>7 DEF RetryOnServiceExceptions
    <3>2. i - own \in 1..n /\ own + (i - own) = i
      BY <1>1, <1>2, <3>1
    <3> QED  BY <1>5, <3>2
  <2>2. \A i \in asked : own + i \in matching
    BY <1>4, <1>5
  <2>3. asked # {} =>
          /\ AskedRetries(step, error) = MaxAttempts(retries[First(asked)].maxAttempts)
    <3>1. CASE step.props.retries \in {NotSet, <<>>}
      <4>1. retries = DefaultRetryConfig
        BY <3>1 DEF Retries
      <4>2. DOMAIN retries = {1} /\ retries[1].maxAttempts = 6
        BY <4>1 DEF DefaultRetryConfig
      <4>3. AskedRetries(step, error) = 6
        BY <1>7, <3>1 DEF AskedRetries
      <4>4. asked # {} => First(asked) = 1
        <5> HIDE DEF asked
        <5>1. asked # {} => First(asked) \in asked
          BY <1>4, FirstIs
        <5> QED  BY <4>2, <5>1 DEF asked
      <4> QED
        BY <4>2, <4>3, <4>4, NotSetAssumption DEF MaxAttempts, Coalesce
    <3>2. CASE step.props.retries \notin {NotSet, <<>>}
      <4>1. retries = step.props.retries
        BY <3>2 DEF Retries
      <4> QED  BY <1>7, <3>2, <4>1 DEF AskedRetries, First, MaxAttempts
    <3> QED  BY <3>1, <3>2
  <2>4. asked = {} => AskedRetries(step, error) = 0
    <3>1. CASE step.props.retries \in {NotSet, <<>>}
      <4>1. retries = DefaultRetryConfig
        BY <3>1 DEF Retries
      <4>2. 1 \in asked
        BY <4>1 DEF DefaultRetryConfig
      <4> QED  BY <4>2
    <3>2. CASE step.props.retries \notin {NotSet, <<>>}
      <4>1. retries = step.props.retries
        BY <3>2 DEF Retries
      <4> QED  BY <1>7, <3>2, <4>1 DEF AskedRetries
    <3> QED  BY <3>1, <3>2
  <2>5. CASE matching = {}
    BY <1>3, <2>2, <2>4, <2>5
  <2>6. CASE matching # {}
    <3>1. asked # {}
      BY <2>1, <2>6
    <3> HIDE DEF asked, matching
    <3>2. First(asked) \in asked /\ \A j \in asked : First(asked) <= j
      BY <1>4, <3>1, FirstIs
    <3>3. First(matching) \in matching /\ \A j \in matching : First(matching) <= j
      BY <1>3, <2>6, FirstIs
    <3>4. First(matching) = own + First(asked)
      <4>1. First(matching) <= own + First(asked)
        BY <2>2, <3>2, <3>3
      <4>2. First(asked) <= First(matching) - own
        BY <2>1, <3>2, <3>3
      <4>3. First(asked) \in Nat /\ First(matching) \in Nat
        BY <1>3, <1>4, <3>2, <3>3
      <4> QED  BY <4>1, <4>2, <4>3
    <3>5. step.retriers[First(matching)] = AddRetry(retries[First(asked)])
      BY <1>1, <1>4, <3>2, <3>4
    <3> QED  BY <1>3, <2>3, <2>6, <3>1, <3>5 DEF AddRetry, matching
  <2> QED  BY <2>5, <2>6
<1> QED  BY <1>6, <1>7

(* A step that relies on the default retries.                              *)
LEMMA DefaultRetries ==
    ASSUME NEW step, StepIsBuilt(step), ByDefault(step), NEW error \in Errors
    PROVE  LET d == DefaultRetrier(step)
               matching == Matching(step, error)
           IN /\ d \in DOMAIN step.retriers
              /\ step.retriers[d].interval = 30 /\ step.retriers[d].attempts = 6
              /\ matching # {}
              /\ First(matching) # d => step.kind = "lambda" /\ error = "service"
<1> DEFINE retries == Retries(step.props.retries)
           own == IF step.kind = "lambda" THEN 1 ELSE 0
           d == DefaultRetrier(step)
           matching == Matching(step, error)
<1>1. PICK n \in Nat \ {0} :
        /\ DOMAIN retries = 1..n
        /\ DOMAIN step.retriers = 1..(n + own)
        /\ \A i \in 1..n : step.retriers[own + i] = AddRetry(retries[i])
        /\ step.kind = "lambda" => step.retriers[1] = RetryOnServiceExceptions[1]
  BY RetriersAre DEF ByDefault
<1>2. retries = DefaultRetryConfig
  BY DEF ByDefault, Retries
<1>3. /\ DOMAIN retries = {1} /\ retries[1].errors = Errors
      /\ retries[1].intervalInSecs = 30 /\ retries[1].maxAttempts = 6
  BY <1>2 DEF DefaultRetryConfig
<1> HIDE DEF retries
<1>4. n = 1
  <2>1. n \in 1..n
    OBVIOUS
  <2> QED  BY <1>1, <1>3, <2>1
<1>5. d = own + 1 /\ d \in DOMAIN step.retriers
  BY <1>1, <1>4 DEF DefaultRetrier
<1>6. step.retriers[d] = AddRetry(retries[1])
  BY <1>1, <1>4, <1>5
<1>7. /\ step.retriers[d].errors = Errors
      /\ step.retriers[d].interval = 30 /\ step.retriers[d].attempts = 6
  BY <1>3, <1>6, NotSetAssumption
     DEF AddRetry, Interval, Truthy, MaxAttempts, Coalesce
<1>8. d \in matching /\ matching \in SUBSET Nat /\ matching \subseteq 1..(n + own)
  BY <1>1, <1>5, <1>7 DEF Matching
<1>9. First(matching) \in matching
  <2> HIDE DEF matching
  <2> QED  BY <1>8, FirstIs
<1>10. ASSUME First(matching) # d
       PROVE  step.kind = "lambda" /\ error = "service"
  <2>1. step.kind = "lambda" /\ First(matching) = 1
    BY <1>4, <1>5, <1>8, <1>9, <1>10
  <2>2. error \in RetryOnServiceExceptions[1].errors
    BY <1>1, <1>9, <2>1 DEF Matching
  <2> QED  BY <2>1, <2>2 DEF RetryOnServiceExceptions
<1> QED  BY <1>5, <1>7, <1>8, <1>10
-----------------------------------------------------------------------------
(* What a failure makes of an execution *)

UsedSoFar(run, step) ==
    IF run.used = <<>> THEN [i \in DOMAIN step.retriers |-> 0] ELSE run.used

(* It gives up, or it tries again unless that takes too long.              *)
GaveUp(run, r) ==
    r.status = "failed" /\ r.used = run.used /\ r.waited = run.waited

TriesAgain(run, r, step, first) ==
    LET used == UsedSoFar(run, step)
        delay == Delay(step.retriers[first], used[first])
        late == plan.machine.express /\ run.waited + delay > ExpressLimit
    IN /\ r.used = [used EXCEPT ![first] = @ + 1]
       /\ late => r.status = "timedOut" /\ r.waited = run.waited
       /\ ~late => r.status = run.status /\ r.waited = run.waited + delay

LEMMA FailedIs ==
    ASSUME NEW run, DOMAIN NewRun \subseteq DOMAIN run, NEW step, NEW error
    PROVE  LET r == Failed(run, step, error)
               matching == Matching(step, error)
               first == First(matching)
           IN /\ DOMAIN r = DOMAIN run /\ r.at = run.at
              /\ r.calls = run.calls + 1 /\ r.error = error
              /\ matching = {} => GaveUp(run, r)
              /\ matching # {} =>
                   IF UsedSoFar(run, step)[first] = step.retriers[first].attempts
                     THEN GaveUp(run, r)
                   ELSE TriesAgain(run, r, step, first)
<1> DEFINE r == Failed(run, step, error)
           matching == Matching(step, error)
           first == First(matching)
           used == UsedSoFar(run, step)
           delay == Delay(step.retriers[first], used[first])
           seen == [run EXCEPT !.calls = @ + 1, !.error = error]
           gone == [seen EXCEPT !.status = "failed"]
           more == [used EXCEPT ![first] = @ + 1]
           again == [seen EXCEPT !.used = more, !.child = NoChild]
<1>1. {"status", "at", "calls", "used", "waited", "error", "child"} \subseteq DOMAIN run
  BY DEF NewRun
<1>2. r = IF matching = {} THEN gone
          ELSE IF used[first] = step.retriers[first].attempts THEN gone
          ELSE Waits(again, delay)
  BY DEF Failed, First, UsedSoFar
<1>3. /\ DOMAIN gone = DOMAIN run /\ gone.at = run.at
      /\ gone.calls = run.calls + 1 /\ gone.error = error
      /\ gone.status = "failed" /\ gone.used = run.used /\ gone.waited = run.waited
  BY <1>1
<1> HIDE DEF used, delay, more, first, matching
<1>4. /\ DOMAIN again = DOMAIN run /\ again.at = run.at
      /\ again.calls = run.calls + 1 /\ again.error = error
      /\ again.status = run.status /\ again.used = more
      /\ again.waited = run.waited
  BY <1>1
<1> HIDE DEF r, gone, again
<1>5. LET w == Waits(again, delay)
          late == plan.machine.express /\ run.waited + delay > ExpressLimit
      IN /\ DOMAIN w = DOMAIN run /\ w.at = run.at
         /\ w.calls = run.calls + 1 /\ w.error = error /\ w.used = more
         /\ late => w.status = "timedOut" /\ w.waited = run.waited
         /\ ~late => w.status = run.status /\ w.waited = run.waited + delay
  BY <1>1, <1>4 DEF Waits
<1> HIDE DEF seen
<1>6. CASE r = gone
  <2>1. GaveUp(run, r)
    BY <1>3, <1>6 DEF GaveUp
  <2>2. /\ DOMAIN r = DOMAIN run /\ r.at = run.at
        /\ r.calls = run.calls + 1 /\ r.error = error
    BY <1>3, <1>6
  <2>3. r = gone \/ (matching # {} /\ used[first] # step.retriers[first].attempts)
    BY <1>2
  <2>4. CASE matching = {} \/ used[first] = step.retriers[first].attempts
    BY <2>1, <2>2, <2>4 DEF r, matching, first, used
  <2>5. CASE matching # {} /\ used[first] # step.retriers[first].attempts
    <3>1. r = Waits(again, delay)
      BY <1>2, <2>5
    <3>2. TriesAgain(run, r, step, first)
      BY <1>5, <3>1 DEF TriesAgain, more, used, delay
    <3> QED  BY <2>2, <2>5, <3>2 DEF r, matching, first, used
  <2> QED  BY <2>4, <2>5
<1>7. CASE r # gone
  <2>1. r = Waits(again, delay) /\ matching # {}
        /\ used[first] # step.retriers[first].attempts
    BY <1>2, <1>7
  <2>2. TriesAgain(run, r, step, first)
    BY <1>5, <2>1 DEF TriesAgain, more, used, delay
  <2>3. /\ DOMAIN r = DOMAIN run /\ r.at = run.at
        /\ r.calls = run.calls + 1 /\ r.error = error
    BY <1>5, <2>1
  <2> QED  BY <2>1, <2>2, <2>3 DEF r, matching, first, used
<1> QED  BY <1>6, <1>7

LEMMA FailedIsRetried ==
    ASSUME BuiltAsAsked, NEW run, Retried(run), run.status = "running",
           run.at \in DOMAIN steps, NEW error \in Errors
    PROVE  Retried(Failed(run, steps[run.at], error))
<1> DEFINE step == steps[run.at]
           r == Failed(run, step, error)
           matching == Matching(step, error)
           first == First(matching)
           used == UsedSoFar(run, step)
           d == DefaultRetrier(step)
<1>1. /\ DOMAIN r = DOMAIN run /\ r.at = run.at
      /\ r.calls = run.calls + 1 /\ r.error = error
      /\ matching = {} => GaveUp(run, r)
      /\ matching # {} =>
           IF used[first] = step.retriers[first].attempts THEN GaveUp(run, r)
           ELSE TriesAgain(run, r, step, first)
  BY FailedIs DEF Retried, Counts
<1>2. StepIsBuilt(step)
  BY DEF BuiltAsAsked
<1>3. /\ DOMAIN used = DOMAIN step.retriers
      /\ \A i \in DOMAIN step.retriers : used[i] \in 0..run.calls
      /\ \A i \in DOMAIN step.retriers : used[i] = Used(run, i)
      /\ run.calls \in Nat /\ run.waited \in Nat
  BY DEF Retried, Counts, UsedSoFar, Used
<1>4. /\ step.kind \notin Tasks \cup {"execution"} => run.calls = 0
      /\ plan.machine.express => WaitsForDefaults(run, step)
  BY DEF Retried
<1>5. /\ matching \subseteq DOMAIN step.retriers
      /\ matching # {} => first \in DOMAIN step.retriers
  <2>1. matching \subseteq DOMAIN step.retriers
    BY DEF Matching
  <2>2. matching # {} => step.kind \in Tasks \cup {"execution"}
    <3>1. step.kind \notin Tasks \cup {"execution"} => step.retriers = <<>>
      BY <1>2 DEF StepIsBuilt, RetriersOf
    <3> QED  BY <2>1, <3>1
  <2>3. matching # {} => matching \in SUBSET Nat
    BY <1>2, <2>2, RetriersAreAsked
  <2> HIDE DEF matching
  <2>4. matching # {} => First(matching) \in matching
    BY <2>3, FirstIs
  <2> QED  BY <2>1, <2>4
<1>6. ByDefault(step) =>
        /\ d \in DOMAIN step.retriers
        /\ step.retriers[d].interval = 30 /\ step.retriers[d].attempts = 6
        /\ matching # {}
        /\ first # d => step.kind = "lambda" /\ error = "service"
  BY <1>2, DefaultRetries
<1>7. plan.machine.express /\ ByDefault(step) =>
        /\ used[d] \in 0..3 /\ run.waited >= TimeOf(used[d])
        /\ step.kind # "lambda" => run.calls = used[d]
  BY <1>3, <1>4, <1>6 DEF WaitsForDefaults
<1>8. step.kind \in Tasks \cup {"execution"} =>
        /\ matching = {} => AskedRetries(step, error) = 0
        /\ matching # {} => step.retriers[first].attempts = AskedRetries(step, error)
  BY <1>2, RetriersAreAsked
<1>9. step.kind \notin Tasks \cup {"execution"} => matching = {} /\ ~ByDefault(step)
  <2>1. step.kind \notin Tasks \cup {"execution"} => step.retriers = <<>>
    BY <1>2 DEF StepIsBuilt, RetriersOf
  <2> QED  BY <1>5, <2>1 DEF ByDefault
<1>10. DOMAIN NewRun \subseteq DOMAIN r /\ r.calls \in Nat
  BY <1>1, <1>3 DEF Retried, Counts
<1> HIDE DEF r, matching, first, used, d, step
<1>11. ASSUME GaveUp(run, r),
              matching = {} \/ used[first] = step.retriers[first].attempts
       PROVE  Retried(r)
  <2>1. Counts(r)
    <3>1. r.used # <<>> => \A i \in DOMAIN r.used : r.used[i] \in 0..r.calls
      <4>1. ASSUME r.used # <<>>, NEW i \in DOMAIN r.used PROVE r.used[i] \in 0..r.calls
        <5>1. r.used = run.used /\ run.used[i] \in 0..run.calls
          BY <1>11, <4>1 DEF GaveUp, Retried, Counts
        <5> QED  BY <1>1, <1>3, <5>1
      <4> QED  BY <4>1
    <3>2. r.used # <<>> => DOMAIN r.used = DOMAIN steps[r.at].retriers
      BY <1>1, <1>11 DEF GaveUp, Retried, Counts
    <3> QED  BY <1>3, <1>10, <1>11, <3>1, <3>2 DEF Counts, GaveUp
  <2>2. r.status = "failed" /\ r.waited = run.waited
    BY <1>11 DEF GaveUp
  <2>3. GivesUp(r, step)
    <3>1. step.kind \in Tasks \cup {"execution"} => r.calls > AskedRetries(step, error)
      <4>1. CASE matching = {}
        BY <1>1, <1>3, <1>8, <4>1
      <4>2. CASE matching # {}
        <5>1. used[first] \in 0..run.calls
          BY <1>3, <1>5, <4>2
        <5> QED  BY <1>1, <1>3, <1>8, <1>11, <4>2, <5>1
      <4> QED  BY <4>1, <4>2
    <3>2. step.kind = "parallel" => r.calls = 1
      BY <1>1, <1>4 DEF Tasks
    <3> QED  BY <1>1, <3>1, <3>2 DEF GivesUp
  <2>4. ASSUME plan.machine.express PROVE WaitsForDefaults(r, step) /\ Outlasts(r, step)
    <3>1. WaitsForDefaults(r, step)
      BY <1>4, <2>2, <2>4 DEF WaitsForDefaults
    <3>2. Outlasts(r, step)
      <4> SUFFICES ASSUME ByDefault(step)
                   PROVE  step.kind = "lambda" /\ error = "service"
        BY <1>1, <2>2 DEF Outlasts
      <4>1. first # d
        BY <1>6, <1>7, <1>11, <2>4
      <4> QED  BY <1>6, <4>1
    <3> QED  BY <3>1, <3>2
  <2> QED  BY <1>1, <2>1, <2>2, <2>3, <2>4 DEF Retried, step
<1>12. ASSUME TriesAgain(run, r, step, first), matching # {}
       PROVE  Retried(r)
  <2> DEFINE delay == Delay(step.retriers[first], used[first])
             late == plan.machine.express /\ run.waited + delay > ExpressLimit
  <2>1. /\ r.used = [used EXCEPT ![first] = @ + 1]
        /\ late => r.status = "timedOut" /\ r.waited = run.waited
        /\ ~late => r.status = "running" /\ r.waited = run.waited + delay
    BY <1>12 DEF TriesAgain, used
  <2>2. step.kind \in Tasks \cup {"execution"}
    BY <1>9, <1>12
  <2>3. first \in DOMAIN step.retriers /\ used[first] \in Nat
    BY <1>3, <1>5, <1>12
  <2>4. /\ DOMAIN r.used = DOMAIN step.retriers /\ r.used # <<>>
        /\ r.used[first] = used[first] + 1
        /\ \A i \in DOMAIN step.retriers : i # first => r.used[i] = used[i]
    BY <1>3, <2>1, <2>3
  <2>5. step.retriers[first].interval \in Nat
    BY <1>2, <2>2, <2>3, RetriersAre
  <2>6. delay \in Nat
    BY <2>3, <2>5, DelayDoubles
  <2>7. Counts(r)
    <3>1. \A i \in DOMAIN r.used : r.used[i] \in 0..r.calls
      BY <1>1, <1>3, <2>3, <2>4
    <3>2. r.waited \in Nat
      BY <1>3, <2>1, <2>6
    <3> QED  BY <1>1, <1>10, <2>4, <3>1, <3>2 DEF Counts, step
  <2>8. r.status # "failed"
    BY <2>1
  <2>9. ASSUME plan.machine.express PROVE WaitsForDefaults(r, step) /\ Outlasts(r, step)
    <3>1. r.waited <= ExpressLimit
      BY <1>3, <1>4, <2>1, <2>6, <2>9 DEF WaitsForDefaults, ExpressLimit
    <3>2. ASSUME ByDefault(step), first = d
          PROVE  /\ ~late => /\ r.used[d] \in 0..3 /\ r.waited >= TimeOf(r.used[d])
                             /\ step.kind # "lambda" => r.calls = r.used[d]
                 /\ step.kind # "lambda" => r.calls <= 4
      <4>1. used[d] \in 0..3 /\ run.waited >= TimeOf(used[d])
        BY <1>7, <2>9, <3>2
      <4>2. step.retriers[d].interval = 30
        BY <1>6, <3>2
      <4>3. used[d] = 0 => delay = 30 /\ TimeOf(0) = 0 /\ TimeOf(1) = 30
        BY <2>3, <2>5, <3>2, <4>2, DelayDoubles DEF TimeOf
      <4>4. used[d] = 1 => delay = 60 /\ TimeOf(1) = 30 /\ TimeOf(2) = 90
        BY <2>3, <2>5, <3>2, <4>2, DelayDoubles DEF TimeOf
      <4>5. used[d] = 2 => delay = 120 /\ TimeOf(2) = 90 /\ TimeOf(3) = 210
        BY <2>3, <2>5, <3>2, <4>2, DelayDoubles DEF TimeOf
      <4>6. used[d] = 3 => delay = 240 /\ TimeOf(3) = 210
        BY <2>3, <2>5, <3>2, <4>2, DelayDoubles DEF TimeOf
      <4> HIDE DEF delay
      <4>7. step.kind # "lambda" => r.calls = used[d] + 1
        BY <1>1, <1>7, <2>9, <3>2
      <4>8. used[d] = 3 => late
        BY <1>3, <2>9, <4>1, <4>6 DEF ExpressLimit
      <4>9. r.used[d] = used[d] + 1
        BY <2>4, <3>2
      <4>10. ASSUME ~late
             PROVE  r.used[d] \in 0..3 /\ r.waited >= TimeOf(r.used[d])
        <5>1. r.waited = run.waited + delay
          BY <2>1, <4>10
        <5>2. CASE used[d] = 0
          BY <1>3, <4>1, <4>3, <4>9, <5>1, <5>2
        <5>3. CASE used[d] = 1
          BY <1>3, <4>1, <4>4, <4>9, <5>1, <5>3
        <5>4. CASE used[d] = 2
          BY <1>3, <4>1, <4>5, <4>9, <5>1, <5>4
        <5> QED  BY <4>1, <4>8, <4>10, <5>2, <5>3, <5>4
      <4> QED  BY <4>1, <4>7, <4>9, <4>10
    <3>3. ASSUME ByDefault(step), first # d
          PROVE  /\ step.kind = "lambda" /\ r.used[d] \in 0..3
                 /\ r.waited >= TimeOf(r.used[d])
      <4>1. /\ used[d] \in 0..3 /\ run.waited >= TimeOf(used[d])
            /\ r.used[d] = used[d] /\ step.kind = "lambda"
        BY <1>6, <1>7, <2>4, <2>9, <3>3
      <4>2. TimeOf(used[d]) \in Nat
        <5>1. used[d] + 1 \in 1..4
          BY <4>1
        <5> QED  BY <5>1 DEF TimeOf
      <4>3. r.waited >= run.waited
        BY <1>3, <2>1, <2>6
      <4> HIDE DEF TimeOf
      <4> QED  BY <1>3, <2>7, <4>1, <4>2, <4>3 DEF Counts
    <3>4. WaitsForDefaults(r, step)
      <4> SUFFICES ASSUME r.status = "running", ByDefault(step)
                   PROVE  /\ r.used[d] \in 0..3 /\ r.waited >= TimeOf(r.used[d])
                          /\ step.kind # "lambda" => r.calls = r.used[d]
        BY <2>4, <3>1 DEF WaitsForDefaults, Used, d
      <4>1. ~late
        BY <2>1
      <4> QED  BY <3>2, <3>3, <4>1
    <3>5. Outlasts(r, step)
      BY <2>8, <3>2, <3>3 DEF Outlasts
    <3> QED  BY <3>4, <3>5
  <2>10. r.status # "none"
    BY <2>1
  <2>11. GivesUp(r, step)
    BY <2>8 DEF GivesUp
  <2> HIDE DEF delay
  <2> QED  BY <1>1, <2>2, <2>7, <2>8, <2>9, <2>10, <2>11 DEF Retried, step
<1> QED  BY <1>1, <1>11, <1>12 DEF r, step
-----------------------------------------------------------------------------
(* Every action preserves it *)

(* An execution goes to the next step, without calls and retries.          *)
LEMMA FreshIsRetried ==
    ASSUME NEW run, DOMAIN NewRun \subseteq DOMAIN run,
           run.calls = 0 /\ run.used = <<>> /\ run.error = NotSet,
           run.status \in {"running", "succeeded"}, run.waited \in Nat,
           plan.machine.express => run.waited <= ExpressLimit
    PROVE  Retried(run)
<1>1. Counts(run)
  BY DEF Counts
<1>2. ASSUME run.at \in DOMAIN steps
      PROVE  LET step == steps[run.at]
             IN /\ GivesUp(run, step) /\ Outlasts(run, step)
                /\ plan.machine.express => WaitsForDefaults(run, step)
  <2>1. \A i : Used(run, i) = 0
    BY DEF Used
  <2>2. TimeOf(0) = 0
    BY DEF TimeOf
  <2> HIDE DEF TimeOf
  <2> QED  BY <2>1, <2>2 DEF GivesUp, Outlasts, WaitsForDefaults
<1> QED  BY <1>1, <1>2 DEF Retried

LEMMA OnwardIsRetried ==
    ASSUME NEW run, Retried(run), run.at \in DOMAIN steps
    PROVE  Retried(Onward(run))
<1> DEFINE r == Onward(run)
<1>1. {"status", "at", "calls", "used", "waited", "error", "child"} \subseteq DOMAIN run
  BY DEF NewRun, Retried, Counts
<1>2. /\ DOMAIN r = DOMAIN run /\ r.calls = 0 /\ r.used = <<>>
      /\ r.error = NotSet /\ r.status \in {"running", "succeeded"}
      /\ r.waited = run.waited
  BY <1>1 DEF Onward
<1>3. run.waited \in Nat /\ (plan.machine.express => run.waited <= ExpressLimit)
  BY DEF Retried, Counts, WaitsForDefaults
<1> HIDE DEF r
<1>4. Retried(r)
  BY <1>2, <1>3, FreshIsRetried DEF Retried, Counts
<1> QED  BY <1>4 DEF r

LEMMA WaitsIsRetried ==
    ASSUME NEW run, Retried(run), run.status = "running",
           run.at \in DOMAIN steps, steps[run.at].kind = "wait",
           NEW seconds \in Nat
    PROVE  Retried(Waits(run, seconds)) /\ Waits(run, seconds).at = run.at
<1> DEFINE r == Waits(run, seconds)
           late == plan.machine.express /\ run.waited + seconds > ExpressLimit
<1>1. {"status", "at", "calls", "used", "waited", "error", "child"} \subseteq DOMAIN run
  BY DEF NewRun, Retried, Counts
<1>2. /\ DOMAIN r = DOMAIN run /\ r.at = run.at /\ r.calls = run.calls
      /\ r.used = run.used /\ r.error = run.error
      /\ late => r.status = "timedOut" /\ r.waited = run.waited
      /\ ~late => r.status = "running" /\ r.waited = run.waited + seconds
  BY <1>1 DEF Waits
<1>3. run.waited \in Nat /\ run.calls = 0
  BY DEF Retried, Counts, Tasks
<1> HIDE DEF r
<1>4. Counts(r)
  BY <1>2, <1>3 DEF Retried, Counts
<1>5. plan.machine.express => r.waited <= ExpressLimit
  BY <1>2, <1>3 DEF Retried, WaitsForDefaults, ExpressLimit
<1>6. Retried(r)
  BY <1>2, <1>3, <1>4, <1>5
     DEF Retried, GivesUp, WaitsForDefaults, Outlasts, ByDefault, Tasks
<1> QED  BY <1>2, <1>6 DEF r

(* Whatever happens to the others, to the machine's phase and to children. *)
LEMMA RetriedStays ==
    ASSUME UNCHANGED <<plan, steps>>
    PROVE  /\ \A run : Retried(run)' <=> Retried(run)
           /\ BuiltAsAsked => BuiltAsAsked'
<1>1. \A run : Retried(run)' <=> Retried(run)
  BY DEF Retried, Counts, GivesUp, WaitsForDefaults, Outlasts, ByDefault,
         AskedRetries, Used, DefaultRetrier, TimeOf, ExpressLimit, Tasks, NewRun
<1>2. BuiltAsAsked => BuiltAsAsked'
  BY DEF BuiltAsAsked
<1> QED  BY <1>1, <1>2

(* One execution changes.                                                  *)
LEMMA OneRunChanges ==
    ASSUME RetryInv, IInv, phase = "deployed", NEW e \in Executions, NEW run,
           Retried(run), runs' = [runs EXCEPT ![e] = run],
           UNCHANGED <<plan, steps, phase>>
    PROVE  RetryInv'
<1>1. BuiltAsAsked'
  BY DEF RetryInv, BuiltAsAsked
<1>2. \A f \in Executions : runs'[f] = IF f = e THEN run ELSE runs[f]
  BY DEF IInv
<1>3. \A f \in Executions : Retried(runs'[f])
  BY <1>2 DEF RetryInv
<1> QED  BY <1>1, <1>3, RetriedStays DEF RetryInv

(* Building adds a step to the machine, or throws.                         *)
LEMMA BuildsAsAsked ==
    ASSUME BuiltAsAsked, phase = "building", Building
    PROVE  BuiltAsAsked'
<1>1. CASE UNCHANGED <<plan, steps>>
  BY <1>1 DEF BuiltAsAsked
<1>2. ASSUME plan.calls # <<>>
      PROVE  /\ call \in AllCalls /\ Tail(plan.calls) \in Seq(AllCalls)
             /\ call.props # NotSet => MayBeAsked(call.props)
  <2>1. plan.calls \in Seq(AllCalls)
    BY DEF BuiltAsAsked
  <2>2. call \in AllCalls /\ Tail(plan.calls) \in Seq(AllCalls)
    BY <1>2, <2>1, HeadTailProperties DEF call
  <2> QED  BY <2>2, PlansAssumption
<1>3. ASSUME NEW id, NEW kind, NEW retriers, plan.calls # <<>>,
             New(id, kind, retriers), StepIsBuilt(Step(id, kind, retriers))
      PROVE  BuiltAsAsked'
  <2>1. CASE Throws
    BY <1>1, <2>1 DEF Throws
  <2>2. CASE ~Throws
    <3> DEFINE new == Step(id, kind, retriers)
    <3>1. /\ steps' = Append(steps, new)
          /\ plan' = [plan EXCEPT !.calls = Tail(plan.calls)]
      BY <1>3, <2>2 DEF New
    <3>2. PICK S : steps \in Seq(S)
      BY DEF BuiltAsAsked
    <3> DEFINE T == S \cup {new}
    <3>3. steps \in Seq(T)
      <4>1. S \subseteq T
        OBVIOUS
      <4> QED  BY <3>2, <4>1, SeqMonotonic
    <3>4. new \in T
      OBVIOUS
    <3> HIDE DEF T, new
    <3>5. steps' \in Seq(T)
      BY <3>1, <3>3, <3>4
    <3>6. \A i \in DOMAIN steps' : StepIsBuilt(steps'[i])
      <4>1. \A i \in DOMAIN steps' :
               \/ i \in DOMAIN steps /\ steps'[i] = steps[i]
               \/ steps'[i] = new
        BY <3>1, <3>3, <3>4
      <4> QED  BY <1>3, <4>1 DEF BuiltAsAsked, new
    <3>7. "calls" \in DOMAIN plan' /\ plan'.calls \in Seq(AllCalls)
      BY <1>2, <1>3, <3>1 DEF BuiltAsAsked
    <3>8. BuiltAsAsked'
      BY <3>5, <3>6, <3>7
         DEF BuiltAsAsked, StepIsBuilt, RetriersOf, Tasks, MayBeAsked, IsRetryList
    <3> QED  BY <3>8
  <2> QED  BY <2>1, <2>2
<1>4. ASSUME NEW id, NEW kind, NEW retriers
      PROVE  LET step == Step(id, kind, retriers)
             IN step.kind = kind /\ step.retriers = retriers /\ step.props = call.props
  BY DEF Step
<1>5. ASSUME NEW kind \in {"succeed", "fail", "pass", "choice", "parallel", "wait"},
             plan.calls # <<>>, NewNamed(kind, <<>>)
      PROVE  BuiltAsAsked'
  <2>1. CASE call.props = NotSet
    BY <1>1, <1>5, <2>1 DEF NewNamed, Throws
  <2>2. CASE call.props # NotSet
    <3>1. StepIsBuilt(Step(call.props.name, kind, <<>>))
      <4> DEFINE step == Step(call.props.name, kind, <<>>)
      <4>1. step.kind = kind /\ step.retriers = <<>> /\ step.props = call.props
        BY <1>4
      <4> HIDE DEF step
      <4> QED  BY <1>2, <1>5, <2>2, <4>1 DEF StepIsBuilt, RetriersOf, Tasks, step
    <3> QED  BY <1>3, <1>5, <2>2, <3>1 DEF NewNamed
  <2> QED  BY <2>1, <2>2
<1>6. ASSUME NEW kind \in {"dynamodb", "sqs", "api"},
             plan.calls # <<>>, NewTask(kind)
      PROVE  BuiltAsAsked'
  <2>1. CASE call.props = NotSet
    BY <1>1, <1>6, <2>1 DEF NewTask, Throws
  <2>2. CASE call.props # NotSet
    <3> DEFINE retriers == AddRetries(call.props.retries)
               step == Step(call.props.name, kind, retriers)
    <3>1. step.kind = kind /\ step.retriers = retriers /\ step.props = call.props
      BY <1>4
    <3> HIDE DEF step
    <3>2. StepIsBuilt(step)
      BY <1>2, <1>6, <2>2, <3>1 DEF StepIsBuilt, RetriersOf, Tasks
    <3> QED  BY <1>3, <1>6, <2>2, <3>2 DEF NewTask, step
  <2> QED  BY <2>1, <2>2
<1>7. ASSUME plan.calls # <<>>, NewLambdaInvoke
      PROVE  BuiltAsAsked'
  <2>1. CASE call.props = NotSet
    BY <1>1, <1>7, <2>1 DEF NewLambdaInvoke, Throws
  <2>2. CASE call.props # NotSet
    <3> DEFINE retriers == RetryOnServiceExceptions \o AddRetries(call.props.retries)
               step == Step(call.props.name, "lambda", retriers)
    <3>1. step.kind = "lambda" /\ step.retriers = retriers /\ step.props = call.props
      <4> HIDE DEF retriers
      <4> QED  BY <1>4
    <3> HIDE DEF step
    <3>2. StepIsBuilt(step)
      BY <1>2, <1>7, <2>2, <3>1 DEF StepIsBuilt, RetriersOf, Tasks
    <3> QED  BY <1>3, <1>7, <2>2, <3>2 DEF NewLambdaInvoke, step
  <2> QED  BY <2>1, <2>2
<1>8. CASE \/ CreateSuccessStep \/ CreateFailStep \/ CreatePassStep
           \/ CreateChoiceStep \/ CreateWaitStep \/ CreateParallelStep
  BY <1>5, <1>8
     DEF CreateSuccessStep, CreateFailStep, CreatePassStep, CreateChoiceStep,
         CreateWaitStep, CreateParallelStep, Calls
<1>9. CASE \/ CreateDynamoDbGetItemStep \/ CreateDynamoDbPutItemStep
           \/ CreateDynamoDbDeleteItemStep \/ CreateSendSqsMessageStep
           \/ CreateApiStep
  <2>1. plan.calls # <<>> /\ (Throws \/ \E kind \in {"dynamodb", "sqs", "api"} :
                                            NewTask(kind))
    BY <1>9
       DEF CreateDynamoDbGetItemStep, CreateDynamoDbPutItemStep,
           CreateDynamoDbDeleteItemStep, CreateSendSqsMessageStep, CreateApiStep,
           Calls
  <2> QED  BY <1>1, <1>6, <2>1 DEF Throws
<1>10. CASE CreateLambdaStep \/ CreateSkippableLambdaStep
  BY <1>5, <1>7, <1>10 DEF CreateLambdaStep, CreateSkippableLambdaStep, Calls
<1>11. CASE CreateSfnExecutionStep
  <2>1. plan.calls # <<>>
    BY <1>11 DEF CreateSfnExecutionStep, Calls
  <2>2. CASE call.props = NotSet
    BY <1>1, <1>11, <2>2 DEF CreateSfnExecutionStep, Throws
  <2>3. CASE call.props # NotSet
    <3> DEFINE retriers == AddRetries(call.props.retries)
               step == Step(call.id, "execution", retriers)
    <3>1. /\ step.kind = "execution" /\ step.retriers = retriers
          /\ step.props = call.props
      BY <1>4
    <3> HIDE DEF step
    <3>2. StepIsBuilt(step)
      BY <1>2, <2>1, <2>3, <3>1 DEF StepIsBuilt, RetriersOf, Tasks
    <3> QED  BY <1>3, <1>11, <2>1, <2>3, <3>2 DEF CreateSfnExecutionStep, step
  <2> QED  BY <2>2, <2>3
<1>12. CASE CreateMapState
  <2> DEFINE step == Step(call.id, "map", <<>>)
  <2>1. step.kind = "map" /\ step.retriers = <<>>
    BY <1>4
  <2> HIDE DEF step
  <2>2. StepIsBuilt(step)
    BY <2>1 DEF StepIsBuilt, RetriersOf, Tasks
  <2> QED  BY <1>3, <1>12, <2>2 DEF CreateMapState, Calls, step
<1>13. CASE CreateStateMachine
  BY <1>1, <1>13 DEF CreateStateMachine
<1> QED  BY <1>8, <1>9, <1>10, <1>11, <1>12, <1>13 DEF Building

LEMMA InitRetryInv == Init => RetryInv
<1> SUFFICES ASSUME Init PROVE RetryInv
  OBVIOUS
<1>1. /\ "calls" \in DOMAIN plan /\ plan.calls \in Seq(AllCalls)
      /\ steps = <<>> /\ phase = "building"
      /\ \A e \in Executions : runs[e] = NewRun
  BY PlansAssumption DEF Init
<1>2. \E S : steps \in Seq(S)
  BY <1>1
<1>3. DOMAIN steps = {}
  BY <1>1
<1> QED  BY <1>1, <1>2, <1>3 DEF RetryInv, BuiltAsAsked

LEMMA NextRetryInv == RetryInv /\ IInv /\ [Next]_vars => RetryInv'
<1> SUFFICES ASSUME RetryInv, IInv, [Next]_vars PROVE RetryInv'
  OBVIOUS
<1>1. ASSUME UNCHANGED <<plan, steps, runs>>, phase' = phase
      PROVE  RetryInv'
  BY <1>1, RetriedStays DEF RetryInv, NewRun
<1>2. CASE Building
  <2>1. phase = "building" /\ phase' # "deployed" /\ UNCHANGED runs
    BY <1>2, BuildingStartsNothing
  <2>2. BuiltAsAsked'
    BY <1>2, <2>1, BuildsAsAsked DEF RetryInv
  <2> QED  BY <2>1, <2>2 DEF RetryInv, NewRun
<1>3. CASE Deploy
  <2>1. phase # "deployed" /\ UNCHANGED <<plan, steps, runs>>
    BY <1>3 DEF Deploy
  <2>2. \A e \in Executions : runs'[e] = NewRun
    BY <2>1 DEF RetryInv
  <2>3. Retried(NewRun)'
    BY <2>1 DEF Retried, Counts, GivesUp, WaitsForDefaults, Outlasts, NewRun,
                ExpressLimit
  <2>4. BuiltAsAsked'
    BY <2>1 DEF RetryInv, BuiltAsAsked
  <2> QED  BY <2>1, <2>2, <2>3, <2>4 DEF RetryInv, NewRun
<1>4. ASSUME NEW e \in Executions, NEW kinds, IsAt(e, kinds)
      PROVE  /\ phase = "deployed" /\ Retried(runs[e]) /\ runs[e].status = "running"
             /\ runs[e].at \in DOMAIN steps
             /\ StepIsBuilt(StepOf(e)) /\ StepOf(e).kind \in kinds
             /\ Retried(Onward(runs[e]))
             /\ \A error \in Errors : Retried(Failed(runs[e], StepOf(e), error))
  <2>1. runs[e].status = "running" /\ runs[e].at \in DOMAIN steps
        /\ StepOf(e).kind \in kinds
    BY <1>4 DEF IsAt
  <2>2. phase = "deployed"
    BY <2>1 DEF RetryInv, NewRun
  <2>3. Retried(runs[e]) /\ BuiltAsAsked
    BY <2>2 DEF RetryInv
  <2>4. \A error \in Errors : Retried(Failed(runs[e], StepOf(e), error))
    BY <2>1, <2>3, FailedIsRetried DEF StepOf
  <2>5. Retried(Onward(runs[e]))
    BY <2>1, <2>3, OnwardIsRetried
  <2> QED  BY <2>1, <2>2, <2>3, <2>4, <2>5 DEF BuiltAsAsked, StepOf
<1>5. ASSUME NEW e \in Executions, NEW run, Retried(run), Becomes(e, run),
             phase = "deployed"
      PROVE  RetryInv'
  BY <1>5, OneRunChanges DEF Becomes
<1>6. ASSUME NEW e \in Executions, Start(e)
      PROVE  RetryInv'
  <2>1. PICK input \in Inputs :
          runs' = [runs EXCEPT ![e].status = "running", ![e].input = input]
    BY <1>6 DEF Start
  <2> DEFINE run == [[runs[e] EXCEPT !.status = "running"] EXCEPT !.input = input]
  <2>2. runs' = [runs EXCEPT ![e] = run]
    BY <2>1 DEF IInv
  <2>3. phase = "deployed" /\ runs[e] = NewRun
    BY <1>6 DEF Start, RetryInv, Retried
  <2>4. /\ DOMAIN NewRun \subseteq DOMAIN run
        /\ run.calls = 0 /\ run.used = <<>> /\ run.error = NotSet
        /\ run.status = "running" /\ run.waited = 0
    BY <2>3 DEF NewRun
  <2> HIDE DEF run
  <2>5. Retried(run)
    BY <2>4, FreshIsRetried DEF ExpressLimit
  <2> QED  BY <1>6, <2>2, <2>3, <2>5, OneRunChanges DEF Start
<1>7. ASSUME NEW e \in Executions, GoOn(e)
      PROVE  RetryInv'
  BY <1>4, <1>5, <1>7 DEF GoOn
<1>8. ASSUME NEW e \in Executions, Wait(e)
      PROVE  RetryInv'
  <2> DEFINE run == Waits(runs[e], StepOf(e).props.delayInSeconds)
  <2>1. /\ IsAt(e, {"wait"})
        /\ Becomes(e, IF run.status = "running" THEN Onward(run) ELSE run)
    BY <1>8 DEF Wait
  <2>2. /\ phase = "deployed" /\ Retried(runs[e]) /\ runs[e].status = "running"
        /\ runs[e].at \in DOMAIN steps /\ StepOf(e).kind = "wait"
        /\ StepIsBuilt(StepOf(e))
    BY <1>4, <2>1
  <2>3. StepOf(e).props.delayInSeconds \in Nat
    BY <2>2 DEF StepIsBuilt, MayBeAsked
  <2>4. Retried(run) /\ run.at = runs[e].at
    BY <2>2, <2>3, WaitsIsRetried DEF StepOf
  <2> HIDE DEF run
  <2> QED  BY <1>5, <2>1, <2>2, <2>4, OnwardIsRetried
<1>9. ASSUME NEW e \in Executions, Stop(e)
       PROVE  RetryInv'
  <2> DEFINE run == [runs[e] EXCEPT !.status =
                       IF StepOf(e).kind = "fail" THEN "failed" ELSE "succeeded"]
  <2>1. IsAt(e, {"succeed", "fail"}) /\ Becomes(e, run)
    BY <1>9 DEF Stop
  <2>2. /\ phase = "deployed" /\ Retried(runs[e])
        /\ runs[e].at \in DOMAIN steps /\ StepOf(e).kind \in {"succeed", "fail"}
    BY <1>4, <2>1
  <2>3. Retried(run)
    <3>1. {"status", "at", "calls", "used", "waited", "error", "child"}
            \subseteq DOMAIN runs[e]
      BY <2>2 DEF NewRun, Retried, Counts
    <3>2. /\ DOMAIN run = DOMAIN runs[e] /\ run.at = runs[e].at
          /\ run.calls = runs[e].calls /\ run.used = runs[e].used
          /\ run.waited = runs[e].waited /\ run.status \in {"failed", "succeeded"}
      BY <3>1
    <3> HIDE DEF run
    <3> QED
      BY <2>2, <3>2 DEF Retried, Counts, GivesUp, WaitsForDefaults, Outlasts,
                        ByDefault, Tasks, StepOf
  <2> QED  BY <1>5, <2>1, <2>2, <2>3
<1>10. ASSUME NEW e \in Executions, Answer(e)
       PROVE  RetryInv'
  <2>1. /\ IsAt(e, Tasks \cup {"parallel", "map"})
        /\ \/ Becomes(e, Onward(runs[e]))
           \/ \E error \in Errors : Becomes(e, Failed(runs[e], StepOf(e), error))
    BY <1>10 DEF Answer, Errors
  <2> QED  BY <1>4, <1>5, <2>1
<1>11. ASSUME NEW e \in Executions, StartIsLost(e)
       PROVE  RetryInv'
  BY <1>4, <1>5, <1>11 DEF StartIsLost, Errors
<1>12. ASSUME NEW e \in Executions, ParentLearns(e)
       PROVE  RetryInv'
  <2>1. /\ IsAt(e, {"execution"})
        /\ \/ Becomes(e, Onward(runs[e]))
           \/ Becomes(e, Failed(runs[e], StepOf(e), "task"))
    BY <1>12 DEF ParentLearns
  <2> QED  BY <1>4, <1>5, <2>1 DEF Errors
<1>13. ASSUME NEW e \in Executions, StartExecution(e)
       PROVE  RetryInv'
  <2>1. /\ IsAt(e, {"execution"})
        /\ \/ \E name : Becomes(e, [runs[e] EXCEPT !.child = name])
           \/ Becomes(e, Onward(runs[e]))
           \/ \E error \in Errors : Becomes(e, Failed(runs[e], StepOf(e), error))
    BY <1>13 DEF StartExecution, Errors
  <2>2. ASSUME NEW name, Becomes(e, [runs[e] EXCEPT !.child = name])
        PROVE  RetryInv'
    <3> DEFINE run == [runs[e] EXCEPT !.child = name]
    <3>1. phase = "deployed" /\ Retried(runs[e]) /\ runs[e].status = "running"
      BY <1>4, <2>1
    <3>2. {"status", "at", "calls", "used", "waited", "error", "child"}
            \subseteq DOMAIN runs[e]
      BY <3>1 DEF NewRun, Retried, Counts
    <3>3. /\ DOMAIN run = DOMAIN runs[e] /\ run.at = runs[e].at
          /\ run.calls = runs[e].calls /\ run.used = runs[e].used
          /\ run.waited = runs[e].waited /\ run.status = "running"
      BY <3>1, <3>2
    <3> HIDE DEF run
    <3>4. Retried(run)
      BY <3>1, <3>3 DEF Retried, Counts, GivesUp, WaitsForDefaults, Outlasts, Used
    <3> QED  BY <1>5, <2>2, <3>1, <3>4 DEF run
  <2> QED  BY <1>4, <1>5, <2>1, <2>2
<1>14. ASSUME NEW c \in children, ChildEnds(c)
       PROVE  RetryInv'
  BY <1>1, <1>14 DEF ChildEnds
<1>15. CASE UNCHANGED vars
  BY <1>1, <1>15 DEF vars
<1> QED
  BY <1>2, <1>3, <1>6, <1>7, <1>8, <1>9, <1>10, <1>11, <1>12, <1>13, <1>14,
     <1>15 DEF Next

LEMMA RetryInvImplies == RetryInv => RetriedAsAsked
<1> SUFFICES ASSUME RetryInv PROVE RetriedAsAsked
  OBVIOUS
<1>1. ASSUME NEW e \in Executions, phase # "deployed"
      PROVE  runs[e].status = "none"
  BY <1>1 DEF RetryInv, NewRun
<1>2. ASSUME NEW e \in Executions, runs[e].status # "none",
             runs[e].at \in DOMAIN steps
      PROVE  /\ GivesUp(runs[e], StepOf(e))
             /\ plan.machine.express => Outlasts(runs[e], StepOf(e))
  BY <1>1, <1>2 DEF RetryInv, Retried, StepOf
<1>3. ASSUME NEW e \in Executions, runs[e].status = "failed"
      PROVE  runs[e].at \in DOMAIN steps
  BY <1>1, <1>3 DEF RetryInv, Retried
<1>4. GivesUpAfterAskedRetries
  BY <1>2, <1>3 DEF GivesUpAfterAskedRetries, GivesUpAt, GivesUp
<1>5. DefaultRetriesOutlastExpress
  BY <1>2 DEF DefaultRetriesOutlastExpress, Outlasts, ByDefault, StepOf
<1> QED  BY <1>4, <1>5 DEF RetriedAsAsked

(* An execution gives up a task after the retries that were asked for, and *)
(* never one that relies on the default retries in an express machine,     *)
(* whatever the machine, its steps and the errors.                         *)
THEOREM SpecRetriedAsAsked == Spec => []RetriedAsAsked
<1>1. Init => RetryInv /\ IInv
  BY InitRetryInv, InitIInv
<1>2. RetryInv /\ IInv /\ [Next]_vars => (RetryInv /\ IInv)'
  BY NextRetryInv, NextIInv
<1>3. RetryInv => RetriedAsAsked
  BY RetryInvImplies
<1> QED  BY <1>1, <1>2, <1>3, PTL DEF Spec
=============================================================================
