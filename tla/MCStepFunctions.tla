--------------------------- MODULE MCStepFunctions ---------------------------
(* Machines of one to four steps, two executions each.                     *)
EXTENDS StepFunctions

CONSTANTS e1, e2
MCExecutions == {e1, e2}
MCInputs == {"a", "b"}

Retry(errors, seconds, attempts) ==
    [errors |-> errors, intervalInSecs |-> seconds, interval |-> NotSet,
     maxAttempts |-> attempts]

All == Retry(Errors, 5, 1)
OfTask == Retry({"task"}, 100, 2)
AtOnce == Retry({"task", "exists"}, 0, NotSet)
Later == [Retry({"service"}, NotSet, 1) EXCEPT !.interval = 5]

RetryLists ==
    {NotSet, <<>>, <<OfTask>>, <<OfTask, All>>, <<All, OfTask>>, <<AtOnce, Later>>}

Props(name) ==
    [name |-> name, retries |-> NotSet, messageBody |-> TRUE,
     delayInSeconds |-> 200, executionName |-> NotSet,
     associateWithParent |-> NotSet, sync |-> FALSE]

Asks(method, stepProps) ==
    [method |-> method, id |-> "id", props |-> stepProps, skipExecution |-> FALSE]

TaskMethods ==
    {"createDynamoDbGetItemStep", "createDynamoDbPutItemStep",
     "createDynamoDbDeleteItemStep", "createSendSqsMessageStep",
     "createLambdaStep", "createSkippableLambdaStep", "createApiStep"}
OtherMethods ==
    {"createSuccessStep", "createFailStep", "createPassStep",
     "createChoiceStep", "createWaitStep", "createParallelStep",
     "createSfnExecutionStep", "createMapState"}

Machine == [express |-> FALSE, childExpress |-> FALSE, stateMachineName |-> TRUE]
Machines == {[Machine EXCEPT !.express = x] : x \in BOOLEAN}

PlansOf(calls, machines, executions) ==
    [calls : calls, machine : machines, executions : {executions}]

(* One step of each kind of task, with each list of retries.               *)
TaskPlans ==
    PlansOf({<<Asks(m, [Props("task") EXCEPT !.retries = r])>> :
               m \in TaskMethods, r \in RetryLists}, Machines, {e1})

(* A step that starts an execution of another machine.                     *)
ExecutionProps ==
    {[Props("child") EXCEPT !.executionName = n, !.associateWithParent = a,
         !.sync = s, !.retries = r] :
       n \in {NotSet, "given", "path"}, a \in {NotSet, TRUE, FALSE},
       s \in BOOLEAN, r \in {NotSet, <<AtOnce, Later>>, <<OfTask, All>>}}

(* Two of them after each other, one waiting, with names of their own or   *)
(* not.                                                                    *)
TwoStarts ==
    {<<[Asks("createSfnExecutionStep", [Props("one") EXCEPT
             !.executionName = n, !.retries = <<OfTask>>]) EXCEPT !.id = "one"],
       [Asks("createSfnExecutionStep", [Props("two") EXCEPT
             !.executionName = n, !.retries = <<OfTask>>, !.sync = TRUE])
          EXCEPT !.id = "two"]>> : n \in {NotSet, "given", "path"}}

ExecutionPlans ==
    PlansOf({<<Asks("createSfnExecutionStep", p)>> : p \in ExecutionProps},
            {Machine, [Machine EXCEPT !.childExpress = TRUE]}, MCExecutions)
    \cup
    PlansOf({<<Asks("createSfnExecutionStep",
                   [Props("child") EXCEPT !.sync = s])>> : s \in BOOLEAN},
            {[Machine EXCEPT !.express = TRUE, !.childExpress = x] : x \in BOOLEAN},
            MCExecutions)
    \cup PlansOf(TwoStarts, {Machine}, MCExecutions)

(* Steps one after the other, with ids that clash or do not.               *)
StepSequences ==
    {<<Asks(m, Props(n)), Asks("createPassStep", Props("id")),
       Asks("createSuccessStep", Props("end"))>> :
       m \in OtherMethods, n \in {"step", "id"}}
    \cup {<<Asks("createWaitStep", Props("wait")),
            Asks("createApiStep", [Props("call") EXCEPT !.retries = r]),
            Asks("createParallelStep", [Props("parallel") EXCEPT !.retries = r]),
            Asks("createFailStep", Props("fail"))>> : r \in RetryLists}

Incomplete ==
    {<<Asks(m, NotSet)>> : m \in TaskMethods \cup OtherMethods}
    \cup {<<Asks("createSendSqsMessageStep",
                [Props("send") EXCEPT !.messageBody = NotSet])>>,
          <<[Asks("createSkippableLambdaStep", Props("skipped"))
               EXCEPT !.skipExecution = TRUE]>>}

MCPlans ==
    TaskPlans \cup ExecutionPlans
      \cup PlansOf(StepSequences \cup Incomplete,
                   Machines \cup {NotSet, [Machine EXCEPT !.stateMachineName = NotSet]},
                   {e1})
=============================================================================
