SPECIFICATION Spec
CONSTANTS
    NotSet = NotSet
    e1 = e1
    e2 = e2
    Plans <- MCPlans
    Executions <- MCExecutions
    Inputs <- MCInputs
INVARIANTS
    RetriedAsAsked
    ChildStartedOnce
    NobodyJoinsAnothers
    FailedChildIsFinal
\* executions end
CHECK_DEADLOCK FALSE
