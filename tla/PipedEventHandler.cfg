SPECIFICATION Spec
CONSTANTS
    NotSet = NotSet
    poisoned = poisoned
    fine = fine
    finer = finer
    Events <- MCEvents
    Poison <- MCPoison
    PropsChoices <- MCPropsChoices
INVARIANTS
    ParkedWasNeverTaken
    OnlyFireAndForgetAbandons
    EveryEventHasOneFate
PROPERTIES
    EveryEventLeavesTheQueue
\* the events are dealt with, or the deployment failed
CHECK_DEADLOCK FALSE
