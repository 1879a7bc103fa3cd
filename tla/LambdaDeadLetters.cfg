SPECIFICATION Spec
CONSTANTS
    NotSet = NotSet
    poisoned = poisoned
    fine = fine
    finer = finer
    Events <- MCEvents
    Poison <- MCPoison
    PropsChoices <- MCPropsChoices
INVARIANTS
    DeletedOnlyIfHandled
    HealthyNeverParked
    ParkedAfterEveryRetry
PROPERTIES
    EveryEventSettles
\* the events are settled, or the deployment failed
CHECK_DEADLOCK FALSE
