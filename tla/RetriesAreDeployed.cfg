SPECIFICATION Spec
CONSTANTS
    NotSet = NotSet
    poisoned = poisoned
    fine = fine
    finer = finer
    Events <- MCEvents
    Poison <- MCPoison
    PropsChoices <- MCPropsChoices
INVARIANTS
    RetriesAreDeployed
CHECK_DEADLOCK FALSE
