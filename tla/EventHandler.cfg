SPECIFICATION SynthSpec
CONSTANTS
    NotSet = NotSet
    PropsChoices <- MCPropsChoices
INVARIANTS
    ArchiveRecordsTheRule
    EventsTakeOneRoute
    DeployedUnlessItsPropsForbid
\* a construct is deployed once, or fails
CHECK_DEADLOCK FALSE
