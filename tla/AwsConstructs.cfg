\* The API, site, Lambda and configuration constructs of the AWS package.
SPECIFICATION Spec
CONSTANTS
    NotSet = NotSet
    Choices <- MCChoices
INVARIANTS
    WellBuilt
    BuiltUnlessItsPropsForbid
    ReachesWhatItUses
    VersionStartsWithinItsRange
    ServedAsItsOwn
    TwinsAreAlike
\* A stack is built and done.
CHECK_DEADLOCK FALSE
