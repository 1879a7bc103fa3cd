SPECIFICATION Spec
CONSTANTS
    Stacks = {web, api}
    NoStack = NoStack
    Undef = Undef
    Null = Null
    Bare = Bare
    ScalarKeys <- MCScalarKeys
    ListKeys <- MCListKeys
    ObjectKeys <- MCObjectKeys
    Fields <- MCFields
    Scalars <- MCScalars
    Boxed <- MCBoxed
    AppContexts <- MCAppContexts
    FileSystems <- MCFileSystems
INVARIANT
    ArraysAreDeepMerged
