\* Layers and tags of the stacks of a Pulumi program.
SPECIFICATION Spec
CONSTANTS
    NotSet = NotSet
    Settings <- MCSettings
    TagKeys <- MCTagKeys
    TagsToIgnore <- MCTagsToIgnore
    Types <- MCTypes
    Worlds <- MCWorlds
    MaxResources = 2
INVARIANTS
    HighestLayerWins
    FilesAreOfItsStage
    TagsAreOfTheFirstStack
\* A program ends.
CHECK_DEADLOCK FALSE
