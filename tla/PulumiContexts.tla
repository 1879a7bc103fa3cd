---------------------------- MODULE PulumiContexts ---------------------------
(***************************************************************************)
(* CommonAzureStack and CommonCloudflareStack: the constructors that put   *)
(* the props of a stack together from what the program gives, the Pulumi   *)
(* configuration and layers of files, and the tags that Azure stacks give  *)
(* to the resources of the program (packages/azure/src/common/stack.ts and *)
(* tagging.ts, packages/cloudflare/src/common/stack.ts).                   *)
(*                                                                         *)
(* Layers are merged by lodash path by path; a layer is here a function    *)
(* from the paths that matter to values, NotSet where it has none.  Other  *)
(* than with AWS the files are chosen by the configuration alone, never by *)
(* the layers below, and every stack merges into an object of its own.     *)
(***************************************************************************)
EXTENDS Defaults, Naturals, Sequences, FiniteSets

CONSTANTS
    Settings,       \* paths of props, "stage" and "location" among them, and
                    \* "defaultTags" itself, given by an object without tags, too
    TagKeys,        \* paths below defaultTags
    TagsToIgnore,   \* the places of the list tagsToIgnore, paths as well
    Types,          \* resource types: <<provider, module, name>>
    Worlds,         \* programs with what they run in
    MaxResources    \* bound on the resources of a program

Keys == Settings \cup TagKeys

ASSUME KeysAssumption ==
    /\ {"stage", "location", "defaultTags"} \subseteq Settings
    /\ TagsToIgnore \subseteq Settings
    /\ Settings \cap TagKeys = {}

IsSequence(s) == s \in Seq({s[i] : i \in DOMAIN s})

(* Extra contexts are listed, if there are any.                            *)
ASSUME WorldsAssumption ==
    \A w \in Worlds :
        w.config.extraContexts # NotSet => IsSequence(w.config.extraContexts)

VARIABLES
    world,           \* configuration, environment, files and program
    plan,            \* the stacks to construct, the first is under way
    pc,              \* what its constructor does next
    extras,          \* the extra contexts left to merge
    merged,          \* its props so far
    consulted,       \* the layer files it found, by layer
    stacks,          \* the stacks constructed
    transformations, \* what the root of the program does to new resources
    resources,       \* the resources created
    property         \* what getEnvironmentProperty returned last

vars == <<world, plan, pc, extras, merged, consulted, stacks,
          transformations, resources, property>>
-----------------------------------------------------------------------------
NoLayer == [k \in Keys |-> NotSet]
Falsy(v) == v \in {NotSet, ""}
Or(v, default) == IF v = NotSet THEN default ELSE v

MergeKeeps(old, new) ==         \* a mutant: lodash's defaults, not merge
    [k \in Keys |-> IF old[k] # NotSet THEN old[k] ELSE new[k]]

Merge(old, new) ==
    [k \in Keys |-> IF new[k] # NotSet THEN new[k] ELSE old[k]]

config == world.config
Stage == Or(world.env.stage, config.stage)

(* A layer: the file it is in, or NoFile if it is not even looked for.     *)
NoFile == <<>>

RegionFileOfEither ==           \* a mutant: the environment helps out
    LET location == Or(config.location, world.env.location)
    IN IF Falsy(location) \/ Falsy(config.regionContextPath) THEN NoFile
       ELSE <<config.regionContextPath, location>>

RegionFile ==
    IF Falsy(config.location) \/ Falsy(config.regionContextPath) THEN NoFile
    ELSE <<config.regionContextPath, config.location>>

(* A stage that nobody names is sought as well, as undefined.json.         *)
StageFile == <<Or(config.stageContextPath, "env"), Stage>>

StageRegionFile ==
    LET location == Or(config.location, world.env.location)
    IN IF Falsy(Stage) \/ Falsy(location) \/ Falsy(config.stageRegionContextPath)
         THEN NoFile
       ELSE <<config.stageRegionContextPath, Stage, location>>

Found(file) == file \in DOMAIN world.files
Content(file) == IF Found(file) THEN world.files[file] ELSE NoLayer
ExtraNames == IF config.extraContexts = NotSet THEN <<>> ELSE config.extraContexts

(* What the program gives; the configuration overrides it.                 *)
ProgramLayer(stack) == IF stack.props = NotSet THEN NoLayer ELSE stack.props
ConfigLayer == [NoLayer EXCEPT !["stage"] = Stage]

ProgramOverConfig(stack) ==     \* a mutant: the other way round
    Merge(ConfigLayer, ProgramLayer(stack))

OwnProps(stack) == Merge(ProgramLayer(stack), ConfigLayer)
-----------------------------------------------------------------------------
NotConsulted == [region |-> NoFile, stage |-> NoFile, stageRegion |-> NoFile]

Init ==
    /\ world \in Worlds
    /\ plan = world.program
    /\ pc = "idle" /\ extras = <<>>
    /\ merged = NoLayer /\ consulted = NotConsulted
    /\ stacks = <<>> /\ transformations = <<>> /\ resources = {}
    /\ property = NotSet

this == Head(plan)
IsAzure == this.cloud = "azure"
unrelated == <<world, stacks, transformations, resources, property>>

(* A Cloudflare stack without props insists on pulumi.json, and then does  *)
(* not use it.                                                             *)
Construct ==
    /\ pc = "idle" /\ plan # <<>>
    /\ IF this.cloud = "cloudflare" /\ this.props = NotSet /\ ~world.pulumiJson
         THEN pc' = "failed" /\ UNCHANGED <<extras, merged>>
       ELSE /\ pc' = "extra" /\ extras' = ExtraNames
            /\ merged' = OwnProps(this)
    /\ consulted' = NotConsulted
    /\ UNCHANGED <<plan, unrelated>>

(* An extra context must be there, the other layers need not.              *)
DetermineExtraContexts ==
    /\ pc = "extra" /\ extras # <<>>
    /\ IF ~Found(<<Head(extras)>>)
         THEN pc' = "failed" /\ UNCHANGED <<extras, merged>>
       ELSE /\ extras' = Tail(extras)
            /\ merged' = Merge(merged, Content(<<Head(extras)>>))
            /\ UNCHANGED pc
    /\ UNCHANGED <<plan, consulted, unrelated>>

Loads(layer, file) ==
    /\ merged' = Merge(merged, Content(file))
    /\ consulted' = [consulted EXCEPT ![layer] =
                       IF Found(file) THEN file ELSE NoFile]
    /\ UNCHANGED <<plan, extras, unrelated>>

DetermineRegionContexts ==
    /\ pc = "extra" /\ extras = <<>> /\ IsAzure
    /\ pc' = "stage"
    /\ Loads("region", RegionFile)

(* The file of a development stage is read like any other.                 *)
DetermineStageContexts ==
    /\ pc = "stage" \/ (pc = "extra" /\ extras = <<>> /\ ~IsAzure)
    /\ pc' = IF IsAzure THEN "stageRegion" ELSE "props"
    /\ Loads("stage", StageFile)

DetermineStageRegionContexts ==
    /\ pc = "stageRegion"
    /\ pc' = "props"
    /\ Loads("stageRegion", StageRegionFile)

TagsOf(layer) == [k \in TagKeys |-> layer[k]]
NoTags == [k \in TagKeys |-> NotSet]

HasDefaultTags(layer) ==
    layer["defaultTags"] # NotSet \/ TagsOf(layer) # NoTags
IgnoresOf(layer) == {layer[place] : place \in TagsToIgnore} \ {NotSet}

Registration == [tags |-> TagsOf(merged), ignores |-> IgnoresOf(merged)]

Registered ==
    IF IsAzure /\ HasDefaultTags(merged)
      THEN Append(transformations, Registration)
    ELSE transformations

(* The props are complete.  An Azure stack with default tags registers     *)
(* them with the root of the program; the construct made next is a child   *)
(* of the root and has the transformations of that moment for good.        *)
DetermineConstructProps ==
    /\ pc = "props"
    /\ transformations' = Registered
    /\ stacks' = Append(stacks, [of |-> this, props |-> merged,
                                 consulted |-> consulted,
                                 transformedBy |-> Len(transformations')])
    /\ plan' = Tail(plan) /\ pc' = "idle"
    /\ UNCHANGED <<world, extras, merged, consulted, resources, property>>
-----------------------------------------------------------------------------
ResourcesToExcludeTags ==
    {"ApiManagementNamedValue", "Application", "ServicePrincipal",
     "StackReference"}

IsTaggableResource(type) ==
    /\ type[1] \notin {"azuread", "random", "pulumi", "command"}
    /\ type # <<"azure-native", "appconfiguration", "KeyValue">>
    /\ type[1] = "azure-native" /\ type[2] = "apimanagement"
         => type[3] = "ApiManagementService"
    /\ type[3] \notin ResourcesToExcludeTags

TagsOver(tags, defaults) ==
    [k \in TagKeys |-> IF tags[k] # NotSet THEN tags[k] ELSE defaults[k]]

DefaultsOver(tags, defaults) == TagsOver(defaults, tags)    \* a mutant

WithDefaultTags(tags, defaults) == TagsOver(tags, defaults)

(* Each transformation works on what the one before it has left.           *)
Transformed(tags, n) ==
    LET after[i \in 0..n] ==
          IF i = 0 THEN tags
          ELSE WithDefaultTags(after[i - 1], transformations[i].tags)
    IN after[n]

IgnoredByTheLast(n) == IF n = 0 THEN {} ELSE transformations[n].ignores \* a mutant

IgnoredBy(n) == UNION {transformations[i].ignores : i \in 1..n}

(* Some managers give a resource the default tags of its own stack and the *)
(* tags of its props before any transformation, others leave them out.     *)
GivenTags(stack, type, tags, byManager) ==
    IF byManager THEN TagsOver(tags, TagsOf(stack.props)) ELSE tags

CreateResource(i, type, tags, byManager) ==
    LET stack == stacks[i]
        given == GivenTags(stack, type, tags, byManager)
        n == stack.transformedBy
        taggable == IsTaggableResource(type)
    IN /\ stack.of.cloud = "azure"
       /\ Cardinality(resources) < MaxResources
       /\ resources' = resources \cup
            {[of |-> i, type |-> type, given |-> given,
              tags |-> IF taggable THEN Transformed(given, n) ELSE given,
              ignored |-> IF taggable THEN IgnoredBy(n) ELSE {}]}
       /\ UNCHANGED <<world, plan, pc, extras, merged, consulted, stacks,
                      transformations, property>>
-----------------------------------------------------------------------------
(* The directory is sought in six directories from the current one up.     *)
MaxWalk == 6

EnvironmentRoot == config.stageContextPath # NotSet /\ world.depth < MaxWalk

EnvironmentStageOfEither == Stage       \* a mutant: as the stage layer has it
EnvironmentStage == config.stage

(* Programs read single properties before they have a stack.  The file is  *)
(* that of the configured stage.                                           *)
GetEnvironmentProperty ==
    /\ pc = "idle" /\ plan # <<>> /\ property = NotSet
    /\ LET file == <<config.stageContextPath, EnvironmentStage>>
       IN IF EnvironmentRoot /\ Found(file)
            THEN property' = file /\ UNCHANGED pc
          ELSE pc' = "failed" /\ UNCHANGED property
    /\ UNCHANGED <<world, plan, extras, merged, consulted, stacks,
                   transformations, resources>>

Tags == [TagKeys -> {NotSet, "own"}]

Next ==
    \/ Construct \/ DetermineExtraContexts \/ DetermineRegionContexts
    \/ DetermineStageContexts \/ DetermineStageRegionContexts
    \/ DetermineConstructProps
    \/ \E i \in DOMAIN stacks, type \in Types, tags \in Tags, m \in BOOLEAN :
         CreateResource(i, type, tags, m)
    \/ GetEnvironmentProperty

Spec == Init /\ [][Next]_vars
-----------------------------------------------------------------------------
(* A layer that overrides another is later in this list, whatever was      *)
(* found of it (docs/Configuration.md, "priority").                        *)
LayersOf(stack) ==
    <<ProgramLayer(stack), ConfigLayer>>
      \o [i \in DOMAIN ExtraNames |-> Content(<<ExtraNames[i]>>)]
      \o (IF stack.cloud = "azure"
            THEN <<Content(RegionFile), Content(StageFile),
                   Content(StageRegionFile)>>
          ELSE <<Content(StageFile)>>)

Givers(layers, k) == {i \in DOMAIN layers : layers[i][k] # NotSet}

HighestLayerWins ==
    \A s \in DOMAIN stacks : \A k \in Keys :
      LET layers == LayersOf(stacks[s].of)
          givers == Givers(layers, k)
      IN IF givers = {} THEN stacks[s].props[k] = NotSet
         ELSE \E i \in givers :
                /\ \A j \in givers : j <= i
                /\ stacks[s].props[k] = layers[i][k]

(* The stage that a stack deploys is the one whose file it was configured  *)
(* by, unless a file says otherwise: nothing the program gives can part    *)
(* the two if the configuration names a stage.                             *)
DeploysTheStageOfItsFiles ==
    \A s \in DOMAIN stacks :
      LET stack == stacks[s]
          ownFiles == SubSeq(LayersOf(stack.of), 3, Len(LayersOf(stack.of)))
      IN /\ Stage # NotSet /\ Givers(ownFiles, "stage") = {}
           => stack.props["stage"] = Stage
         /\ stack.consulted.stage # NoFile /\ stack.consulted.stageRegion # NoFile
           => stack.consulted.stage[2] = stack.consulted.stageRegion[2]

(* A location that only the environment names chooses the stage-region     *)
(* file but no region file: between them they are never of two locations,  *)
(* but the settings of the region may be missing.                          *)
RegionLayersAgree ==
    \A s \in DOMAIN stacks :
      LET c == stacks[s].consulted
          regionFile == <<config.regionContextPath, c.stageRegion[3]>>
      IN c.stageRegion # NoFile /\ Found(regionFile)
           /\ ~Falsy(config.regionContextPath)
         => /\ c.region \in {NoFile, regionFile}
            /\ (c.region = NoFile) <=> (config.location = NotSet)

(* A property read ahead of the stacks is from the file that they use too, *)
(* unless the environment names the stage.                                 *)
PropertyIsOfTheirStage ==
    property # NotSet =>
      \A s \in DOMAIN stacks :
         (stacks[s].consulted.stage = property)
           <=> (world.env.stage \in {NotSet, config.stage})

(* Whatever was read for a stack is of one stage and one location, but for *)
(* what the two ways to name them, configuration and environment, part.    *)
FilesAreOfItsStage ==
    DeploysTheStageOfItsFiles /\ RegionLayersAgree /\ PropertyIsOfTheirStage

(* A taggable resource has the tags it was given; of the others it has     *)
(* those of the FIRST stack of the program with such a tag, its own stack  *)
(* being the last to ask, and none of a stack constructed after it.  What  *)
(* a manager tags itself is safe from the tags of other stacks.            *)
StacksTagging(k, i) ==
    {j \in 1..i : stacks[j].of.cloud = "azure" /\ stacks[j].props[k] # NotSet}

TagIsOfTheFirstStack ==
    \A r \in resources : \A k \in TagKeys :
      LET tagging == StacksTagging(k, r.of)
      IN IF ~IsTaggableResource(r.type) \/ r.given[k] # NotSet \/ tagging = {}
           THEN r.tags[k] = r.given[k]
         ELSE \E j \in tagging : /\ \A l \in tagging : j <= l
                                 /\ r.tags[k] = stacks[j].props[k]

(* A tag that a stack of the program leaves to others is left to them on   *)
(* the resources of later stacks, too.                                     *)
IgnoredForAll ==
    \A r \in resources : IsTaggableResource(r.type) =>
      r.ignored = UNION {IgnoresOf(stacks[j].props) :
                          j \in {l \in 1..r.of :
                                   /\ stacks[l].of.cloud = "azure"
                                   /\ HasDefaultTags(stacks[l].props)}}

(* What the stacks of a program do to the tags of each other's resources.  *)
TagsAreOfTheFirstStack == TagIsOfTheFirstStack /\ IgnoredForAll
=============================================================================
