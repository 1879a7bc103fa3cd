---------------------------- MODULE StackContexts ---------------------------
(***************************************************************************)
(* CommonStack of the AWS package: the constructor that loads the layers   *)
(* of configuration into the context of its construct node, key by key     *)
(* with setContext and lodash's merge (packages/aws/src/common/stack.ts).  *)
(*                                                                         *)
(* The stacks of an application are constructed one after the other on     *)
(* the App that holds the context of cdk.json.  Reading a key of a stack   *)
(* finds the entry of the stack's own node, or else the App's.  merge      *)
(* works IN PLACE on what it reads: merging into an object that only the   *)
(* App holds changes the App's object, and what the stack then sets is a   *)
(* reference to that same object.  So an entry of a stack that aliases the *)
(* App's object reads like no entry at all, and `own' keeps none for it.   *)
(* One step loads one file: nothing else runs while a constructor does.    *)
(***************************************************************************)
EXTENDS ConfigLayers

CONSTANTS
    Stacks,         \* the stacks the application constructs
    AppContexts,    \* the configurations cdk.json may hold
    FileSystems,    \* the sets of layer files there may be: path -> content
    NoStack

ASSUME ContextsAssumption ==
    /\ NoStack \notin Stacks
    /\ \A c \in AppContexts : IsContent(c)
    /\ \A fs \in FileSystems : \A path \in DOMAIN fs : IsContent(fs[path])

VARIABLES
    cdkJson,        \* the context of cdk.json as it was read (history)
    files,          \* the layer files, never written
    app,            \* the context of the App's node, by key
    own,            \* the context of each stack's node, by stack and key
    cur,            \* the stack whose constructor runs
    pc,             \* the method of that constructor that runs next
    extras,         \* the extra context names the loop iterates over
    next,           \* the index of the next of them
    built,          \* the stacks whose configuration is complete
    seen            \* what each of them read when it had loaded all layers

vars == <<cdkJson, files, app, own, cur, pc, extras, next, built,
          seen>>

Phases == {"idle", "extra", "stage", "stageRegion", "props", "failed"}

TypeOK ==
    /\ IsContent(cdkJson)
    /\ \A path \in DOMAIN files : IsContent(files[path])
    /\ IsConfig(app)
    /\ DOMAIN own = Stacks
    /\ \A s \in Stacks : IsConfig(own[s])
    /\ cur \in Stacks \cup {NoStack}
    /\ pc \in Phases
    /\ cur = NoStack <=> pc = "idle"
    /\ extras \in Seq(Scalars)
    /\ next \in 1 .. Len(extras) + 1
    /\ built \subseteq Stacks
    /\ DOMAIN seen = Stacks
    /\ \A s \in Stacks : IsConfig(seen[s])

-----------------------------------------------------------------------------
(* Node.tryGetContext for every key: the nearest entry that is not         *)
(* undefined.                                                              *)
View(s) == [k \in Keys |-> IF own[s][k] = Undef THEN app[k] ELSE own[s][k]]

(* Faulty: setContext on the App for every key it has, not just objects.   *)
SharesAppForAnyKey(s, k) == own[s][k] = Undef /\ app[k] \notin Nothing

(* The object that merge works on is the App's.                            *)
SharesApp(s, k) ==
    /\ k \in ObjectKeys
    /\ own[s][k] = Undef
    /\ app[k] \notin Nothing

(* setContext for every key of one file.                                   *)
SetContexts(s, layer) ==
    /\ app' = [k \in Keys |->
                IF layer[k] # Undef /\ SharesApp(s, k)
                THEN AfterSet(k, app[k], layer[k])
                ELSE app[k]]
    /\ own' = [own EXCEPT ![s] = [k \in Keys |->
                IF layer[k] = Undef \/ SharesApp(s, k)
                THEN own[s][k]
                ELSE AfterSet(k, View(s)[k], layer[k])]]

-----------------------------------------------------------------------------
Init ==
    /\ cdkJson \in AppContexts
    /\ files \in FileSystems
    /\ app = cdkJson
    /\ own = [s \in Stacks |-> NoLayer]
    /\ cur = NoStack
    /\ pc = "idle"
    /\ extras = <<>>
    /\ next = 1
    /\ built = {}
    /\ seen = [s \in Stacks |-> NoLayer]

(* new CommonStack(app, ...): determineExtraContexts reads the list of     *)
(* extra contexts once, before the loop.                                   *)
Construct(s) ==
    /\ pc = "idle"
    /\ s \notin built
    /\ cur' = s
    /\ pc' = "extra"
    /\ extras' = ExtraNames(View(s))
    /\ next' = 1
    /\ UNCHANGED <<cdkJson, files, app, own, built, seen>>

LoadExtra ==
    /\ pc = "extra"
    /\ next <= Len(extras)
    /\ ExtraPath(extras[next]) \in DOMAIN files
    /\ SetContexts(cur, files[ExtraPath(extras[next])])
    /\ next' = next + 1
    /\ UNCHANGED <<cdkJson, files, cur, pc, extras, built, seen>>

(* Faulty: a missing extra context is skipped like the other layers.       *)
ExtraMissingSkipped ==
    /\ pc = "extra"
    /\ next <= Len(extras)
    /\ ExtraPath(extras[next]) \notin DOMAIN files
    /\ next' = next + 1
    /\ UNCHANGED <<cdkJson, files, app, own, cur, pc, extras, built, seen>>

(* A missing extra context throws, which ends the synthesis.               *)
ExtraMissing ==
    /\ pc = "extra"
    /\ next <= Len(extras)
    /\ ExtraPath(extras[next]) \notin DOMAIN files
    /\ pc' = "failed"
    /\ UNCHANGED <<cdkJson, files, app, own, cur, extras, next, built, seen>>

DetermineRegionContexts ==
    /\ pc = "extra"
    /\ next > Len(extras)
    /\ Joins(RegionPath(View(cur)))
    /\ SetContexts(cur, ContentAt(files, RegionPath(View(cur))))
    /\ pc' = "stage"
    /\ UNCHANGED <<cdkJson, files, cur, extras, next, built, seen>>

DetermineStageContexts ==
    /\ pc = "stage"
    /\ Joins(StagePath(View(cur)))
    /\ SetContexts(cur, ContentAt(files, StagePath(View(cur))))
    /\ pc' = "stageRegion"
    /\ UNCHANGED <<cdkJson, files, cur, extras, next, built, seen>>

(* Faulty: the stage file is loaded again in place of the stage-region one. *)
DetermineStageContextsAgain ==
    /\ pc = "stageRegion"
    /\ SetContexts(cur, ContentAt(files, StagePath(View(cur))))
    /\ pc' = "props"
    /\ UNCHANGED <<cdkJson, files, cur, extras, next, built, seen>>

DetermineStageRegionContexts ==
    /\ pc = "stageRegion"
    /\ Joins(StageRegionPath(View(cur)))
    /\ SetContexts(cur, ContentAt(files, StageRegionPath(View(cur))))
    /\ pc' = "props"
    /\ UNCHANGED <<cdkJson, files, cur, extras, next, built, seen>>

(* path.join throws in each of the three methods, for a directory that a   *)
(* null of a layer below has made an object of.                            *)
DirectoryRefused ==
    /\ \/ /\ pc = "extra" /\ next > Len(extras)
          /\ ~Joins(RegionPath(View(cur)))
       \/ pc = "stage" /\ ~Joins(StagePath(View(cur)))
       \/ pc = "stageRegion" /\ ~Joins(StageRegionPath(View(cur)))
    /\ pc' = "failed"
    /\ UNCHANGED <<cdkJson, files, app, own, cur, extras, next, built, seen>>

(* determineConstructProps reads the context into the props that the       *)
(* constructs of the stack work with.                                      *)
DetermineConstructProps ==
    /\ pc = "props"
    /\ seen' = [seen EXCEPT ![cur] = View(cur)]
    /\ built' = built \cup {cur}
    /\ cur' = NoStack
    /\ pc' = "idle"
    /\ UNCHANGED <<cdkJson, files, app, own, extras, next>>

(* The application has constructed its stacks, or failed.                  *)
Ended ==
    /\ pc = "failed" \/ (pc = "idle" /\ built = Stacks)
    /\ UNCHANGED vars

Next ==
    \/ \E s \in Stacks : Construct(s)
    \/ LoadExtra
    \/ ExtraMissing
    \/ DetermineRegionContexts
    \/ DetermineStageContexts
    \/ DetermineStageRegionContexts
    \/ DirectoryRefused
    \/ DetermineConstructProps
    \/ Ended

Spec == Init /\ [][Next]_vars

-----------------------------------------------------------------------------
Target == Resolved(cdkJson, AllLayers(cdkJson, files))

(* Between two constructors every stack constructed so far reads what the  *)
(* layers resolve to over the original cdk.json, field by field, although  *)
(* every constructor wrote into objects that all stacks share.             *)
ResolvedAsIfAlone ==
    pc = "idle" => \A s \in built : View(s) = Target

(* A later constructor never changes what an earlier stack was built with: *)
(* its constructs, which read props at construction, and its tokens, which *)
(* read the context at synthesis, agree.                                   *)
BuiltWithWhatItReads ==
    pc = "idle" => \A s \in built : View(s) = seen[s]

(* The stage-region file "has the highest priority in the configuration    *)
(* hierarchy": a field that the file consulted last gives is what the      *)
(* stack reads, later constructors included.                               *)
StageRegionHasFinalSay ==
    LET top == ContentAt(files, StageRegionPath(
                   Resolved(cdkJson, WithStage(cdkJson, files))))
    IN  pc = "idle" => \A s \in built :
            /\ \A k \in Keys \ ObjectKeys :
                top[k] \notin Nothing => View(s)[k] = top[k]
            /\ \A k \in ObjectKeys : top[k] \notin Nothing =>
                \A f \in Fields :
                    top[k][f] # Undef => View(s)[k][f] = top[k][f]

(* Why that holds.  A key is shared when cdk.json holds an object for it:  *)
(* then every stack reads and merges into the App's object.  What the      *)
(* constructor that runs has loaded so far sits on Base for shared keys    *)
(* (the layers of the stacks before it are in the object already, and      *)
(* applying layers twice changes nothing), on cdk.json for the others.     *)
Shared(k) == k \in ObjectKeys /\ cdkJson[k] \notin Nothing

Base == IF built = {} THEN cdkJson ELSE Target

Loaded ==
    CASE pc = "extra" ->
            [j \in 1 .. next - 1 |-> ExtraLayers(cdkJson, files)[j]]
      [] pc = "stage" -> WithRegion(cdkJson, files)
      [] pc = "stageRegion" -> WithStage(cdkJson, files)
      [] OTHER -> AllLayers(cdkJson, files)

LayersAccumulate ==
    /\ \A k \in Keys :
        IF Shared(k)
        THEN app[k] \notin Nothing /\ \A s \in Stacks : own[s][k] = Undef
        ELSE app[k] = cdkJson[k]
    /\ \A s \in Stacks \ (built \cup {cur}) : own[s] = NoLayer
    /\ \A s \in built : \A k \in Keys : ~Shared(k) => View(s)[k] = Target[k]
    /\ pc = "idle" => \A k \in Keys : Shared(k) => app[k] = Base[k]
    /\ pc \notin {"idle", "failed"} =>
        /\ extras = ExtraNames(cdkJson)
        /\ cur \notin built
        /\ \A k \in Keys :
            IF Shared(k) THEN app[k] = Resolved(Base, Loaded)[k]
            ELSE View(cur)[k] = Resolved(cdkJson, Loaded)[k]

Layered == INSTANCE LayeredConfig
    WITH configured <- built, config <- seen, aborted <- pc = "failed"

(* The constructors implement the atomic promise of LayeredConfig.         *)
ImplementsLayeredConfig == Layered!Spec

-----------------------------------------------------------------------------
(* docs/Configuration.md: "Objects and arrays are deep-merged; primitives  *)
(* are overwritten".  Merging an array keeps the elements past the end of  *)
(* the overriding array.                                                   *)
ArraysAreDeepMerged ==
    pc = "idle" => \A s \in built :
        \A k \in ListKeys : cdkJson[k] \notin Nothing =>
            \A i \in DOMAIN cdkJson[k] : i \in DOMAIN View(s)[k]
=============================================================================
