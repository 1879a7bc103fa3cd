---------------------------- MODULE ConfigLayers ----------------------------
(***************************************************************************)
(* The data of layered configuration: what a configuration value is, which *)
(* file each layer consults, and what a configuration resolves to when     *)
(* layers override each other.  It is shared by LayeredConfig (what the    *)
(* layering promises) and StackContexts (how CommonStack does it).         *)
(*                                                                         *)
(* A top level key keeps one kind in cdk.json and in every file: object,   *)
(* list or scalar.  An object is flattened to its leaf paths (a nested     *)
(* array contributes one path per index), because lodash merges nested     *)
(* objects and arrays path by path.  A null is merged like an object, and  *)
(* what lodash's merge returns for merge("dev", null) is a String object:  *)
(* it reads as "dev" in a template string, but is no string for path.join, *)
(* and is truthy even when the string is empty.                            *)
(***************************************************************************)
EXTENDS Naturals, Sequences, FiniteSetsExt

CONSTANTS
    ScalarKeys,  \* top level keys that hold a string, number or boolean
    ListKeys,    \* top level keys that hold an array
    ObjectKeys,  \* top level keys that hold an object
    Fields,      \* leaf paths of the objects
    Scalars,     \* scalar values; those of path keys are strings
    Undef,       \* JavaScript's undefined: no such entry
    Null,        \* JSON null
    Bare,        \* the empty object {} under a key that should hold none
    Boxed        \* the object that Object(v) makes of each scalar v

Keys == ScalarKeys \cup ListKeys \cup ObjectKeys

PathKeys == {"stage", "region", "regionContextPath", "stageContextPath",
             "stageRegionContextPath"}

ASSUME KeysAssumption ==
    /\ PathKeys \subseteq ScalarKeys
    /\ "extraContexts" \in ListKeys
    /\ ScalarKeys \cap ListKeys = {}
    /\ (ScalarKeys \cup ListKeys) \cap ObjectKeys = {}

Nothing == {Undef, Null}

Objects == [Fields -> Scalars \cup {Undef, Null}]

Boxes == {Boxed[v] : v \in Scalars}

ASSUME ValuesAssumption ==
    /\ Undef # Null /\ Undef # Bare /\ Null # Bare
    /\ Undef \notin Scalars /\ Null \notin Scalars /\ Bare \notin Scalars
    /\ Undef \notin Objects /\ Null \notin Objects
    /\ Undef \notin Seq(Scalars) /\ Null \notin Seq(Scalars)

ASSUME BoxedAssumption ==
    /\ Boxes \cap (Scalars \cup {Undef, Null, Bare}) = {}
    /\ \A v, w \in Scalars : Boxed[v] = Boxed[w] => v = w

(* The content of cdk.json, or of one file, as JSON.parse returns it.      *)
GivenOf(k) ==
    IF k \in ObjectKeys THEN Objects
    ELSE IF k \in ListKeys THEN Seq(Scalars)
    ELSE Scalars

IsContent(c) ==
    /\ c = [k \in Keys |-> c[k]]
    /\ \A k \in Keys : c[k] \in GivenOf(k) \/ c[k] \in Nothing

(* A configuration, which merge left objects of its own in.                *)
ValuesOf(k) ==
    IF k \in ObjectKeys THEN Objects
    ELSE {Bare} \cup (IF k \in ListKeys THEN Seq(Scalars)
                      ELSE Scalars \cup Boxes)

IsConfig(c) ==
    /\ c = [k \in Keys |-> c[k]]
    /\ \A k \in Keys : c[k] \in ValuesOf(k) \/ c[k] \in Nothing

NoLayer == [k \in Keys |-> Undef]

-----------------------------------------------------------------------------
(* Which file a layer consults, given the configuration resolved so far.   *)
(* A path is the sequence of its parts: a file of a directory is           *)
(* <<directory, name>>, or <<directory, stage, region>>.                   *)

Falsy(v) == v \in {Undef, Null, ""}

(* What a value is in a template string.                                   *)
Text(v) == IF v \in Boxes THEN CHOOSE w \in Scalars : Boxed[w] = v ELSE v

NoPath == <<>>

ExtraNames(c) ==
    IF c["extraContexts"] \in Nothing \cup {Bare} THEN <<>>
    ELSE c["extraContexts"]

ExtraPath(name) == <<name>>

RegionPath(c) ==
    IF Falsy(c["region"]) \/ Falsy(c["regionContextPath"])
    THEN NoPath
    ELSE <<c["regionContextPath"], Text(c["region"])>>

StageDir(c) ==
    IF Falsy(c["stageContextPath"]) THEN "cdk-env" ELSE c["stageContextPath"]

StagePath(c) == <<StageDir(c), Text(c["stage"])>>

StageRegionPath(c) ==
    IF \E k \in {"stage", "region", "stageRegionContextPath"} : Falsy(c[k])
    THEN NoPath
    ELSE <<c["stageRegionContextPath"], Text(c["stage"]), Text(c["region"])>>

(* path.join throws for a directory that is no string.                     *)
Joins(path) == path # NoPath => path[1] \in Scalars

(* A file that is not there is skipped. *)
ContentAt(files, path) ==
    IF path \in DOMAIN files THEN files[path] ELSE NoLayer

-----------------------------------------------------------------------------
(* What lodash's merge leaves in the object `old' for an object key.       *)
MergedObject(old, new) ==
    [f \in Fields |->
        IF new # Null /\ new[f] # Undef THEN new[f]
        ELSE IF old \in Nothing THEN Undef
        ELSE old[f]]

(* Object(old), which merge starts from.                                   *)
AsObject(k, old) ==
    IF old \in Nothing THEN Bare
    ELSE IF k \in ScalarKeys /\ old \in Scalars THEN Boxed[old]
    ELSE old

(* typeof null is "object", so a null is merged, which makes an object of  *)
(* what is there; any other scalar, and every array, replaces the entry.   *)
AfterSet(k, old, new) ==
    IF k \in ObjectKeys THEN MergedObject(old, new)
    ELSE IF new # Null THEN new
    ELSE AsObject(k, old)

-----------------------------------------------------------------------------
(* What a base configuration and a sequence of layers over it resolve to:  *)
(* for an object, the last layer that gives a field decides it; for any    *)
(* other key, the last layer that gives the key.  A null never overrides   *)
(* at the top level: above the last giver it makes an object of the value, *)
(* {} of a missing one.                                                    *)

Givers(layers, k) == {j \in DOMAIN layers : layers[j][k] \notin Nothing}

FieldGivers(layers, k, f) ==
    {j \in Givers(layers, k) : layers[j][k][f] # Undef}

Touched(layers, k) == \E j \in DOMAIN layers : layers[j][k] # Undef

ResolvedField(base, layers, k, f) ==
    LET givers == FieldGivers(layers, k, f)
    IN  IF givers # {} THEN layers[Max(givers)][k][f]
        ELSE IF base[k] \in Nothing THEN Undef
        ELSE base[k][f]

ResolvedPlain(base, layers, k) ==
    LET givers == Givers(layers, k)
        last == IF givers = {} THEN 0 ELSE Max(givers)
        value == IF givers = {} THEN base[k] ELSE layers[last][k]
    IN  IF \E j \in DOMAIN layers : j > last /\ layers[j][k] = Null
        THEN AsObject(k, value)
        ELSE value

Resolved(base, layers) ==
    [k \in Keys |->
        IF k \notin ObjectKeys THEN ResolvedPlain(base, layers, k)
        ELSE IF Touched(layers, k)
        THEN [f \in Fields |-> ResolvedField(base, layers, k, f)]
        ELSE base[k]]

-----------------------------------------------------------------------------
(* The layers of a stack, lowest priority first: the extra contexts named  *)
(* by cdk.json, then region, stage and stage-region, each found with what  *)
(* the layers below it resolve to.                                         *)

ExtraLayers(cdkJson, files) ==
    [j \in DOMAIN ExtraNames(cdkJson) |->
        ContentAt(files, ExtraPath(ExtraNames(cdkJson)[j]))]

WithRegion(cdkJson, files) ==
    LET below == ExtraLayers(cdkJson, files)
    IN  Append(below, ContentAt(files, RegionPath(Resolved(cdkJson, below))))

WithStage(cdkJson, files) ==
    LET below == WithRegion(cdkJson, files)
    IN  Append(below, ContentAt(files, StagePath(Resolved(cdkJson, below))))

AllLayers(cdkJson, files) ==
    LET below == WithStage(cdkJson, files)
    IN  Append(below,
               ContentAt(files, StageRegionPath(Resolved(cdkJson, below))))

ExtrasPresent(cdkJson, files) ==
    \A j \in DOMAIN ExtraNames(cdkJson) :
        ExtraPath(ExtraNames(cdkJson)[j]) \in DOMAIN files

DirectoriesJoin(cdkJson, files) ==
    /\ Joins(RegionPath(Resolved(cdkJson, ExtraLayers(cdkJson, files))))
    /\ Joins(StagePath(Resolved(cdkJson, WithRegion(cdkJson, files))))
    /\ Joins(StageRegionPath(Resolved(cdkJson, WithStage(cdkJson, files))))

(* A constructor gets through its layers.                                  *)
Configurable(cdkJson, files) ==
    ExtrasPresent(cdkJson, files) /\ DirectoriesJoin(cdkJson, files)
=============================================================================
