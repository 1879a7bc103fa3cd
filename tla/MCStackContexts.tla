--------------------------- MODULE MCStackContexts --------------------------
(***************************************************************************)
(* A small application for StackContexts: two stacks, one object with two  *)
(* leaf paths, the keys that steer the layering, two extra contexts, two   *)
(* regions and two stages.  The files are chosen so that every layer can   *)
(* be there or not, can redirect the layers above it, and can make objects *)
(* of the names and directories those are found by.                        *)
(***************************************************************************)
EXTENDS StackContexts, TLC

MCScalarKeys == PathKeys
MCListKeys   == {"extraContexts"}
MCObjectKeys == {"options"}
MCFields     == {"prefix", "suffix"}
MCScalars    == {"", "dev", "prd", "eu", "us", "env", "reg", "top", "x1", "x2",
                 "cdk", "low", "high", "cdk-env"}
MCBoxed      == [v \in MCScalars |-> "String:" \o v]

Layer(overrides) ==
    [k \in Keys |-> IF k \in DOMAIN overrides THEN overrides[k] ELSE Undef]

Options(prefix, suffix) ==
    [options |-> [f \in Fields |-> IF f = "prefix" THEN prefix ELSE suffix]]

BaseContext == Layer(
    [stage |-> "dev", region |-> "eu", extraContexts |-> <<"x1", "x2">>,
     regionContextPath |-> "reg", stageContextPath |-> "env",
     stageRegionContextPath |-> "top"] @@ Options("cdk", "cdk"))

MCAppContexts ==
    {BaseContext,
     [BaseContext EXCEPT !["options"] = Undef],
     [BaseContext EXCEPT !["options"] = Null, !["stageContextPath"] = ""],
     [BaseContext EXCEPT !["region"] = Undef],
     [BaseContext EXCEPT !["extraContexts"] = <<"x2">>],
     [BaseContext EXCEPT !["extraContexts"] = Undef, !["stage"] = Null]}

(* The ways a file can be: one of these contents, or not there.            *)
Holds(path, contents) == {path :> content : content \in contents}
MayHold(path, contents) == {<<>>} \cup Holds(path, contents)

Extra1 == Holds(<<"x1">>,
    {Layer(Options("low", Undef)), Layer([options |-> Null, region |-> "us"]),
     Layer([regionContextPath |-> Null, stage |-> Null])})
Extra2 == MayHold(<<"x2">>,
    {Layer(Options(Undef, "low")),
     Layer([extraContexts |-> <<"x1">>, stage |-> "prd", region |-> Null])})
RegionEu == MayHold(<<"reg", "eu">>,
    {Layer(Options("high", Undef)
         @@ [stage |-> "prd", extraContexts |-> Null])})
RegionUs == Holds(<<"reg", "us">>,
    {Layer(Options(Undef, "high")),
     Layer([stageContextPath |-> Null, stage |-> Null])})
StageDev == MayHold(<<"env", "dev">>,
    {Layer(Options(Null, Undef)), Layer([region |-> "us", options |-> Null])})
StagePrd == Holds(<<"env", "prd">>,
    {Layer(Options("low", "high")), Layer([stageRegionContextPath |-> Null])})
StageDefault == Holds(<<"cdk-env", "dev">>, {Layer(Options("high", "high"))})
StageNull == Holds(<<"env", Null>>, {Layer(Options("high", "low"))})
TopDevUs == MayHold(<<"top", "dev", "us">>, {Layer(Options("low", Undef))})
TopPrdUs == Holds(<<"top", "prd", "us">>, {Layer(Options(Undef, "cdk"))})
TopDevEu == MayHold(<<"top", "dev", "eu">>,
    {Layer(Options("high", Undef) @@ [region |-> "us"])})

(* The files that are always there, with one content.                      *)
Fixed ==
    {region @@ default @@ null @@ top :
        region \in RegionUs, default \in StageDefault,
        null \in StageNull, top \in TopPrdUs}

MCFileSystems ==
    {fixed @@ lower[1] @@ lower[2] @@ region @@ stage @@ top :
        fixed \in Fixed, lower \in Extra1 \X Extra2, region \in RegionEu,
        stage \in {dev @@ prd : dev \in StageDev, prd \in StagePrd},
        top \in {us @@ eu : us \in TopDevUs, eu \in TopDevEu}}
=============================================================================
