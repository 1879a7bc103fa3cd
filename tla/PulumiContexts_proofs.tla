------------------------ MODULE PulumiContexts_proofs -----------------------
(***************************************************************************)
(* Proofs about PulumiContexts: which layer decides the props of a stack,  *)
(* which files configure it and whose tags its resources get, for any      *)
(* programs, configurations, environments and files.                       *)
(***************************************************************************)
EXTENDS PulumiContexts, SequenceTheorems, WellFoundedInduction, TLAPS

(* A sequence with one more element.                                       *)
LEMMA AppendOne ==
    ASSUME NEW s, IsSequence(s), NEW e
    PROVE  /\ IsSequence(Append(s, e))
           /\ Len(s) \in Nat /\ DOMAIN s = 1..Len(s)
           /\ Len(Append(s, e)) = Len(s) + 1
           /\ DOMAIN Append(s, e) = 1..(Len(s) + 1)
           /\ \A i \in 1..Len(s) : Append(s, e)[i] = s[i]
           /\ Append(s, e)[Len(s) + 1] = e
<1> DEFINE S == {s[i] : i \in DOMAIN s} \cup {e}
           t == Append(s, e)
<1>1. s \in Seq(S)
  BY DEF IsSequence
<1>2. /\ t \in Seq(S)
      /\ Len(s) \in Nat /\ DOMAIN s = 1..Len(s)
      /\ Len(t) = Len(s) + 1 /\ DOMAIN t = 1..(Len(s) + 1)
      /\ \A i \in 1..Len(s) : t[i] = s[i]
      /\ t[Len(s) + 1] = e
  BY <1>1
<1>3. t \in Seq({t[i] : i \in DOMAIN t})
  BY <1>2
<1> QED  BY <1>2, <1>3 DEF IsSequence

LEMMA TailOfSequence ==
    ASSUME NEW s, IsSequence(s), s # <<>>
    PROVE  /\ IsSequence(Tail(s))
           /\ Len(s) \in Nat \ {0} /\ DOMAIN s = 1..Len(s)
           /\ Len(Tail(s)) = Len(s) - 1
           /\ Head(s) = s[1]
           /\ \A i \in 1..(Len(s) - 1) : Tail(s)[i] = s[i + 1]
<1> DEFINE S == {s[i] : i \in DOMAIN s}
           t == Tail(s)
<1>1. s \in Seq(S)
  BY DEF IsSequence
<1>2. /\ t \in Seq(S)
      /\ Len(s) \in Nat \ {0} /\ DOMAIN s = 1..Len(s)
      /\ Len(t) = Len(s) - 1 /\ DOMAIN t = 1..Len(t)
      /\ \A i \in 1..(Len(s) - 1) : t[i] = s[i + 1]
      /\ Head(s) = s[1]
  BY <1>1
<1> HIDE DEF t
<1>3. t \in Seq({t[i] : i \in DOMAIN t})
  <2>1. \A i \in 1..Len(t) : t[i] \in {t[j] : j \in DOMAIN t}
    BY <1>2
  <2> DEFINE T == {t[j] : j \in DOMAIN t}
  <2> HIDE DEF T
  <2>2. \A i \in 1..Len(t) : t[i] \in T
    BY <2>1 DEF T
  <2>3. t = [i \in 1..Len(t) |-> t[i]] /\ Len(t) \in Nat
    BY <1>2
  <2>4. t \in [1..Len(t) -> T]
    BY <2>2, <2>3
  <2>5. t \in Seq(T)
    BY <2>3, <2>4, SeqDef
  <2> QED  BY <2>5 DEF T
<1> QED  BY <1>2, <1>3 DEF IsSequence, t
-----------------------------------------------------------------------------
(* Layers *)

(* The value is that of the last of the first n layers that gives one.     *)
LastOf(layers, n, k, value) ==
    \/ value = NotSet /\ \A i \in 1..n : layers[i][k] = NotSet
    \/ \E i \in 1..n :
         /\ layers[i][k] # NotSet /\ value = layers[i][k]
         /\ \A j \in 1..n : layers[j][k] # NotSet => j <= i

(* One more layer on top.                                                  *)
LEMMA OneMoreLayer ==
    ASSUME NEW layers, NEW n \in Nat, NEW k, NEW value,
           LastOf(layers, n, k, value)
    PROVE  LastOf(layers, n + 1, k,
                  IF layers[n + 1][k] # NotSet THEN layers[n + 1][k] ELSE value)
<1>1. 1..(n + 1) = (1..n) \cup {n + 1}
  OBVIOUS
<1>2. CASE layers[n + 1][k] # NotSet
  <2>1. \A j \in 1..(n + 1) : j <= n + 1
    OBVIOUS
  <2> QED  BY <1>2, <2>1 DEF LastOf
<1>3. CASE layers[n + 1][k] = NotSet
  BY <1>1, <1>3 DEF LastOf
<1> QED  BY <1>2, <1>3

LEMMA MergedLayer ==
    ASSUME NEW layers, NEW n \in Nat, NEW old, NEW layer,
           layer = layers[n + 1],
           \A k \in Keys : LastOf(layers, n, k, old[k])
    PROVE  \A k \in Keys : LastOf(layers, n + 1, k, Merge(old, layer)[k])
BY OneMoreLayer DEF Merge

LEMMA NamesAreSequence ==
    ASSUME world \in Worlds
    PROVE  /\ IsSequence(ExtraNames)
           /\ Len(ExtraNames) \in Nat /\ DOMAIN ExtraNames = 1..Len(ExtraNames)
<1>1. IsSequence(<<>>)
  BY DEF IsSequence
<1>2. IsSequence(ExtraNames)
  BY <1>1, WorldsAssumption DEF ExtraNames, config
<1> QED  BY <1>2, AppendOne

(* Where each layer is in LayersOf.                                        *)
LEMMA LayersAre ==
    ASSUME world \in Worlds, NEW stack
    PROVE  LET layers == LayersOf(stack)
               m == Len(ExtraNames)
           IN /\ DOMAIN layers = 1..Len(layers)
              /\ layers[1] = ProgramLayer(stack)
              /\ layers[2] = ConfigLayer
              /\ \A i \in 1..m : layers[2 + i] = Content(<<ExtraNames[i]>>)
              /\ stack.cloud = "azure" =>
                   /\ Len(layers) = m + 5
                   /\ layers[m + 3] = Content(RegionFile)
                   /\ layers[m + 4] = Content(StageFile)
                   /\ layers[m + 5] = Content(StageRegionFile)
              /\ stack.cloud # "azure" =>
                   Len(layers) = m + 3 /\ layers[m + 3] = Content(StageFile)
<1> DEFINE m == Len(ExtraNames)
           below == <<ProgramLayer(stack), ConfigLayer>>
           extra == [i \in DOMAIN ExtraNames |-> Content(<<ExtraNames[i]>>)]
           files == IF stack.cloud = "azure"
                      THEN <<Content(RegionFile), Content(StageFile),
                             Content(StageRegionFile)>>
                    ELSE <<Content(StageFile)>>
           S == {below[1], below[2], Content(RegionFile), Content(StageFile),
                 Content(StageRegionFile)} \cup {extra[i] : i \in 1..m}
<1>1. m \in Nat /\ DOMAIN ExtraNames = 1..m
  BY NamesAreSequence
<1>2. below \in Seq(S) /\ Len(below) = 2
  OBVIOUS
<1>3. extra \in Seq(S) /\ Len(extra) = m
  BY <1>1
<1>4. files \in Seq(S) /\ Len(files) = IF stack.cloud = "azure" THEN 3 ELSE 1
  <2>1. CASE stack.cloud = "azure"
    BY <2>1
  <2>2. CASE stack.cloud # "azure"
    BY <2>2
  <2> QED  BY <2>1, <2>2
<1> HIDE DEF S, m, below, extra, files
<1>5. /\ below \o extra \in Seq(S) /\ Len(below \o extra) = 2 + m
      /\ \A i \in 1..(2 + m) : (below \o extra)[i] =
           IF i <= 2 THEN below[i] ELSE extra[i - 2]
  <2>1. /\ below \o extra \in Seq(S)
        /\ Len(below \o extra) = Len(below) + Len(extra)
        /\ \A i \in 1..(Len(below) + Len(extra)) : (below \o extra)[i] =
             IF i <= Len(below) THEN below[i] ELSE extra[i - Len(below)]
    BY <1>2, <1>3, ConcatProperties
  <2> QED  BY <1>2, <1>3, <2>1
<1>6. /\ (below \o extra) \o files \in Seq(S)
      /\ Len((below \o extra) \o files) = 2 + m + Len(files)
      /\ \A i \in 1..(2 + m + Len(files)) : ((below \o extra) \o files)[i] =
           IF i <= 2 + m THEN (below \o extra)[i] ELSE files[i - (2 + m)]
  <2> DEFINE front == below \o extra
  <2> HIDE DEF front
  <2>1. front \in Seq(S) /\ Len(front) = 2 + m
    BY <1>5 DEF front
  <2>2. /\ front \o files \in Seq(S)
        /\ Len(front \o files) = Len(front) + Len(files)
        /\ \A i \in 1..(Len(front) + Len(files)) : (front \o files)[i] =
             IF i <= Len(front) THEN front[i] ELSE files[i - Len(front)]
    BY <1>4, <2>1, ConcatProperties
  <2> QED  BY <2>1, <2>2 DEF front
<1>7. LayersOf(stack) = (below \o extra) \o files
  BY DEF LayersOf, below, extra, files
<1> DEFINE layers == LayersOf(stack)
<1> HIDE DEF layers
<1>8. DOMAIN layers = 1..Len(layers) /\ Len(layers) = 2 + m + Len(files)
  BY <1>6, <1>7 DEF layers
<1>9. \A i \in 1..(2 + m) : layers[i] = IF i <= 2 THEN below[i] ELSE extra[i - 2]
  BY <1>1, <1>4, <1>5, <1>6, <1>7 DEF layers
<1>10. layers[1] = below[1] /\ layers[2] = below[2]
  <2>1. 1 \in 1..(2 + m) /\ 2 \in 1..(2 + m)
    BY <1>1
  <2> QED  BY <1>9, <2>1
<1>11. \A i \in 1..m : layers[2 + i] = Content(<<ExtraNames[i]>>)
  <2> TAKE i \in 1..m
  <2>1. 2 + i \in 1..(2 + m) /\ ~(2 + i <= 2) /\ (2 + i) - 2 = i
    BY <1>1
  <2>2. layers[2 + i] = extra[i]
    BY <1>9, <2>1
  <2> QED  BY <1>1, <2>2 DEF extra
<1>12. \A i \in 1..Len(files) : layers[2 + m + i] = files[i]
  BY <1>1, <1>4, <1>6, <1>7 DEF layers
<1>13. layers[1] = ProgramLayer(stack) /\ layers[2] = ConfigLayer
  BY <1>10 DEF below
<1>14. CASE stack.cloud = "azure"
  <2>1. /\ Len(layers) = m + 5 /\ layers[m + 3] = files[1]
        /\ layers[m + 4] = files[2] /\ layers[m + 5] = files[3]
    BY <1>1, <1>4, <1>8, <1>12, <1>14
  <2>2. /\ files[1] = Content(RegionFile) /\ files[2] = Content(StageFile)
        /\ files[3] = Content(StageRegionFile)
    BY <1>14 DEF files
  <2> QED  BY <1>8, <1>11, <1>14, <1>13, <2>1, <2>2 DEF layers, m
<1>15. CASE stack.cloud # "azure"
  <2>1. Len(layers) = m + 3 /\ layers[m + 3] = files[1]
    BY <1>1, <1>4, <1>8, <1>12, <1>15
  <2>2. files[1] = Content(StageFile)
    BY <1>15 DEF files
  <2> QED  BY <1>8, <1>11, <1>15, <1>13, <2>1, <2>2 DEF layers, m
<1> QED  BY <1>14, <1>15
-----------------------------------------------------------------------------
(* The layers and files of a stack under way *)

Running == {"extra", "stage", "stageRegion", "props"}

LayersRead ==
    CASE pc = "extra"       -> 2 + (Len(ExtraNames) - Len(extras))
      [] pc = "stage"       -> Len(ExtraNames) + 3
      [] pc = "stageRegion" -> Len(ExtraNames) + 4
      [] OTHER              -> Len(LayersOf(this))

(* The extra contexts left are the last ones of the configuration.         *)
Progress ==
    /\ world \in Worlds
    /\ IsSequence(stacks)
    /\ pc = "extra" =>
         /\ IsSequence(extras)
         /\ Len(extras) <= Len(ExtraNames)
         /\ \A i \in 1..Len(extras) :
              extras[i] = ExtraNames[(Len(ExtraNames) - Len(extras)) + i]
    /\ pc \in {"stage", "stageRegion"} => IsAzure

MergedSoFar ==
    pc \in Running =>
      \A k \in Keys : LastOf(LayersOf(this), LayersRead, k, merged[k])

BuiltFromLayers ==
    \A s \in DOMAIN stacks : \A k \in Keys :
      LastOf(LayersOf(stacks[s].of), Len(LayersOf(stacks[s].of)), k,
             stacks[s].props[k])

FoundFile(file) == IF Found(file) THEN file ELSE NoFile

AfterRegion == [NotConsulted EXCEPT !.region = FoundFile(RegionFile)]
AfterStage == [AfterRegion EXCEPT !.stage = FoundFile(StageFile)]

ConsultedBy(stack) ==
    IF stack.cloud = "azure"
      THEN [AfterStage EXCEPT !.stageRegion = FoundFile(StageRegionFile)]
    ELSE [NotConsulted EXCEPT !.stage = FoundFile(StageFile)]

ConsultedSoFar ==
    /\ pc = "extra" => consulted = NotConsulted
    /\ pc = "stage" => consulted = AfterRegion
    /\ pc = "stageRegion" => consulted = AfterStage
    /\ pc = "props" => consulted = ConsultedBy(this)

StacksConsulted ==
    \A s \in DOMAIN stacks : stacks[s].consulted = ConsultedBy(stacks[s].of)

PropertyRead ==
    property # NotSet =>
      /\ config.stageContextPath # NotSet
      /\ property = <<config.stageContextPath, config.stage>>
      /\ Found(property)

LayersInv == Progress /\ MergedSoFar /\ BuiltFromLayers
FilesInv == Progress /\ ConsultedSoFar /\ StacksConsulted /\ PropertyRead

(* What is read depends on the world alone.                                *)
LEMMA WorldStays ==
    ASSUME UNCHANGED world
    PROVE  /\ \A stack : LayersOf(stack)' = LayersOf(stack)
           /\ \A stack : ConsultedBy(stack)' = ConsultedBy(stack)
           /\ \A file : FoundFile(file)' = FoundFile(file)
           /\ ExtraNames' = ExtraNames
           /\ AfterRegion' = AfterRegion /\ AfterStage' = AfterStage
BY DEF LayersOf, ConfigLayer, ProgramLayer, Content, Found, ExtraNames,
       RegionFile, StageFile, StageRegionFile, Stage, config, NoLayer,
       ConsultedBy, FoundFile, AfterRegion, AfterStage, NotConsulted, NoFile

LEMMA InitLayers == Init => LayersInv
<1> SUFFICES ASSUME Init PROVE LayersInv
  OBVIOUS
<1>1. IsSequence(stacks) /\ DOMAIN stacks = {}
  BY DEF Init, IsSequence
<1>2. world \in Worlds /\ pc = "idle"
  BY DEF Init
<1> QED
  BY <1>1, <1>2 DEF LayersInv, Progress, MergedSoFar, BuiltFromLayers, Running

(* A step that leaves the stack under way alone.                           *)
LEMMA StackStays ==
    ASSUME LayersInv, UNCHANGED <<world, plan, extras, merged, stacks>>,
           pc' \in {pc, "failed"}
    PROVE  LayersInv'
<1>1. Progress'
  BY WorldStays DEF LayersInv, Progress, IsAzure, this
<1>2. MergedSoFar'
  <2> SUFFICES ASSUME pc' \in Running PROVE MergedSoFar'
    BY DEF MergedSoFar
  <2>1. pc' = pc
    BY DEF Running
  <2>2. LayersRead' = LayersRead /\ LayersOf(this)' = LayersOf(this)
    BY <2>1, WorldStays DEF LayersRead, this
  <2> QED  BY <2>1, <2>2 DEF LayersInv, MergedSoFar, LastOf
<1>3. BuiltFromLayers'
  BY WorldStays DEF LayersInv, BuiltFromLayers, LastOf
<1> QED  BY <1>1, <1>2, <1>3 DEF LayersInv

(* A step that merges the next layer.                                      *)
LEMMA LayerStep ==
    ASSUME MergedSoFar, pc \in Running, LayersRead \in Nat,
           UNCHANGED <<world, plan>>, pc' \in Running,
           NEW layer, layer = LayersOf(this)[LayersRead + 1],
           merged' = Merge(merged, layer), LayersRead' = LayersRead + 1
    PROVE  MergedSoFar'
<1>1. \A k \in Keys : LastOf(LayersOf(this), LayersRead + 1, k, merged'[k])
  BY MergedLayer DEF MergedSoFar
<1>2. LayersOf(this)' = LayersOf(this)
  BY WorldStays DEF this
<1> QED  BY <1>1, <1>2 DEF MergedSoFar, LastOf

LEMMA StepLayers == LayersInv /\ [Next]_vars => LayersInv'
<1> SUFFICES ASSUME LayersInv, [Next]_vars PROVE LayersInv'
  OBVIOUS
<1> DEFINE m == Len(ExtraNames)
<1>1. m \in Nat /\ DOMAIN ExtraNames = 1..m /\ IsSequence(ExtraNames)
  BY NamesAreSequence DEF LayersInv, Progress
<1>2. Len(LayersOf(this)) = IF IsAzure THEN m + 5 ELSE m + 3
  BY LayersAre DEF LayersInv, Progress, IsAzure
<1>3. CASE Construct /\ pc' # "failed"
  <2>1. /\ pc' = "extra" /\ extras' = ExtraNames /\ merged' = OwnProps(this)
        /\ UNCHANGED <<world, plan, stacks>>
    BY <1>3 DEF Construct, unrelated
  <2>2. Progress'
    BY <1>1, <2>1, WorldStays DEF LayersInv, Progress, IsAzure, this
  <2>3. \A k \in Keys : LastOf(LayersOf(this), 1, k, ProgramLayer(this)[k])
    BY LayersAre DEF LayersInv, Progress, LastOf
  <2>4. \A k \in Keys : LastOf(LayersOf(this), 2, k, merged'[k])
    <3>1. ConfigLayer = LayersOf(this)[1 + 1]
      BY LayersAre DEF LayersInv, Progress
    <3>2. \A k \in Keys : LastOf(LayersOf(this), 1 + 1, k, merged'[k])
      BY <2>1, <2>3, <3>1, MergedLayer DEF OwnProps
    <3> QED  BY <3>2
  <2>5. LayersRead' = 2 /\ LayersOf(this)' = LayersOf(this)
    BY <1>1, <2>1, WorldStays DEF LayersRead, this
  <2>6. MergedSoFar'
    BY <2>4, <2>5 DEF MergedSoFar, LastOf
  <2>7. BuiltFromLayers'
    BY <2>1, WorldStays DEF LayersInv, BuiltFromLayers, LastOf
  <2> QED  BY <2>2, <2>6, <2>7 DEF LayersInv
<1>4. CASE DetermineExtraContexts /\ pc' # "failed"
  <2>1. /\ pc = "extra" /\ pc' = "extra" /\ extras # <<>>
        /\ extras' = Tail(extras)
        /\ merged' = Merge(merged, Content(<<Head(extras)>>))
        /\ UNCHANGED <<world, plan, stacks>>
    BY <1>4 DEF DetermineExtraContexts, unrelated
  <2>2. IsSequence(extras)
    BY <2>1 DEF LayersInv, Progress
  <2>3. /\ IsSequence(extras') /\ Len(extras) \in Nat \ {0}
        /\ Len(extras') = Len(extras) - 1 /\ Head(extras) = extras[1]
        /\ \A i \in 1..(Len(extras) - 1) : extras'[i] = extras[i + 1]
    BY <2>1, <2>2, TailOfSequence
  <2>4. /\ Len(extras) <= m
        /\ \A i \in 1..Len(extras) : extras[i] = ExtraNames[(m - Len(extras)) + i]
    BY <2>1 DEF LayersInv, Progress
  <2>5. Progress'
    <3>1. \A i \in 1..Len(extras') :
            extras'[i] = ExtraNames[(m - Len(extras')) + i]
      <4> TAKE i \in 1..Len(extras')
      <4>1. /\ i \in 1..(Len(extras) - 1) /\ i + 1 \in 1..Len(extras)
            /\ (m - Len(extras')) + i = (m - Len(extras)) + (i + 1)
        BY <1>1, <2>3
      <4> QED  BY <2>3, <2>4, <4>1
    <3>2. Len(extras') <= m /\ ExtraNames' = ExtraNames
      BY <1>1, <2>1, <2>3, <2>4, WorldStays
    <3> QED  BY <2>1, <2>3, <3>1, <3>2 DEF LayersInv, Progress
  <2>6. MergedSoFar'
    <3> DEFINE read == 2 + (m - Len(extras))
    <3>1. LayersRead = read /\ read \in Nat
      BY <1>1, <2>1, <2>3, <2>4 DEF LayersRead
    <3>2. LayersRead' = read + 1
      BY <1>1, <2>1, <2>3, WorldStays DEF LayersRead
    <3>3. (m - Len(extras)) + 1 \in 1..m
      BY <1>1, <2>3, <2>4
    <3>4. Content(<<Head(extras)>>) = LayersOf(this)[2 + ((m - Len(extras)) + 1)]
      <4>1. 1 \in 1..Len(extras)
        BY <2>3
      <4>2. Head(extras) = ExtraNames[(m - Len(extras)) + 1]
        BY <2>3, <2>4, <4>1
      <4> QED  BY <3>3, <4>2, LayersAre DEF LayersInv, Progress
    <3>5. read + 1 = 2 + ((m - Len(extras)) + 1)
      BY <1>1, <2>3
    <3> QED  BY <2>1, <3>1, <3>2, <3>4, <3>5, LayerStep DEF LayersInv, Running
  <2>7. BuiltFromLayers'
    BY <2>1, WorldStays DEF LayersInv, BuiltFromLayers, LastOf
  <2> QED  BY <2>5, <2>6, <2>7 DEF LayersInv
<1>5. CASE DetermineRegionContexts
  <2>1. /\ pc = "extra" /\ extras = <<>> /\ IsAzure /\ pc' = "stage"
        /\ merged' = Merge(merged, Content(RegionFile))
        /\ UNCHANGED <<world, plan, stacks>>
    BY <1>5 DEF DetermineRegionContexts, Loads, unrelated
  <2>2. Progress'
    BY <2>1 DEF LayersInv, Progress, IsAzure, this
  <2>3. MergedSoFar'
    <3>1. LayersRead = m + 2 /\ LayersRead' = m + 3
      BY <1>1, <2>1, WorldStays DEF LayersRead
    <3>2. Content(RegionFile) = LayersOf(this)[m + 3]
      BY <2>1, LayersAre DEF LayersInv, Progress, IsAzure
    <3> QED  BY <1>1, <2>1, <3>1, <3>2, LayerStep DEF LayersInv, Running
  <2>4. BuiltFromLayers'
    BY <2>1, WorldStays DEF LayersInv, BuiltFromLayers, LastOf
  <2> QED  BY <2>2, <2>3, <2>4 DEF LayersInv
<1>6. CASE DetermineStageContexts
  <2>1. /\ pc = "stage" \/ (pc = "extra" /\ extras = <<>> /\ ~IsAzure)
        /\ pc' = IF IsAzure THEN "stageRegion" ELSE "props"
        /\ merged' = Merge(merged, Content(StageFile))
        /\ UNCHANGED <<world, plan, stacks>>
    BY <1>6 DEF DetermineStageContexts, Loads, unrelated
  <2>2. Progress'
    BY <2>1 DEF LayersInv, Progress, IsAzure, this
  <2>3. MergedSoFar'
    <3>1. pc = "stage" <=> IsAzure
      BY <2>1 DEF LayersInv, Progress
    <3>2. LayersRead = IF IsAzure THEN m + 3 ELSE m + 2
      BY <1>1, <2>1, <3>1 DEF LayersRead
    <3>3. LayersRead' = LayersRead + 1
      <4>1. LayersOf(this)' = LayersOf(this) /\ ExtraNames' = ExtraNames
        BY <2>1, WorldStays DEF this
      <4> QED  BY <1>1, <1>2, <2>1, <3>2, <4>1 DEF LayersRead
    <3>4. Content(StageFile) = LayersOf(this)[LayersRead + 1]
      <4>1. CASE IsAzure
        <5>1. LayersRead + 1 = m + 4
          BY <1>1, <3>2, <4>1
        <5> QED  BY <4>1, <5>1, LayersAre DEF LayersInv, Progress, IsAzure
      <4>2. CASE ~IsAzure
        <5>1. LayersRead + 1 = m + 3
          BY <1>1, <3>2, <4>2
        <5> QED  BY <4>2, <5>1, LayersAre DEF LayersInv, Progress, IsAzure
      <4> QED  BY <4>1, <4>2
    <3>5. pc \in Running /\ pc' \in Running /\ LayersRead \in Nat
      BY <1>1, <2>1, <3>2 DEF Running
    <3> QED  BY <2>1, <3>3, <3>4, <3>5, LayerStep DEF LayersInv
  <2>4. BuiltFromLayers'
    BY <2>1, WorldStays DEF LayersInv, BuiltFromLayers, LastOf
  <2> QED  BY <2>2, <2>3, <2>4 DEF LayersInv
<1>7. CASE DetermineStageRegionContexts
  <2>1. /\ pc = "stageRegion" /\ pc' = "props" /\ IsAzure
        /\ merged' = Merge(merged, Content(StageRegionFile))
        /\ UNCHANGED <<world, plan, stacks>>
    BY <1>7 DEF DetermineStageRegionContexts, Loads, unrelated, LayersInv, Progress
  <2>2. Progress'
    BY <2>1 DEF LayersInv, Progress, IsAzure, this
  <2>3. MergedSoFar'
    <3>1. LayersOf(this)' = LayersOf(this)
      BY <2>1, WorldStays DEF this
    <3>2. LayersRead = m + 4 /\ LayersRead' = m + 5
      BY <1>1, <1>2, <2>1, <3>1 DEF LayersRead
    <3>3. Content(StageRegionFile) = LayersOf(this)[m + 5]
      BY <2>1, LayersAre DEF LayersInv, Progress, IsAzure
    <3> QED  BY <1>1, <2>1, <3>2, <3>3, LayerStep DEF LayersInv, Running
  <2>4. BuiltFromLayers'
    BY <2>1, WorldStays DEF LayersInv, BuiltFromLayers, LastOf
  <2> QED  BY <2>2, <2>3, <2>4 DEF LayersInv
<1>8. CASE DetermineConstructProps
  <2> DEFINE new == [of |-> this, props |-> merged, consulted |-> consulted,
                     transformedBy |-> Len(transformations')]
  <2>1. /\ pc = "props" /\ pc' = "idle" /\ stacks' = Append(stacks, new)
        /\ UNCHANGED <<world, extras>>
    BY <1>8 DEF DetermineConstructProps
  <2>2. IsSequence(stacks)
    BY DEF LayersInv, Progress
  <2>3. /\ IsSequence(stacks') /\ Len(stacks) \in Nat
        /\ DOMAIN stacks = 1..Len(stacks)
        /\ DOMAIN stacks' = 1..(Len(stacks) + 1)
        /\ \A s \in 1..Len(stacks) : stacks'[s] = stacks[s]
        /\ stacks'[Len(stacks) + 1] = new
    BY <2>1, <2>2, AppendOne
  <2>4. Progress' /\ MergedSoFar'
    BY <2>1, <2>3 DEF LayersInv, Progress, MergedSoFar, Running
  <2>5. \A k \in Keys :
          LastOf(LayersOf(this), Len(LayersOf(this)), k, merged[k])
    BY <2>1 DEF LayersInv, MergedSoFar, Running, LayersRead
  <2>6. BuiltFromLayers'
    <3> SUFFICES ASSUME NEW s \in DOMAIN stacks', NEW k \in Keys
                 PROVE  LastOf(LayersOf(stacks'[s].of),
                               Len(LayersOf(stacks'[s].of)), k,
                               stacks'[s].props[k])
      BY <2>1, WorldStays DEF BuiltFromLayers, LastOf
    <3>1. CASE s \in DOMAIN stacks
      BY <2>3, <3>1 DEF LayersInv, BuiltFromLayers
    <3>2. CASE s = Len(stacks) + 1
      BY <2>3, <2>5, <3>2
    <3> QED  BY <2>3, <3>1, <3>2
  <2> QED  BY <2>4, <2>6 DEF LayersInv
<1>9. CASE \/ Construct /\ pc' = "failed"
           \/ DetermineExtraContexts /\ pc' = "failed"
           \/ GetEnvironmentProperty
           \/ UNCHANGED vars
  BY <1>9, StackStays
     DEF Construct, DetermineExtraContexts, GetEnvironmentProperty, vars, unrelated
<1>10. CASE \E i \in DOMAIN stacks, type \in Types, tags \in Tags, b \in BOOLEAN :
              CreateResource(i, type, tags, b)
  BY <1>10, StackStays DEF CreateResource
<1> QED
  BY <1>3, <1>4, <1>5, <1>6, <1>7, <1>8, <1>9, <1>10 DEF Next

(* Every setting of a stack is that of the highest layer that has it.      *)
LEMMA LayersDecide == LayersInv => HighestLayerWins
<1> SUFFICES ASSUME LayersInv, NEW s \in DOMAIN stacks, NEW k \in Keys
             PROVE  LET layers == LayersOf(stacks[s].of)
                        givers == Givers(layers, k)
                    IN IF givers = {} THEN stacks[s].props[k] = NotSet
                       ELSE \E i \in givers :
                              /\ \A j \in givers : j <= i
                              /\ stacks[s].props[k] = layers[i][k]
  BY DEF HighestLayerWins
<1> DEFINE layers == LayersOf(stacks[s].of)
<1>1. LastOf(layers, Len(layers), k, stacks[s].props[k])
  BY DEF LayersInv, BuiltFromLayers
<1>2. DOMAIN layers = 1..Len(layers)
  BY LayersAre DEF LayersInv, Progress
<1> HIDE DEF layers
<1>3. Givers(layers, k) = {i \in 1..Len(layers) : layers[i][k] # NotSet}
  BY <1>2 DEF Givers
<1> QED  BY <1>1, <1>3 DEF LastOf, layers

(* The values of a stack are those of the highest layers that give them,   *)
(* whatever configuration, environment and files the program runs with.    *)
THEOREM LayersAreInOrder == Spec => []HighestLayerWins
<1>1. Init => LayersInv
  BY InitLayers
<1>2. LayersInv /\ [Next]_vars => LayersInv'
  BY StepLayers
<1>3. LayersInv => HighestLayerWins
  BY LayersDecide
<1> QED  BY <1>1, <1>2, <1>3, PTL DEF Spec

LEMMA InitFiles == Init => FilesInv
<1> SUFFICES ASSUME Init PROVE FilesInv
  OBVIOUS
<1>1. IsSequence(stacks) /\ DOMAIN stacks = {}
  BY DEF Init, IsSequence
<1> QED
  BY <1>1 DEF Init, FilesInv, Progress, ConsultedSoFar, StacksConsulted, PropertyRead

LEMMA StepFiles == LayersInv /\ FilesInv /\ [Next]_vars /\ Progress' => FilesInv'
<1> SUFFICES ASSUME LayersInv, FilesInv, [Next]_vars, Progress' PROVE FilesInv'
  OBVIOUS
<1>1. world' = world
  BY DEF Next, Construct, DetermineExtraContexts, DetermineRegionContexts,
         DetermineStageContexts, DetermineStageRegionContexts, Loads,
         DetermineConstructProps, CreateResource, GetEnvironmentProperty,
         unrelated, vars
<1>2. ASSUME UNCHANGED property PROVE PropertyRead'
  BY <1>1, <1>2 DEF FilesInv, PropertyRead, config, Found
<1>3. ASSUME UNCHANGED stacks PROVE StacksConsulted'
  BY <1>1, <1>3, WorldStays DEF FilesInv, StacksConsulted
<1>4. ASSUME UNCHANGED <<plan, consulted>>, pc' \in {pc, "failed"}
      PROVE  ConsultedSoFar'
  BY <1>1, <1>4, WorldStays DEF FilesInv, ConsultedSoFar, NotConsulted, NoFile, this
<1>5. CASE Construct
  <2>1. ConsultedSoFar'
    BY <1>5 DEF Construct, ConsultedSoFar, NotConsulted, NoFile
  <2> QED  BY <1>2, <1>3, <1>5, <2>1 DEF Construct, unrelated, FilesInv
<1>6. CASE DetermineExtraContexts
  <2>1. UNCHANGED <<plan, consulted>> /\ pc' \in {pc, "failed"}
    BY <1>6 DEF DetermineExtraContexts
  <2> QED
    BY <1>2, <1>3, <1>4, <1>6, <2>1 DEF DetermineExtraContexts, unrelated, FilesInv
<1>7. CASE DetermineRegionContexts
  <2>1. ConsultedSoFar'
    <3>1. consulted = NotConsulted
      BY <1>7 DEF DetermineRegionContexts, FilesInv, ConsultedSoFar
    <3>2. consulted' = AfterRegion /\ pc' = "stage"
      BY <1>7, <3>1 DEF DetermineRegionContexts, Loads, AfterRegion, FoundFile
    <3> QED  BY <1>1, <3>2, WorldStays DEF ConsultedSoFar
  <2> QED
    BY <1>2, <1>3, <1>7, <2>1 DEF DetermineRegionContexts, Loads, unrelated, FilesInv
<1>8. CASE DetermineStageContexts
  <2>1. ConsultedSoFar'
    <3>1. CASE IsAzure
      <4>1. consulted = AfterRegion
        BY <1>8, <3>1 DEF DetermineStageContexts, FilesInv, ConsultedSoFar
      <4>2. consulted' = AfterStage /\ pc' = "stageRegion"
        BY <1>8, <3>1, <4>1 DEF DetermineStageContexts, Loads, AfterStage, FoundFile
      <4> QED  BY <1>1, <4>2, WorldStays DEF ConsultedSoFar
    <3>2. CASE ~IsAzure
      <4>1. pc = "extra" /\ consulted = NotConsulted
        BY <1>8, <3>2 DEF DetermineStageContexts, FilesInv, Progress, ConsultedSoFar
      <4>2. consulted' = ConsultedBy(this) /\ pc' = "props" /\ plan' = plan
        BY <1>8, <3>2, <4>1
           DEF DetermineStageContexts, Loads, ConsultedBy, FoundFile, IsAzure
      <4> QED  BY <1>1, <4>2, WorldStays DEF ConsultedSoFar, this
    <3> QED  BY <3>1, <3>2
  <2> QED
    BY <1>2, <1>3, <1>8, <2>1 DEF DetermineStageContexts, Loads, unrelated, FilesInv
<1>9. CASE DetermineStageRegionContexts
  <2>1. ConsultedSoFar'
    <3>1. consulted = AfterStage /\ IsAzure
      BY <1>9 DEF DetermineStageRegionContexts, FilesInv, Progress, ConsultedSoFar
    <3>2. consulted' = ConsultedBy(this) /\ pc' = "props" /\ plan' = plan
      BY <1>9, <3>1
         DEF DetermineStageRegionContexts, Loads, ConsultedBy, FoundFile, IsAzure
    <3> QED  BY <1>1, <3>2, WorldStays DEF ConsultedSoFar, this
  <2> QED
    BY <1>2, <1>3, <1>9, <2>1
       DEF DetermineStageRegionContexts, Loads, unrelated, FilesInv
<1>10. CASE DetermineConstructProps
  <2> DEFINE new == [of |-> this, props |-> merged, consulted |-> consulted,
                     transformedBy |-> Len(transformations')]
  <2>1. pc = "props" /\ pc' = "idle" /\ stacks' = Append(stacks, new)
    BY <1>10 DEF DetermineConstructProps
  <2>2. /\ DOMAIN stacks = 1..Len(stacks) /\ Len(stacks) \in Nat
        /\ DOMAIN stacks' = 1..(Len(stacks) + 1)
        /\ \A s \in 1..Len(stacks) : stacks'[s] = stacks[s]
        /\ stacks'[Len(stacks) + 1] = new
    BY <2>1, AppendOne DEF FilesInv, Progress
  <2>3. new.consulted = ConsultedBy(new.of)
    BY <2>1 DEF FilesInv, ConsultedSoFar
  <2>4. StacksConsulted'
    <3> SUFFICES ASSUME NEW s \in DOMAIN stacks'
                 PROVE  stacks'[s].consulted = ConsultedBy(stacks'[s].of)
      BY <1>1, WorldStays DEF StacksConsulted
    <3>1. CASE s \in DOMAIN stacks
      BY <2>2, <3>1 DEF FilesInv, StacksConsulted
    <3>2. CASE s = Len(stacks) + 1
      BY <2>2, <2>3, <3>2
    <3> QED  BY <2>2, <3>1, <3>2
  <2>5. ConsultedSoFar'
    BY <2>1 DEF ConsultedSoFar
  <2> QED  BY <1>2, <1>10, <2>4, <2>5 DEF DetermineConstructProps, FilesInv
<1>11. CASE \E i \in DOMAIN stacks, type \in Types, tags \in Tags, b \in BOOLEAN :
              CreateResource(i, type, tags, b)
  BY <1>2, <1>3, <1>4, <1>11 DEF CreateResource, FilesInv
<1>12. CASE GetEnvironmentProperty
  <2>1. PropertyRead'
    BY <1>1, <1>12
       DEF GetEnvironmentProperty, EnvironmentRoot, EnvironmentStage,
           PropertyRead, config, Found
  <2>2. UNCHANGED <<plan, consulted, stacks>> /\ pc' \in {pc, "failed"}
    BY <1>12 DEF GetEnvironmentProperty
  <2> QED  BY <1>3, <1>4, <2>1, <2>2 DEF FilesInv
<1>13. CASE UNCHANGED vars
  BY <1>2, <1>3, <1>4, <1>13 DEF vars, FilesInv
<1> QED
  BY <1>5, <1>6, <1>7, <1>8, <1>9, <1>10, <1>11, <1>12, <1>13 DEF Next
-----------------------------------------------------------------------------
(* What a stack found                                                      *)

LEMMA FilesFound ==
    ASSUME FilesInv, NEW s \in DOMAIN stacks
    PROVE  LET c == stacks[s].consulted
           IN /\ c.stage = FoundFile(StageFile)
              /\ c.region \in {NoFile, FoundFile(RegionFile)}
              /\ c.stageRegion # NoFile =>
                   /\ c.region = FoundFile(RegionFile)
                   /\ c.stageRegion = StageRegionFile /\ StageRegionFile # NoFile
<1>1. stacks[s].consulted = ConsultedBy(stacks[s].of)
  BY DEF FilesInv, StacksConsulted
<1>2. CASE stacks[s].of.cloud = "azure"
  <2>1. /\ ConsultedBy(stacks[s].of).region = FoundFile(RegionFile)
        /\ ConsultedBy(stacks[s].of).stage = FoundFile(StageFile)
        /\ ConsultedBy(stacks[s].of).stageRegion = FoundFile(StageRegionFile)
    BY <1>2 DEF ConsultedBy, AfterStage, AfterRegion, NotConsulted
  <2> QED  BY <1>1, <2>1 DEF FoundFile
<1>3. CASE stacks[s].of.cloud # "azure"
  BY <1>1, <1>3 DEF ConsultedBy, NotConsulted
<1> QED  BY <1>2, <1>3

LEMMA StageOfTheFiles == LayersInv /\ FilesInv => DeploysTheStageOfItsFiles
<1> SUFFICES ASSUME LayersInv, FilesInv, NEW s \in DOMAIN stacks
             PROVE
      LET stack == stacks[s]
          ownFiles == SubSeq(LayersOf(stack.of), 3, Len(LayersOf(stack.of)))
      IN /\ Stage # NotSet /\ Givers(ownFiles, "stage") = {}
           => stack.props["stage"] = Stage
         /\ stack.consulted.stage # NoFile /\ stack.consulted.stageRegion # NoFile
           => stack.consulted.stage[2] = stack.consulted.stageRegion[2]
  BY DEF DeploysTheStageOfItsFiles
<1> DEFINE layers == LayersOf(stacks[s].of)
           n == Len(layers)
           ownFiles == SubSeq(layers, 3, n)
<1>1. n \in Nat /\ n >= 2 /\ layers[2] = ConfigLayer
  <2>1. world \in Worlds /\ Len(ExtraNames) \in Nat
    BY NamesAreSequence DEF LayersInv, Progress
  <2>2. n = Len(ExtraNames) + 5 \/ n = Len(ExtraNames) + 3
    BY <2>1, LayersAre
  <2>3. layers[2] = ConfigLayer
    BY <2>1, LayersAre
  <2> QED  BY <2>1, <2>2, <2>3
<1>2. "stage" \in Keys /\ ConfigLayer["stage"] = Stage
  BY KeysAssumption DEF Keys, ConfigLayer, NoLayer
<1>3. LastOf(layers, n, "stage", stacks[s].props["stage"])
  BY <1>2 DEF LayersInv, BuiltFromLayers
<1> HIDE DEF layers
<1>4. ASSUME Stage # NotSet, Givers(ownFiles, "stage") = {}
      PROVE  stacks[s].props["stage"] = Stage
  <2> DEFINE S == {layers[i] : i \in 3..n}
  <2>1. \A i \in 3..n : layers[i] \in S
    OBVIOUS
  <2> HIDE DEF S
  <2>2. /\ ownFiles \in Seq(S)
        /\ Len(ownFiles) = IF 3 <= n THEN n - 3 + 1 ELSE 0
        /\ \A i \in 1..(n - 3 + 1) : ownFiles[i] = layers[3 + i - 1]
    BY <1>1, <2>1, SubSeqProperties
  <2> HIDE DEF ownFiles
  <2>3. DOMAIN ownFiles = 1..Len(ownFiles)
    BY <2>2
  <2>4. \A i \in 3..n : layers[i]["stage"] = NotSet
    <3> TAKE i \in 3..n
    <3>1. i - 2 \in 1..(n - 3 + 1) /\ 3 + (i - 2) - 1 = i
      BY <1>1
    <3>2. i - 2 \in DOMAIN ownFiles /\ ownFiles[i - 2] = layers[i]
      BY <1>1, <2>2, <2>3, <3>1
    <3> QED  BY <1>4, <3>2 DEF Givers
  <2>5. layers[2]["stage"] = Stage /\ 2 \in 1..n
    BY <1>1, <1>2
  <2>6. PICK i \in 1..n : /\ layers[i]["stage"] # NotSet
                          /\ stacks[s].props["stage"] = layers[i]["stage"]
                          /\ 2 <= i
    BY <1>3, <1>4, <2>5 DEF LastOf
  <2>7. i = 2
    BY <1>1, <2>4, <2>6
  <2> QED  BY <2>5, <2>6, <2>7
<1>5. ASSUME stacks[s].consulted.stage # NoFile,
             stacks[s].consulted.stageRegion # NoFile
      PROVE  stacks[s].consulted.stage[2] = stacks[s].consulted.stageRegion[2]
  <2>1. stacks[s].consulted.stage = StageFile
    BY <1>5, FilesFound DEF FoundFile
  <2>2. /\ stacks[s].consulted.stageRegion = StageRegionFile
        /\ StageRegionFile # NoFile
    BY <1>5, FilesFound
  <2>3. StageFile[2] = Stage
    BY DEF StageFile
  <2>4. StageRegionFile[2] = Stage
    BY <2>2 DEF StageRegionFile
  <2> QED  BY <2>1, <2>2, <2>3, <2>4
<1> QED  BY <1>4, <1>5 DEF layers

LEMMA RegionOfTheFiles == FilesInv => RegionLayersAgree
<1> SUFFICES ASSUME FilesInv, NEW s \in DOMAIN stacks,
                    stacks[s].consulted.stageRegion # NoFile,
                    Found(<<config.regionContextPath,
                            stacks[s].consulted.stageRegion[3]>>),
                    ~Falsy(config.regionContextPath)
             PROVE  /\ stacks[s].consulted.region \in
                         {NoFile, <<config.regionContextPath,
                                    stacks[s].consulted.stageRegion[3]>>}
                    /\ (stacks[s].consulted.region = NoFile)
                         <=> (config.location = NotSet)
  BY DEF RegionLayersAgree
<1> DEFINE location == Or(config.location, world.env.location)
           region == stacks[s].consulted.region
<1>1. /\ region = FoundFile(RegionFile)
      /\ stacks[s].consulted.stageRegion = StageRegionFile
      /\ StageRegionFile # NoFile
  BY FilesFound
<1>2. stacks[s].consulted.stageRegion[3] = location /\ ~Falsy(location)
  BY <1>1 DEF StageRegionFile
<1>3. CASE config.location = NotSet
  BY <1>1, <1>2, <1>3 DEF RegionFile, FoundFile, Falsy
<1>4. CASE config.location # NotSet
  <2>1. location = config.location
    BY <1>4 DEF Or
  <2>2. RegionFile = <<config.regionContextPath, location>>
    BY <1>2, <2>1 DEF RegionFile
  <2>3. region = <<config.regionContextPath, location>>
    BY <1>1, <1>2, <2>2 DEF FoundFile
  <2>4. region # NoFile
    BY <2>3 DEF NoFile
  <2> QED  BY <1>2, <1>4, <2>3, <2>4
<1> QED  BY <1>3, <1>4

LEMMA StageOfTheProperty == FilesInv => PropertyIsOfTheirStage
<1> SUFFICES ASSUME FilesInv, property # NotSet, NEW s \in DOMAIN stacks
             PROVE  (stacks[s].consulted.stage = property)
                      <=> (world.env.stage \in {NotSet, config.stage})
  BY DEF PropertyIsOfTheirStage
<1>1. /\ property = <<config.stageContextPath, config.stage>>
      /\ config.stageContextPath # NotSet /\ Found(property)
  BY DEF FilesInv, PropertyRead
<1>2. stacks[s].consulted.stage = FoundFile(StageFile)
  BY FilesFound
<1>3. StageFile = <<config.stageContextPath, Stage>>
  BY <1>1 DEF StageFile, Or
<1>4. (Stage = config.stage) <=> (world.env.stage \in {NotSet, config.stage})
  BY DEF Stage, Or
<1>5. CASE Stage = config.stage
  BY <1>1, <1>2, <1>3, <1>4, <1>5 DEF FoundFile
<1>6. CASE Stage # config.stage
  BY <1>1, <1>2, <1>3, <1>4, <1>6 DEF FoundFile, NoFile
<1> QED  BY <1>5, <1>6

(* The files of a stack are of one stage and one location but where        *)
(* configuration and environment name two, and so is a property read ahead *)
(* of the stacks.                                                          *)
THEOREM FilesAgree == Spec => []FilesAreOfItsStage
<1>1. Init => LayersInv /\ FilesInv
  BY InitLayers, InitFiles
<1>2. LayersInv /\ FilesInv /\ [Next]_vars => (LayersInv /\ FilesInv)'
  BY StepLayers, StepFiles DEF LayersInv
<1>3. LayersInv /\ FilesInv => FilesAreOfItsStage
  BY StageOfTheFiles, RegionOfTheFiles, StageOfTheProperty DEF FilesAreOfItsStage
<1> QED  BY <1>1, <1>2, <1>3, PTL DEF Spec
-----------------------------------------------------------------------------
(* Tags after some of the transformations: those given, else those of the  *)
(* first transformation with such a tag.                                   *)
FirstOf(given, n, k, value) ==
    \/ given[k] # NotSet /\ value = given[k]
    \/ /\ given[k] = NotSet
       /\ \E i \in 1..n :
            /\ transformations[i].tags[k] # NotSet
            /\ value = transformations[i].tags[k]
            /\ \A j \in 1..n : transformations[j].tags[k] # NotSet => i <= j
    \/ /\ given[k] = NotSet /\ value = NotSet
       /\ \A i \in 1..n : transformations[i].tags[k] = NotSet

(* A set of natural numbers with none that is the first has none.          *)
LEMMA NoFirst ==
    ASSUME NEW S \in SUBSET Nat, \A x \in S : \E y \in S : y < x
    PROVE  S = {}
<1> SUFFICES ASSUME S # {} PROVE FALSE
  OBVIOUS
<1>1. \E x \in S : \A y \in S : ~(<<y, x>> \in OpToRel(<, Nat))
  BY NatLessThanWellFounded, WFMin
<1> QED  BY <1>1 DEF OpToRel

TagsAfter(given, n, f) ==
    f = [i \in 0..n |-> IF i = 0 THEN given
                        ELSE WithDefaultTags(f[i - 1], transformations[i].tags)]

LEMMA TagsAfterExist ==
    ASSUME NEW given, NEW n \in Nat
    PROVE  \E f : TagsAfter(given, n, f)
<1> DEFINE S == {i \in Nat : ~\E f : TagsAfter(given, i, f)}
<1>1. ASSUME NEW i \in S PROVE \E j \in S : j < i
  <2>1. CASE i = 0
    <3>1. TagsAfter(given, 0, [j \in 0..0 |-> given])
      BY DEF TagsAfter
    <3> QED  BY <2>1, <3>1
  <2>2. CASE i # 0 /\ i - 1 \notin S
    <3>1. PICK f : TagsAfter(given, i - 1, f)
      BY <2>2
    <3> DEFINE g == [j \in 0..i |->
                       IF j = i THEN WithDefaultTags(f[i - 1], transformations[i].tags)
                       ELSE f[j]]
    <3>2. TagsAfter(given, i, g)
      <4>1. ASSUME NEW j \in 0..i
            PROVE  g[j] = IF j = 0 THEN given
                          ELSE WithDefaultTags(g[j - 1], transformations[j].tags)
        <5>1. CASE j = i
          BY <2>2, <5>1
        <5>2. CASE j # i
          <6>1. j \in 0..(i - 1) /\ (j # 0 => j - 1 \in 0..i /\ j - 1 # i)
            BY <5>2
          <6>2. f[j] = IF j = 0 THEN given
                       ELSE WithDefaultTags(f[j - 1], transformations[j].tags)
            BY <3>1, <6>1 DEF TagsAfter
          <6>3. j # 0 => g[j - 1] = f[j - 1]
            BY <6>1
          <6> QED  BY <5>2, <6>2, <6>3
        <5> QED  BY <5>1, <5>2
      <4> HIDE DEF g
      <4>2. g = [j \in 0..i |-> g[j]]
        BY DEF g
      <4> QED  BY <4>1, <4>2 DEF TagsAfter
    <3> QED  BY <3>2
  <2>3. CASE i # 0 /\ i - 1 \in S
    BY <2>3
  <2> QED  BY <2>1, <2>2, <2>3
<1>2. S = {}
  <2> HIDE DEF S
  <2>1. S \subseteq Nat
    BY DEF S
  <2> QED  BY <1>1, <2>1, NoFirst
<1> QED  BY <1>2

(* One transformation more.                                                *)
LEMMA OneMoreTransformation ==
    ASSUME NEW given, NEW n \in Nat \ {0}, NEW k \in TagKeys, NEW before,
           FirstOf(given, n - 1, k, before[k])
    PROVE  FirstOf(given, n, k,
                   WithDefaultTags(before, transformations[n].tags)[k])
<1> DEFINE value == WithDefaultTags(before, transformations[n].tags)[k]
<1>1. 1..n = 1..(n - 1) \cup {n}
  OBVIOUS
<1>2. value = IF before[k] # NotSet THEN before[k] ELSE transformations[n].tags[k]
  BY DEF WithDefaultTags, TagsOver
<1> HIDE DEF value
<1>3. CASE before[k] # NotSet
  <2>1. \A i \in 1..(n - 1) : i <= n
    OBVIOUS
  <2> QED  BY <1>1, <1>2, <1>3, <2>1 DEF FirstOf, value
<1>4. CASE before[k] = NotSet
  <2>1. given[k] = NotSet /\ \A i \in 1..(n - 1) : transformations[i].tags[k] = NotSet
    BY <1>4 DEF FirstOf
  <2>2. value = transformations[n].tags[k] /\ n \in 1..n /\ n <= n
    BY <1>2, <1>4
  <2>3. CASE value = NotSet
    BY <1>1, <2>1, <2>2, <2>3 DEF FirstOf, value
  <2>4. CASE value # NotSet
    BY <1>1, <2>1, <2>2, <2>4 DEF FirstOf, value
  <2> QED  BY <2>3, <2>4
<1> QED  BY <1>3, <1>4

LEMMA FirstTransformationWins ==
    ASSUME NEW given, NEW n \in Nat, NEW k \in TagKeys
    PROVE  FirstOf(given, n, k, Transformed(given, n)[k])
<1> DEFINE after == CHOOSE f : TagsAfter(given, n, f)
<1>1. TagsAfter(given, n, after)
  BY TagsAfterExist
<1>2. Transformed(given, n) = after[n]
  BY DEF Transformed, TagsAfter
<1> HIDE DEF after
<1> DEFINE S == {i \in 0..n : ~FirstOf(given, i, k, after[i][k])}
<1>3. ASSUME NEW i \in S PROVE \E j \in S : j < i
  <2>1. CASE i = 0
    <3>1. after[i] = given
      BY <1>1, <2>1 DEF TagsAfter
    <3>2. 1..0 = {}
      OBVIOUS
    <3>3. FirstOf(given, 0, k, after[i][k])
      BY <3>1, <3>2 DEF FirstOf
    <3> QED  BY <2>1, <3>3
  <2>2. CASE i # 0
    <3>1. /\ i \in Nat \ {0} /\ i - 1 \in 0..n /\ i - 1 < i
          /\ after[i] = WithDefaultTags(after[i - 1], transformations[i].tags)
      BY <1>1, <2>2 DEF TagsAfter
    <3>2. CASE i - 1 \in S
      BY <3>1, <3>2
    <3>3. CASE i - 1 \notin S
      <4>1. FirstOf(given, i - 1, k, after[i - 1][k])
        BY <3>1, <3>3
      <4> QED  BY <3>1, <4>1, OneMoreTransformation
    <3> QED  BY <3>2, <3>3
  <2> QED  BY <2>1, <2>2
<1>4. S = {}
  <2>1. S \subseteq Nat
    OBVIOUS
  <2> HIDE DEF S
  <2> QED  BY <1>3, <2>1, NoFirst
<1>5. n \in 0..n
  OBVIOUS
<1> QED  BY <1>2, <1>4, <1>5
-----------------------------------------------------------------------------
(* Tags of resources *)

Registers(stack) ==
    stack.of.cloud = "azure" /\ HasDefaultTags(stack.props)

(* The transformations are those of the stacks with tags, in order.        *)
RegisteredInOrder ==
    /\ \A s \in DOMAIN stacks :
         stacks[s].transformedBy \in 0..Len(transformations)
    /\ \A s, t \in DOMAIN stacks :
         s <= t => stacks[s].transformedBy <= stacks[t].transformedBy
    /\ \A s \in DOMAIN stacks : Registers(stacks[s]) =>
         /\ stacks[s].transformedBy # 0
         /\ transformations[stacks[s].transformedBy] =
              [tags |-> TagsOf(stacks[s].props),
               ignores |-> IgnoresOf(stacks[s].props)]
         /\ \A t \in DOMAIN stacks :
              t < s => stacks[t].transformedBy < stacks[s].transformedBy
    /\ \A n \in 1..Len(transformations) :
         \E s \in DOMAIN stacks :
           Registers(stacks[s]) /\ stacks[s].transformedBy = n

ResourcesAreOfStacks == \A r \in resources : r.of \in DOMAIN stacks

TagsInv ==
    /\ IsSequence(stacks) /\ IsSequence(transformations)
    /\ RegisteredInOrder /\ ResourcesAreOfStacks
    /\ TagsAreOfTheFirstStack

LEMMA InitTags == Init => TagsInv
<1> SUFFICES ASSUME Init PROVE TagsInv
  OBVIOUS
<1>1. /\ IsSequence(<<>>) /\ DOMAIN <<>> = {}
      /\ Len(<<>>) = 0 /\ 1..0 = {}
  BY DEF IsSequence
<1>2. stacks = <<>> /\ transformations = <<>> /\ resources = {}
  BY DEF Init
<1> QED
  BY <1>1, <1>2 DEF TagsInv, RegisteredInOrder, ResourcesAreOfStacks,
     TagsAreOfTheFirstStack, TagIsOfTheFirstStack, IgnoredForAll

LEMMA RegistrationOf ==
    ASSUME TagsInv, NEW s \in DOMAIN stacks, Registers(stacks[s])
    PROVE  LET r == transformations[stacks[s].transformedBy]
           IN r.tags = TagsOf(stacks[s].props) /\ r.ignores = IgnoresOf(stacks[s].props)
<1>1. transformations[stacks[s].transformedBy] =
        [tags |-> TagsOf(stacks[s].props), ignores |-> IgnoresOf(stacks[s].props)]
  BY DEF TagsInv, RegisteredInOrder
<1> QED  BY <1>1

(* The transformations of stack i are those of the stacks up to it.        *)
LEMMA TransformedByEarlier ==
    ASSUME TagsInv, NEW i \in DOMAIN stacks
    PROVE  /\ stacks[i].transformedBy \in Nat
           /\ \A n \in 1..stacks[i].transformedBy :
                \E s \in 1..i : /\ s \in DOMAIN stacks /\ Registers(stacks[s])
                                /\ stacks[s].transformedBy = n
           /\ \A s \in 1..i : Registers(stacks[s]) =>
                stacks[s].transformedBy \in 1..stacks[i].transformedBy
<1>1. DOMAIN stacks = 1..Len(stacks) /\ Len(stacks) \in Nat
      /\ Len(transformations) \in Nat
  BY AppendOne DEF TagsInv
<1>2. stacks[i].transformedBy \in 0..Len(transformations)
  BY DEF TagsInv, RegisteredInOrder
<1>3. ASSUME NEW n \in 1..stacks[i].transformedBy
      PROVE  \E s \in 1..i : /\ s \in DOMAIN stacks /\ Registers(stacks[s])
                             /\ stacks[s].transformedBy = n
  <2>1. n \in 1..Len(transformations)
    BY <1>1, <1>2
  <2>2. PICK s \in DOMAIN stacks :
               Registers(stacks[s]) /\ stacks[s].transformedBy = n
    BY <2>1 DEF TagsInv, RegisteredInOrder
  <2>3. ~(i < s)
    <3>1. SUFFICES ASSUME i < s PROVE FALSE
      OBVIOUS
    <3>2. stacks[i].transformedBy < stacks[s].transformedBy
      BY <2>2, <3>1 DEF TagsInv, RegisteredInOrder
    <3> QED  BY <1>1, <1>2, <2>2, <3>2
  <2> QED  BY <1>1, <2>2, <2>3
<1>4. ASSUME NEW s \in 1..i, Registers(stacks[s])
      PROVE  stacks[s].transformedBy \in 1..stacks[i].transformedBy
  <2>1. s \in DOMAIN stacks /\ s <= i
    BY <1>1
  <2>2. /\ stacks[s].transformedBy <= stacks[i].transformedBy
        /\ stacks[s].transformedBy # 0
        /\ stacks[s].transformedBy \in 0..Len(transformations)
    BY <1>4, <2>1 DEF TagsInv, RegisteredInOrder
  <2> QED  BY <1>1, <1>2, <2>2
<1>5. stacks[i].transformedBy \in Nat
  BY <1>1, <1>2
<1> QED  BY <1>3, <1>4, <1>5

(* The tag k of a resource is that of the first of the stacks tagging it.  *)
TaggedFrom(all, tagging, r, k) ==
    IF ~IsTaggableResource(r.type) \/ r.given[k] # NotSet \/ tagging = {}
      THEN r.tags[k] = r.given[k]
    ELSE \E j \in tagging : /\ \A l \in tagging : j <= l
                            /\ r.tags[k] = all[j].props[k]

OfTheFirst(all, tagging, k, value) ==
    IF tagging = {} THEN value = NotSet
    ELSE \E j \in tagging : /\ \A l \in tagging : j <= l
                            /\ value = all[j].props[k]

LEMMA TagsAreTaggedFrom ==
    TagIsOfTheFirstStack <=>
      \A r \in resources : \A k \in TagKeys :
        TaggedFrom(stacks, StacksTagging(k, r.of), r, k)
BY DEF TagIsOfTheFirstStack, TaggedFrom

(* The first transformation with a tag is that of the first stack with it. *)
LEMMA FirstStackTags ==
    ASSUME TagsInv, NEW i \in DOMAIN stacks, NEW k \in TagKeys,
           NEW given, given[k] = NotSet, NEW value,
           FirstOf(given, stacks[i].transformedBy, k, value)
    PROVE  OfTheFirst(stacks, StacksTagging(k, i), k, value)
<1> DEFINE tagging == StacksTagging(k, i)
           n == stacks[i].transformedBy
<1>1. DOMAIN stacks = 1..Len(stacks) /\ Len(stacks) \in Nat
  BY AppendOne DEF TagsInv
<1>2. ASSUME NEW s \in tagging
      PROVE  /\ s \in 1..i /\ s \in DOMAIN stacks /\ Registers(stacks[s])
             /\ stacks[s].transformedBy \in 1..n
             /\ transformations[stacks[s].transformedBy].tags[k] = stacks[s].props[k]
             /\ stacks[s].props[k] # NotSet
  <2>1. s \in 1..i /\ s \in DOMAIN stacks
    BY <1>1 DEF StacksTagging
  <2>2. stacks[s].of.cloud = "azure" /\ stacks[s].props[k] # NotSet
    BY DEF StacksTagging
  <2>3. TagsOf(stacks[s].props)[k] # NoTags[k]
    BY <2>2 DEF TagsOf, NoTags, HasDefaultTags
  <2>4. Registers(stacks[s])
    BY <2>2, <2>3 DEF Registers, HasDefaultTags
  <2>5. stacks[s].transformedBy \in 1..n
    BY <2>1, <2>4, TransformedByEarlier
  <2>6. transformations[stacks[s].transformedBy].tags = TagsOf(stacks[s].props)
    BY <2>1, <2>4, RegistrationOf
  <2> QED  BY <2>1, <2>2, <2>4, <2>5, <2>6 DEF TagsOf
<1>3. ASSUME NEW j \in 1..n, transformations[j].tags[k] # NotSet
      PROVE  \E s \in tagging : stacks[s].transformedBy = j
  <2>1. PICK s \in 1..i : /\ s \in DOMAIN stacks /\ Registers(stacks[s])
                          /\ stacks[s].transformedBy = j
    BY TransformedByEarlier
  <2>2. transformations[j].tags = TagsOf(stacks[s].props)
    BY <2>1, RegistrationOf
  <2>3. s \in tagging
    BY <1>3, <2>1, <2>2 DEF StacksTagging, Registers, TagsOf
  <2> QED  BY <2>1, <2>3
<1>4. CASE tagging = {}
  <2>1. \A j \in 1..n : transformations[j].tags[k] = NotSet
    BY <1>3, <1>4
  <2> QED  BY <1>4, <2>1 DEF FirstOf, OfTheFirst
<1>5. CASE tagging # {}
  <2>1. PICK s \in tagging : TRUE
    BY <1>5
  <2>2. ~\A j \in 1..n : transformations[j].tags[k] = NotSet
    BY <1>2, <2>1
  <2>3. PICK f \in 1..n :
          /\ transformations[f].tags[k] # NotSet
          /\ value = transformations[f].tags[k]
          /\ \A j \in 1..n : transformations[j].tags[k] # NotSet => f <= j
    BY <2>2 DEF FirstOf
  <2>4. PICK j \in tagging : stacks[j].transformedBy = f
    BY <1>3, <2>3
  <2>5. value = stacks[j].props[k]
    BY <1>2, <2>3, <2>4
  <2>6. \A l \in tagging : j <= l
    <3> SUFFICES ASSUME NEW l \in tagging, ~(j <= l) PROVE FALSE
      OBVIOUS
    <3>1. l < j /\ j \in DOMAIN stacks /\ l \in DOMAIN stacks
      BY <1>1, <1>2
    <3>2. stacks[l].transformedBy < stacks[j].transformedBy
      BY <1>2, <3>1 DEF TagsInv, RegisteredInOrder
    <3>3. f <= stacks[l].transformedBy
      BY <1>2, <2>3
    <3>4. stacks[l].transformedBy \in Nat /\ f \in Nat
      BY <1>2, <2>3
    <3> QED  BY <2>4, <3>2, <3>3, <3>4
  <2> QED  BY <1>5, <2>5, <2>6 DEF OfTheFirst
<1> QED  BY <1>4, <1>5

(* What is ignored is what the stacks up to it ask for.                    *)
LEMMA IgnoredByEarlier ==
    ASSUME TagsInv, NEW i \in DOMAIN stacks
    PROVE  IgnoredBy(stacks[i].transformedBy) =
             UNION {IgnoresOf(stacks[j].props) :
                      j \in {l \in 1..i : /\ stacks[l].of.cloud = "azure"
                                          /\ HasDefaultTags(stacks[l].props)}}
<1> DEFINE n == stacks[i].transformedBy
           registered == {l \in 1..i : /\ stacks[l].of.cloud = "azure"
                                       /\ HasDefaultTags(stacks[l].props)}
<1>1. DOMAIN stacks = 1..Len(stacks) /\ Len(stacks) \in Nat
  BY AppendOne DEF TagsInv
<1>2. registered = {l \in 1..i : Registers(stacks[l])}
  BY DEF Registers
<1> HIDE DEF registered
<1>3. {transformations[m].ignores : m \in 1..n}
        = {IgnoresOf(stacks[j].props) : j \in registered}
  <2>1. ASSUME NEW m \in 1..n
        PROVE  \E j \in registered :
                 transformations[m].ignores = IgnoresOf(stacks[j].props)
    <3>1. PICK s \in 1..i : /\ s \in DOMAIN stacks /\ Registers(stacks[s])
                            /\ stacks[s].transformedBy = m
      BY TransformedByEarlier
    <3>2. transformations[m].ignores = IgnoresOf(stacks[s].props)
      BY <3>1, RegistrationOf
    <3> QED  BY <1>2, <3>1, <3>2
  <2>2. ASSUME NEW j \in registered
        PROVE  \E m \in 1..n :
                 transformations[m].ignores = IgnoresOf(stacks[j].props)
    <3>1. j \in 1..i /\ j \in DOMAIN stacks /\ Registers(stacks[j])
      BY <1>1, <1>2
    <3>2. stacks[j].transformedBy \in 1..n
      BY <3>1, TransformedByEarlier
    <3>3. transformations[stacks[j].transformedBy].ignores =
            IgnoresOf(stacks[j].props)
      BY <3>1, RegistrationOf
    <3> QED  BY <3>2, <3>3
  <2> QED  BY <2>1, <2>2
<1> QED  BY <1>3 DEF IgnoredBy, registered

LEMMA CreatedTags ==
    ASSUME TagsInv, NEW i \in DOMAIN stacks, NEW type, NEW given,
           NEW r, r = [of |-> i, type |-> type, given |-> given,
                       tags |-> IF IsTaggableResource(type)
                                  THEN Transformed(given, stacks[i].transformedBy)
                                ELSE given,
                       ignored |-> IF IsTaggableResource(type)
                                     THEN IgnoredBy(stacks[i].transformedBy)
                                   ELSE {}]
    PROVE  /\ \A k \in TagKeys : TaggedFrom(stacks, StacksTagging(k, i), r, k)
           /\ IsTaggableResource(r.type) =>
                r.ignored = UNION {IgnoresOf(stacks[j].props) :
                                    j \in {l \in 1..r.of :
                                            /\ stacks[l].of.cloud = "azure"
                                            /\ HasDefaultTags(stacks[l].props)}}
<1> DEFINE n == stacks[i].transformedBy
<1>1. n \in Nat
  BY TransformedByEarlier
<1>2. /\ r.of = i /\ r.type = type /\ r.given = given
      /\ IsTaggableResource(type) => /\ r.tags = Transformed(given, n)
                                     /\ r.ignored = IgnoredBy(n)
      /\ ~IsTaggableResource(type) => r.tags = given
  OBVIOUS
<1>3. ASSUME NEW k \in TagKeys
      PROVE  TaggedFrom(stacks, StacksTagging(k, i), r, k)
  <2>1. FirstOf(given, n, k, Transformed(given, n)[k])
    BY <1>1, FirstTransformationWins
  <2> DEFINE value == Transformed(given, n)[k]
             tagging == StacksTagging(k, i)
  <2> HIDE DEF value, tagging
  <2>2. CASE given[k] # NotSet
    BY <1>2, <2>1, <2>2 DEF FirstOf, TaggedFrom
  <2>3. CASE ~IsTaggableResource(type)
    BY <1>2, <2>3 DEF TaggedFrom
  <2>4. CASE given[k] = NotSet /\ IsTaggableResource(type)
    <3>1. OfTheFirst(stacks, tagging, k, value)
      <4>1. FirstOf(given, stacks[i].transformedBy, k, value)
        BY <2>1 DEF value
      <4>2. i \in DOMAIN stacks /\ k \in TagKeys /\ given[k] = NotSet
        BY <2>4
      <4> QED  BY <4>1, <4>2, FirstStackTags DEF tagging
    <3>2. r.tags[k] = value /\ r.given[k] = NotSet
      BY <1>2, <2>4 DEF value
    <3>3. TaggedFrom(stacks, tagging, r, k)
      BY <1>2, <2>4, <3>1, <3>2 DEF TaggedFrom, OfTheFirst
    <3> QED  BY <3>3 DEF tagging
  <2> QED  BY <2>2, <2>3, <2>4
<1>4. IsTaggableResource(type) =>
        r.ignored = UNION {IgnoresOf(stacks[j].props) :
                            j \in {l \in 1..i :
                                    /\ stacks[l].of.cloud = "azure"
                                    /\ HasDefaultTags(stacks[l].props)}}
  BY <1>2, IgnoredByEarlier
<1> QED  BY <1>2, <1>3, <1>4

(* Stacks constructed later change nothing for the resources there are.    *)
LEMMA LaterStacks ==
    ASSUME TagsInv, UNCHANGED resources,
           \A s \in DOMAIN stacks : s \in DOMAIN stacks' /\ stacks'[s] = stacks[s]
    PROVE  ResourcesAreOfStacks' /\ TagsAreOfTheFirstStack'
<1>1. ASSUME NEW r \in resources
      PROVE  \A j \in 1..r.of : stacks'[j] = stacks[j]
  <2>1. DOMAIN stacks = 1..Len(stacks) /\ Len(stacks) \in Nat
    BY AppendOne DEF TagsInv
  <2>2. r.of \in DOMAIN stacks
    BY DEF TagsInv, ResourcesAreOfStacks
  <2> QED  BY <2>1, <2>2
<1>2. ASSUME NEW r \in resources, NEW k
      PROVE  /\ StacksTagging(k, r.of)' = StacksTagging(k, r.of)
             /\ \A j \in StacksTagging(k, r.of) : j \in 1..r.of
  BY <1>1 DEF StacksTagging
<1>3. TagIsOfTheFirstStack'
  <2>1. ASSUME NEW r \in resources, NEW k \in TagKeys
        PROVE  TaggedFrom(stacks', StacksTagging(k, r.of)', r, k)
    <3> DEFINE tagging == StacksTagging(k, r.of)
    <3>1. \A j \in tagging : stacks'[j] = stacks[j]
      BY <1>1, <1>2
    <3>2. TaggedFrom(stacks, tagging, r, k)
      BY TagsAreTaggedFrom DEF TagsInv, TagsAreOfTheFirstStack
    <3>3. StacksTagging(k, r.of)' = tagging
      BY <1>2
    <3> HIDE DEF tagging
    <3> QED  BY <3>1, <3>2, <3>3 DEF TaggedFrom
  <2> QED
    BY <2>1 DEF TagIsOfTheFirstStack, TaggedFrom, IsTaggableResource,
                ResourcesToExcludeTags
<1>4. IgnoredForAll'
  <2> SUFFICES ASSUME NEW r \in resources, IsTaggableResource(r.type)
               PROVE  r.ignored =
                        UNION {IgnoresOf(stacks'[j].props) :
                                j \in {l \in 1..r.of :
                                        /\ stacks'[l].of.cloud = "azure"
                                        /\ HasDefaultTags(stacks'[l].props)}}
    BY DEF IgnoredForAll, IsTaggableResource, ResourcesToExcludeTags, TagsOf,
           NoTags, IgnoresOf, HasDefaultTags
  <2> DEFINE before == {l \in 1..r.of : /\ stacks[l].of.cloud = "azure"
                                        /\ HasDefaultTags(stacks[l].props)}
  <2>1. before = {l \in 1..r.of : /\ stacks'[l].of.cloud = "azure"
                                  /\ HasDefaultTags(stacks'[l].props)}
    BY <1>1
  <2>2. {IgnoresOf(stacks[j].props) : j \in before} =
          {IgnoresOf(stacks'[j].props) : j \in before}
    BY <1>1
  <2>3. r.ignored = UNION {IgnoresOf(stacks[j].props) : j \in before}
    BY DEF TagsInv, TagsAreOfTheFirstStack, IgnoredForAll
  <2> QED  BY <2>1, <2>2, <2>3
<1>5. ResourcesAreOfStacks'
  BY DEF TagsInv, ResourcesAreOfStacks
<1> QED  BY <1>3, <1>4, <1>5 DEF TagsAreOfTheFirstStack

LEMMA StepTags == TagsInv /\ [Next]_vars => TagsInv'
<1> SUFFICES ASSUME TagsInv, [Next]_vars PROVE TagsInv'
  OBVIOUS
<1>0. /\ DOMAIN stacks = 1..Len(stacks) /\ Len(stacks) \in Nat
      /\ DOMAIN transformations = 1..Len(transformations)
      /\ Len(transformations) \in Nat
  BY AppendOne DEF TagsInv
<1>1. CASE UNCHANGED <<stacks, transformations, resources>>
  <2>1. ResourcesAreOfStacks' /\ TagsAreOfTheFirstStack'
    BY <1>1, LaterStacks
  <2>2. RegisteredInOrder'
    BY <1>1 DEF TagsInv, RegisteredInOrder, Registers, TagsOf, NoTags,
             IgnoresOf, HasDefaultTags
  <2> QED  BY <1>1, <2>1, <2>2 DEF TagsInv
<1>2. CASE DetermineConstructProps
  <2> DEFINE new == [of |-> this, props |-> merged, consulted |-> consulted,
                     transformedBy |-> Len(transformations')]
             n == Len(stacks)
             t == Len(transformations)
  <2>1. /\ stacks' = Append(stacks, new) /\ transformations' = Registered
        /\ UNCHANGED resources
    BY <1>2 DEF DetermineConstructProps
  <2>2. /\ IsSequence(stacks') /\ DOMAIN stacks' = 1..(n + 1)
        /\ \A s \in DOMAIN stacks : s \in DOMAIN stacks' /\ stacks'[s] = stacks[s]
        /\ stacks'[n + 1] = new
    BY <1>0, <2>1, AppendOne DEF TagsInv
  <2>3. ResourcesAreOfStacks' /\ TagsAreOfTheFirstStack'
    BY <2>1, <2>2, LaterStacks
  <2>4. \A s \in DOMAIN stacks : stacks[s].transformedBy \in 0..t
    BY DEF TagsInv, RegisteredInOrder
  <2>5. Registers(new) <=> (IsAzure /\ HasDefaultTags(merged))
    BY DEF Registers, IsAzure
  <2>6. CASE Registers(new)
    <3>1. transformations' = Append(transformations, Registration)
      BY <2>1, <2>5, <2>6 DEF Registered
    <3>2. /\ IsSequence(transformations') /\ Len(transformations') = t + 1
          /\ \A i \in 1..t : transformations'[i] = transformations[i]
          /\ transformations'[t + 1] = Registration
      BY <3>1, AppendOne DEF TagsInv
    <3>3. new.transformedBy = t + 1
      BY <3>2
    <3>4. Registration = [tags |-> TagsOf(new.props),
                          ignores |-> IgnoresOf(new.props)]
      BY DEF Registration
    <3> HIDE DEF new
    <3>5. RegisteredInOrder'
      <4>1. \A s \in DOMAIN stacks' : stacks'[s].transformedBy \in 0..(t + 1)
        BY <1>0, <2>2, <2>4, <3>3
      <4>2. \A s, u \in DOMAIN stacks' :
              s <= u => stacks'[s].transformedBy <= stacks'[u].transformedBy
        <5> SUFFICES ASSUME NEW s \in DOMAIN stacks', NEW u \in DOMAIN stacks',
                            s <= u
                     PROVE  stacks'[s].transformedBy <= stacks'[u].transformedBy
          OBVIOUS
        <5>1. CASE u = n + 1
          BY <1>0, <2>2, <3>3, <4>1, <5>1
        <5>2. CASE u # n + 1
          <6>1. s \in DOMAIN stacks /\ u \in DOMAIN stacks
            BY <1>0, <2>2, <5>2
          <6> QED  BY <2>2, <6>1 DEF TagsInv, RegisteredInOrder
        <5> QED  BY <5>1, <5>2
      <4>3. ASSUME NEW s \in DOMAIN stacks', Registers(stacks'[s])
            PROVE  /\ stacks'[s].transformedBy # 0
                   /\ transformations'[stacks'[s].transformedBy] =
                        [tags |-> TagsOf(stacks'[s].props),
                         ignores |-> IgnoresOf(stacks'[s].props)]
                   /\ \A u \in DOMAIN stacks' :
                        u < s => stacks'[u].transformedBy < stacks'[s].transformedBy
        <5>1. CASE s = n + 1
          <6>1. \A u \in DOMAIN stacks' : u < s => u \in DOMAIN stacks
            BY <1>0, <2>2, <5>1
          <6>2. \A u \in DOMAIN stacks : stacks[u].transformedBy < t + 1
            BY <1>0, <2>4
          <6> QED  BY <1>0, <2>2, <3>2, <3>3, <3>4, <5>1, <6>1, <6>2
        <5>2. CASE s # n + 1
          <6>1. /\ s \in DOMAIN stacks
                /\ \A u \in DOMAIN stacks' : u < s => u \in DOMAIN stacks
            BY <1>0, <2>2, <5>2
          <6>2. /\ stacks[s].transformedBy # 0
                /\ transformations[stacks[s].transformedBy] =
                     [tags |-> TagsOf(stacks[s].props),
                      ignores |-> IgnoresOf(stacks[s].props)]
                /\ \A u \in DOMAIN stacks :
                     u < s => stacks[u].transformedBy < stacks[s].transformedBy
            BY <2>2, <4>3, <6>1 DEF TagsInv, RegisteredInOrder
          <6>3. stacks[s].transformedBy \in 1..t
            BY <1>0, <2>4, <6>1, <6>2
          <6> QED  BY <2>2, <3>2, <6>1, <6>2, <6>3
        <5> QED  BY <5>1, <5>2
      <4>4. ASSUME NEW i \in 1..(t + 1)
            PROVE  \E s \in DOMAIN stacks' :
                     Registers(stacks'[s]) /\ stacks'[s].transformedBy = i
        <5>1. CASE i = t + 1
          BY <1>0, <2>2, <2>6, <3>3, <5>1
        <5>2. CASE i # t + 1
          <6>1. i \in 1..t
            BY <1>0, <5>2
          <6>2. PICK s \in DOMAIN stacks :
                       Registers(stacks[s]) /\ stacks[s].transformedBy = i
            BY <6>1 DEF TagsInv, RegisteredInOrder
          <6> QED  BY <2>2, <6>2
        <5> QED  BY <5>1, <5>2
      <4>5. Len(transformations') = t + 1
        BY <3>2
      <4> HIDE DEF t, n
      <4> QED
        BY <4>1, <4>2, <4>3, <4>4, <4>5
           DEF RegisteredInOrder, Registers, TagsOf, NoTags, IgnoresOf, HasDefaultTags
    <3> QED  BY <2>2, <2>3, <3>2, <3>5 DEF TagsInv
  <2>7. CASE ~Registers(new)
    <3>1. transformations' = transformations
      BY <2>1, <2>5, <2>7 DEF Registered
    <3>2. new.transformedBy = t
      BY <3>1
    <3> HIDE DEF new
    <3>3. RegisteredInOrder'
      <4>1. \A s \in DOMAIN stacks' : stacks'[s].transformedBy \in 0..t
        BY <1>0, <2>2, <2>4, <3>2
      <4>2. \A s, u \in DOMAIN stacks' :
              s <= u => stacks'[s].transformedBy <= stacks'[u].transformedBy
        <5> SUFFICES ASSUME NEW s \in DOMAIN stacks', NEW u \in DOMAIN stacks',
                            s <= u
                     PROVE  stacks'[s].transformedBy <= stacks'[u].transformedBy
          OBVIOUS
        <5>1. CASE u = n + 1
          BY <1>0, <2>2, <3>2, <4>1, <5>1
        <5>2. CASE u # n + 1
          <6>1. s \in DOMAIN stacks /\ u \in DOMAIN stacks
            BY <1>0, <2>2, <5>2
          <6> QED  BY <2>2, <6>1 DEF TagsInv, RegisteredInOrder
        <5> QED  BY <5>1, <5>2
      <4>3. ASSUME NEW s \in DOMAIN stacks', Registers(stacks'[s])
            PROVE  /\ stacks'[s].transformedBy # 0
                   /\ transformations[stacks'[s].transformedBy] =
                        [tags |-> TagsOf(stacks'[s].props),
                         ignores |-> IgnoresOf(stacks'[s].props)]
                   /\ \A u \in DOMAIN stacks' :
                        u < s => stacks'[u].transformedBy < stacks'[s].transformedBy
        <5>1. /\ s \in DOMAIN stacks
              /\ \A u \in DOMAIN stacks' : u < s => u \in DOMAIN stacks
          BY <1>0, <2>2, <2>7, <4>3
        <5> QED  BY <2>2, <4>3, <5>1 DEF TagsInv, RegisteredInOrder
      <4>4. ASSUME NEW i \in 1..t
            PROVE  \E s \in DOMAIN stacks' :
                     Registers(stacks'[s]) /\ stacks'[s].transformedBy = i
        <5>1. PICK s \in DOMAIN stacks :
                     Registers(stacks[s]) /\ stacks[s].transformedBy = i
          BY DEF TagsInv, RegisteredInOrder
        <5> QED  BY <2>2, <5>1
      <4> QED
        BY <3>1, <4>1, <4>2, <4>3, <4>4
           DEF RegisteredInOrder, Registers, TagsOf, NoTags, IgnoresOf, HasDefaultTags
    <3> QED  BY <2>2, <2>3, <3>1, <3>3 DEF TagsInv
  <2> QED  BY <2>6, <2>7
<1>3. CASE \E i \in DOMAIN stacks, type \in Types, tags \in Tags, b \in BOOLEAN :
             CreateResource(i, type, tags, b)
  <2>1. PICK i \in DOMAIN stacks, type \in Types, tags \in Tags, b \in BOOLEAN :
               CreateResource(i, type, tags, b)
    BY <1>3
  <2> DEFINE given == GivenTags(stacks[i], type, tags, b)
             new == [of |-> i, type |-> type, given |-> given,
                     tags |-> IF IsTaggableResource(type)
                                THEN Transformed(given, stacks[i].transformedBy)
                              ELSE given,
                     ignored |-> IF IsTaggableResource(type)
                                   THEN IgnoredBy(stacks[i].transformedBy)
                                 ELSE {}]
  <2>2. /\ resources' = resources \cup {new}
        /\ UNCHANGED <<stacks, transformations>>
    BY <2>1 DEF CreateResource
  <2>3. new.of = i /\ new.type = type
    OBVIOUS
  <2> DEFINE Tagged(r, k) == TaggedFrom(stacks, StacksTagging(k, r.of), r, k)
             Ignored(r) ==
               IsTaggableResource(r.type) =>
                 r.ignored = UNION {IgnoresOf(stacks[j].props) :
                                     j \in {l \in 1..r.of :
                                             /\ stacks[l].of.cloud = "azure"
                                             /\ HasDefaultTags(stacks[l].props)}}
  <2>4. (\A k \in TagKeys : Tagged(new, k)) /\ Ignored(new)
    <3> HIDE DEF given
    <3> DEFINE r == new
    <3>1. r = [of |-> i, type |-> type, given |-> given,
               tags |-> IF IsTaggableResource(type)
                          THEN Transformed(given, stacks[i].transformedBy)
                        ELSE given,
               ignored |-> IF IsTaggableResource(type)
                             THEN IgnoredBy(stacks[i].transformedBy)
                           ELSE {}]
      OBVIOUS
    <3>2. r.of = i
      OBVIOUS
    <3> HIDE DEF r
    <3>3. (\A k \in TagKeys : Tagged(r, k)) /\ Ignored(r)
      BY <3>1, <3>2, CreatedTags
    <3> QED  BY <3>3 DEF r
  <2>5. \A r \in resources : (\A k \in TagKeys : Tagged(r, k)) /\ Ignored(r)
    BY TagsAreTaggedFrom DEF TagsInv, TagsAreOfTheFirstStack, IgnoredForAll
  <2>6. (\A r \in resources' : (\A k \in TagKeys : Tagged(r, k)) /\ Ignored(r))
          => TagsAreOfTheFirstStack'
    BY <2>2 DEF TagsAreOfTheFirstStack, TagIsOfTheFirstStack, IgnoredForAll,
                StacksTagging, TaggedFrom, TagsOf, NoTags, IgnoresOf, HasDefaultTags
  <2> HIDE DEF Tagged, Ignored, new
  <2>7. TagsAreOfTheFirstStack'
    BY <2>2, <2>4, <2>5, <2>6
  <2>8. ResourcesAreOfStacks'
    BY <2>2, <2>3 DEF TagsInv, ResourcesAreOfStacks
  <2>9. RegisteredInOrder'
    BY <2>2 DEF TagsInv, RegisteredInOrder, Registers, TagsOf, NoTags,
             IgnoresOf, HasDefaultTags
  <2> QED  BY <2>2, <2>7, <2>8, <2>9 DEF TagsInv
<1> QED
  BY <1>1, <1>2, <1>3
     DEF Next, vars, Construct, DetermineExtraContexts, DetermineRegionContexts,
         DetermineStageContexts, DetermineStageRegionContexts, Loads, unrelated,
         GetEnvironmentProperty

(* A resource has a tag that it was not given from the first stack of the  *)
(* program with such a tag, and ignores what any stack so far leaves to    *)
(* others, whatever stacks, resources and files a program has.             *)
THEOREM FirstStackDecidesTags == Spec => []TagsAreOfTheFirstStack
<1>1. Init => TagsInv
  BY InitTags
<1>2. TagsInv /\ [Next]_vars => TagsInv'
  BY StepTags
<1>3. TagsInv => TagsAreOfTheFirstStack
  BY DEF TagsInv
<1> QED  BY <1>1, <1>2, <1>3, PTL DEF Spec
=============================================================================
