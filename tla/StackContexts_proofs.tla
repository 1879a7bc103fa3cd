------------------------ MODULE StackContexts_proofs ------------------------
(***************************************************************************)
(* Proofs about StackContexts: its type invariant, that every stack reads  *)
(* what the layers resolve to as if it were alone and was built with it,   *)
(* and that the constructors implement LayeredConfig, for any set of       *)
(* stacks, keys, configurations and files.  Before them lemmas about the   *)
(* operators of ConfigLayers: the last giver of a value, what one more     *)
(* layer changes, and that applying layers twice changes nothing.          *)
(***************************************************************************)
EXTENDS StackContexts, SequenceTheorems, WellFoundedInduction, TLAPS

(* A nonempty set of natural numbers up to n has a largest element: the    *)
(* smallest distance to n is well-founded.                                 *)
LEMMA LargestExists ==
    ASSUME NEW n \in Nat, NEW S \in SUBSET (1 .. n), S # {}
    PROVE  \E x \in S : \A y \in S : x >= y
<1> DEFINE T == {n - x : x \in S}
<1>1. T \subseteq Nat /\ T # {}
  <2>1. \A x \in S : n - x \in Nat
    OBVIOUS
  <2>2. PICK x \in S : TRUE
    OBVIOUS
  <2>3. n - x \in T
    BY <2>2
  <2>. QED BY <2>1, <2>3
<1>2. \E d \in T : \A e \in T : ~(<<e, d>> \in OpToRel(<, Nat))
  BY <1>1, NatLessThanWellFounded, WFMin
<1>3. PICK d \in T : \A e \in T : ~(e < d)
  BY <1>1, <1>2 DEF OpToRel
<1>4. PICK x \in S : d = n - x
  BY <1>3
<1>5. ASSUME NEW y \in S PROVE x >= y
  <2>1. ~(n - y < n - x)
    BY <1>3, <1>4
  <2>2. x \in 1 .. n /\ y \in 1 .. n
    OBVIOUS
  <2>. QED BY <2>1, <2>2
<1>. QED BY <1>5

(* The largest element of such a set is in it and none is larger.          *)
LEMMA MaxProperties ==
    ASSUME NEW n \in Nat, NEW S \in SUBSET (1 .. n), S # {}
    PROVE  Max(S) \in S /\ \A y \in S : Max(S) >= y
BY LargestExists DEF Max

LEMMA MaxIsLast ==
    ASSUME NEW n \in Nat, NEW S \in SUBSET (1 .. n), n \in S
    PROVE  Max(S) = n
<1>1. Max(S) \in 1 .. n /\ Max(S) >= n
  BY MaxProperties
<1>. QED BY <1>1

-----------------------------------------------------------------------------
(* One value set over another, as one more layer does it.                  *)
Over(k, old, new) == IF new = Undef THEN old ELSE AfterSet(k, old, new)

(* `more' is `layers' and one layer above them.                            *)
ExtendedBy(layers, more, n) ==
    /\ n \in Nat
    /\ DOMAIN layers = 1 .. n
    /\ DOMAIN more = 1 .. n + 1
    /\ \A j \in 1 .. n : more[j] = layers[j]

(* No layers: the base configuration.                                      *)
LEMMA ResolvedNone ==
    ASSUME NEW base, NEW layers, DOMAIN layers = {}, NEW k \in Keys
    PROVE  Resolved(base, layers)[k] = base[k]
BY DEF Resolved, Touched, ResolvedPlain, Givers

(* The layers that give a value before and after one more layer.           *)
LEMMA GiversStep ==
    ASSUME NEW layers, NEW more, NEW n, ExtendedBy(layers, more, n), NEW k
    PROVE  /\ Givers(layers, k) \subseteq 1 .. n
           /\ Givers(more, k) = Givers(layers, k) \cup
                (IF more[n + 1][k] \in Nothing THEN {} ELSE {n + 1})
           /\ Touched(more, k) <=>
                (Touched(layers, k) \/ more[n + 1][k] # Undef)
<1>1. 1 .. n + 1 = (1 .. n) \cup {n + 1} /\ n + 1 \notin 1 .. n
  BY DEF ExtendedBy
<1>. QED BY <1>1 DEF ExtendedBy, Givers, Touched

LEMMA FieldStep ==
    ASSUME NEW base, NEW layers, NEW more, NEW n,
           ExtendedBy(layers, more, n), NEW k, NEW f
    PROVE  LET new == more[n + 1][k] IN
           ResolvedField(base, more, k, f) =
             IF new \notin Nothing /\ new[f] # Undef THEN new[f]
             ELSE ResolvedField(base, layers, k, f)
<1> DEFINE new == more[n + 1][k]
           below == FieldGivers(layers, k, f)
           all == FieldGivers(more, k, f)
<1>1. n \in Nat /\ n + 1 \in Nat /\ n + 1 \notin 1 .. n
  BY DEF ExtendedBy
<1>2. below \in SUBSET (1 .. n)
  BY GiversStep DEF FieldGivers
<1>3. all = below \cup
             (IF new \notin Nothing /\ new[f] # Undef THEN {n + 1} ELSE {})
  <2>1. Givers(more, k) =
          Givers(layers, k) \cup (IF new \in Nothing THEN {} ELSE {n + 1})
    BY GiversStep
  <2>2. \A j \in Givers(layers, k) : more[j][k][f] = layers[j][k][f]
    BY GiversStep DEF ExtendedBy
  <2>. QED BY <2>1, <2>2 DEF FieldGivers
<1>4. CASE new \notin Nothing /\ new[f] # Undef
  <2>1. all \in SUBSET (1 .. n + 1) /\ n + 1 \in all
    BY <1>1, <1>2, <1>3, <1>4
  <2>2. Max(all) = n + 1
    BY <1>1, <2>1, MaxIsLast
  <2>. QED BY <1>4, <2>1, <2>2 DEF ResolvedField
<1>5. CASE ~(new \notin Nothing /\ new[f] # Undef)
  <2>1. all = below
    BY <1>3, <1>5
  <2>2. below # {} => more[Max(below)] = layers[Max(below)]
    BY <1>1, <1>2, MaxProperties DEF ExtendedBy
  <2>. QED BY <1>5, <2>1, <2>2 DEF ResolvedField
<1>. QED BY <1>4, <1>5

(* Merging a null twice makes no other object than merging it once.        *)
LEMMA AsObjectTwice ==
    ASSUME NEW k, NEW v
    PROVE  AsObject(k, AsObject(k, v)) = AsObject(k, v)
<1>1. /\ \A w \in Scalars : Boxed[w] \notin Scalars \cup Nothing
      /\ Bare \notin Scalars \cup Nothing
  BY BoxedAssumption, ValuesAssumption DEF Boxes, Nothing
<1>. QED BY <1>1 DEF AsObject

LEMMA PlainStep ==
    ASSUME NEW base, NEW layers, NEW more, NEW n,
           ExtendedBy(layers, more, n), NEW k \in Keys \ ObjectKeys
    PROVE  ResolvedPlain(base, more, k)
               = Over(k, ResolvedPlain(base, layers, k), more[n + 1][k])
<1> DEFINE new == more[n + 1][k]
           below == Givers(layers, k)
           all == Givers(more, k)
           Last(givers) == IF givers = {} THEN 0 ELSE Max(givers)
           Value(ls, givers) ==
               IF givers = {} THEN base[k] ELSE ls[Last(givers)][k]
           Nulled(ls, givers) ==
               \E j \in DOMAIN ls : j > Last(givers) /\ ls[j][k] = Null
<1>1. /\ n \in Nat /\ n + 1 \in Nat /\ n + 1 \notin 1 .. n
      /\ DOMAIN layers = 1 .. n /\ DOMAIN more = 1 .. n + 1
      /\ \A j \in 1 .. n : more[j] = layers[j]
  BY DEF ExtendedBy
<1>2. below \in SUBSET (1 .. n)
  BY GiversStep
<1>3. all = below \cup (IF new \in Nothing THEN {} ELSE {n + 1})
  BY GiversStep
<1>4. /\ ResolvedPlain(base, layers, k) =
             IF Nulled(layers, below) THEN AsObject(k, Value(layers, below))
             ELSE Value(layers, below)
      /\ ResolvedPlain(base, more, k) =
             IF Nulled(more, all) THEN AsObject(k, Value(more, all))
             ELSE Value(more, all)
  BY DEF ResolvedPlain
<1>5. CASE new \notin Nothing
  <2>1. all \in SUBSET (1 .. n + 1) /\ n + 1 \in all
    BY <1>1, <1>2, <1>3, <1>5
  <2>2. Max(all) = n + 1 /\ all # {}
    BY <1>1, <2>1, MaxIsLast
  <2>3. Value(more, all) = new /\ ~Nulled(more, all)
    BY <1>1, <2>2
  <2>. QED BY <1>4, <1>5, <2>3 DEF Over, AfterSet, Nothing
<1>6. CASE new \in Nothing
  <2>1. all = below
    BY <1>3, <1>6
  <2>2. Last(below) \in 0 .. n /\ (below # {} => Last(below) \in 1 .. n)
    <3>1. below # {} => Max(below) \in 1 .. n
      BY <1>1, <1>2, MaxProperties
    <3>. QED BY <1>1, <3>1
  <2>3. Value(more, all) = Value(layers, below)
    BY <1>1, <2>1, <2>2
  <2>4. Nulled(more, all) <=> Nulled(layers, below) \/ new = Null
    <3>1. 1 .. n + 1 = (1 .. n) \cup {n + 1} /\ n + 1 > Last(below)
      BY <1>1, <2>2
    <3>. QED BY <1>1, <2>1, <3>1
  <2> DEFINE value == Value(layers, below)
             resolved == ResolvedPlain(base, layers, k)
  <2>5. resolved \in {value, AsObject(k, value)}
    BY <1>4
  <2>6. AsObject(k, resolved) = AsObject(k, value)
    BY <2>5, AsObjectTwice
  <2>. HIDE DEF Value, Nulled, Last, value, resolved
  <2>7. CASE new = Undef
    BY <1>4, <2>3, <2>4, <2>7, ValuesAssumption DEF Over, value, resolved
  <2>8. CASE new = Null
    BY <1>4, <2>3, <2>4, <2>6, <2>8, ValuesAssumption
       DEF Over, AfterSet, value, resolved
  <2>. QED BY <1>6, <2>7, <2>8 DEF Nothing
<1>. QED BY <1>5, <1>6

-----------------------------------------------------------------------------
(* Layers 1 .. n of well-formed content.                                   *)
AreLayers(layers, n) ==
    /\ n \in Nat
    /\ DOMAIN layers = 1 .. n
    /\ layers = [j \in 1 .. n |-> layers[j]]
    /\ \A j \in 1 .. n : IsConfig(layers[j])

LEMMA FieldType ==
    ASSUME NEW base, IsConfig(base), NEW layers, NEW n, AreLayers(layers, n),
           NEW k \in ObjectKeys, NEW f \in Fields
    PROVE  ResolvedField(base, layers, k, f) \in Scalars \cup Nothing
<1> DEFINE givers == FieldGivers(layers, k, f)
<1>1. givers \in SUBSET (1 .. n)
  BY DEF FieldGivers, Givers, AreLayers
<1>2. k \in Keys
  BY DEF Keys
<1>3. CASE givers # {}
  <2>1. Max(givers) \in givers
    BY <1>1, <1>3, MaxProperties DEF AreLayers
  <2>2. layers[Max(givers)][k] \in Objects
    BY <1>1, <1>2, <2>1
       DEF FieldGivers, Givers, AreLayers, IsConfig, ValuesOf
  <2>. QED BY <1>3, <2>2 DEF ResolvedField, Objects, Nothing
<1>4. CASE givers = {}
  <2>1. base[k] \notin Nothing => base[k] \in Objects
    BY <1>2 DEF IsConfig, ValuesOf
  <2>. QED BY <1>4, <2>1 DEF ResolvedField, Objects, Nothing
<1>. QED BY <1>3, <1>4

(* Object(old) is a value of a key that holds no objects of its own.       *)
LEMMA AsObjectType ==
    ASSUME NEW k \in Keys \ ObjectKeys, NEW old,
           old \in ValuesOf(k) \/ old \in Nothing
    PROVE  AsObject(k, old) \in ValuesOf(k)
BY KeysAssumption DEF AsObject, ValuesOf, Boxes, Keys

(* Layers over a well-formed configuration resolve to one.                 *)
LEMMA ResolvedType ==
    ASSUME NEW base, IsConfig(base), NEW layers, NEW n, AreLayers(layers, n)
    PROVE  IsConfig(Resolved(base, layers))
<1> DEFINE r == Resolved(base, layers)
<1>1. r = [k \in Keys |-> r[k]]
  BY DEF Resolved
<1>2. ASSUME NEW k \in Keys
      PROVE  r[k] \in ValuesOf(k) \/ r[k] \in Nothing
  <2>1. CASE ~Touched(layers, k) /\ k \in ObjectKeys
    BY <1>2, <2>1 DEF Resolved, IsConfig
  <2>2. CASE Touched(layers, k) /\ k \in ObjectKeys
    <3>1. \A f \in Fields :
            ResolvedField(base, layers, k, f) \in Scalars \cup Nothing
      BY <2>2, FieldType
    <3>2. r[k] = [f \in Fields |-> ResolvedField(base, layers, k, f)]
      BY <1>2, <2>2 DEF Resolved
    <3>3. r[k] \in Objects
      BY <3>1, <3>2 DEF Objects, Nothing
    <3>. QED BY <2>2, <3>3 DEF ValuesOf
  <2>3. CASE k \notin ObjectKeys
    <3> DEFINE givers == Givers(layers, k)
               value == IF givers = {} THEN base[k]
                        ELSE layers[Max(givers)][k]
    <3>1. givers \in SUBSET (1 .. n)
      BY DEF Givers, AreLayers
    <3>2. r[k] = value \/ r[k] = AsObject(k, value)
      BY <1>2, <2>3 DEF Resolved, ResolvedPlain
    <3>3. value \in ValuesOf(k) \/ value \in Nothing
      <4>1. givers # {} => Max(givers) \in 1 .. n
        BY <3>1, MaxProperties DEF AreLayers
      <4>. QED BY <1>2, <4>1 DEF AreLayers, IsConfig
    <3>. HIDE DEF value
    <3>4. AsObject(k, value) \in ValuesOf(k)
      BY <1>2, <2>3, <3>3, AsObjectType
    <3>. QED BY <3>2, <3>3, <3>4
  <2>. QED BY <2>1, <2>2, <2>3
<1>. QED BY <1>1, <1>2 DEF IsConfig

(* One more layer does to what the layers below it resolve to exactly what *)
(* setContext and merge do to the entries of a node.                       *)
LEMMA ResolvedStep ==
    ASSUME NEW base, IsConfig(base), NEW layers, NEW more, NEW n,
           ExtendedBy(layers, more, n), AreLayers(layers, n),
           NEW k \in Keys
    PROVE  Resolved(base, more)[k]
               = Over(k, Resolved(base, layers)[k], more[n + 1][k])
<1> DEFINE old == Resolved(base, layers)[k]
           new == more[n + 1][k]
<1>1. Touched(more, k) <=> (Touched(layers, k) \/ new # Undef)
  BY GiversStep
<1>2. CASE ~Touched(more, k) /\ k \in ObjectKeys
  BY <1>1, <1>2 DEF Resolved, Over
<1>3. CASE Touched(more, k) /\ k \in ObjectKeys
  <2>1. Resolved(base, more)[k] =
          [f \in Fields |-> ResolvedField(base, more, k, f)]
    BY <1>3 DEF Resolved
  <2>2. \A f \in Fields : ResolvedField(base, more, k, f) =
           IF new \notin Nothing /\ new[f] # Undef THEN new[f]
           ELSE ResolvedField(base, layers, k, f)
    BY FieldStep
  <2>3. CASE Touched(layers, k)
    <3>1. old = [f \in Fields |-> ResolvedField(base, layers, k, f)]
      BY <1>3, <2>3 DEF Resolved
    <3>2. old \notin Nothing
      <4>1. old \in Objects
        BY <1>3, <3>1, FieldType DEF Objects, Nothing
      <4>. QED BY <4>1, ValuesAssumption DEF Nothing
    <3>. QED BY <2>1, <2>2, <2>3, <3>1, <3>2, <1>3
             DEF Over, AfterSet, MergedObject, Nothing
  <2>4. CASE ~Touched(layers, k)
    <3>1. old = base[k] /\ new # Undef
      BY <1>1, <1>3, <2>4 DEF Resolved
    <3>2. \A f : ResolvedField(base, layers, k, f) =
                   IF old \in Nothing THEN Undef ELSE old[f]
      <4>1. Givers(layers, k) = {}
        BY <2>4 DEF Givers, Touched, Nothing
      <4>. QED BY <3>1, <4>1 DEF ResolvedField, FieldGivers
    <3>. QED BY <1>3, <2>1, <2>2, <3>1, <3>2
             DEF Over, AfterSet, MergedObject, Nothing
  <2>. QED BY <2>3, <2>4
<1>4. CASE k \notin ObjectKeys
  BY <1>4, PlainStep DEF Resolved
<1>. QED BY <1>2, <1>3, <1>4

-----------------------------------------------------------------------------
(* Layers applied to what they already resolved to change nothing.         *)
LEMMA ResolvedTwice ==
    ASSUME NEW base, IsConfig(base), NEW layers, NEW n, AreLayers(layers, n),
           NEW k \in ObjectKeys
    PROVE  Resolved(Resolved(base, layers), layers)[k]
               = Resolved(base, layers)[k]
<1> DEFINE once == Resolved(base, layers)
<1>1. k \in Keys
  BY DEF Keys
<1>2. CASE ~Touched(layers, k)
  BY <1>1, <1>2 DEF Resolved
<1>3. CASE Touched(layers, k)
  <2>1. once[k] = [f \in Fields |-> ResolvedField(base, layers, k, f)]
    BY <1>1, <1>3 DEF Resolved
  <2>2. once[k] \notin Nothing
    <3>1. once[k] \in Objects
      BY <2>1, FieldType DEF Objects, Nothing
    <3>. QED BY <3>1, ValuesAssumption DEF Nothing
  <2>3. \A f \in Fields : ResolvedField(once, layers, k, f)
                              = ResolvedField(base, layers, k, f)
    <3>1. ASSUME NEW f \in Fields, FieldGivers(layers, k, f) = {}
          PROVE  ResolvedField(once, layers, k, f) = once[k][f]
      BY <2>2, <3>1 DEF ResolvedField
    <3>2. ASSUME NEW f \in Fields, FieldGivers(layers, k, f) # {}
          PROVE  ResolvedField(once, layers, k, f)
                   = ResolvedField(base, layers, k, f)
      BY <3>2 DEF ResolvedField
    <3>. QED BY <2>1, <3>1, <3>2
  <2>4. Resolved(once, layers)[k] =
          [f \in Fields |-> ResolvedField(once, layers, k, f)]
    BY <1>1, <1>3 DEF Resolved
  <2>. QED BY <2>1, <2>3, <2>4
<1>. QED BY <1>2, <1>3
-----------------------------------------------------------------------------

FilesType == \A path \in DOMAIN files : IsConfig(files[path])

LEMMA NoLayerType == IsConfig(NoLayer)
BY DEF IsConfig, NoLayer, Nothing

(* What JSON.parse returns is a configuration.                             *)
LEMMA ContentIsConfig ==
    ASSUME NEW c, IsContent(c)
    PROVE  IsConfig(c)
BY DEF IsContent, IsConfig, GivenOf, ValuesOf

LEMMA FilesAreConfigs == TypeOK => IsConfig(cdkJson) /\ FilesType
BY ContentIsConfig DEF TypeOK, FilesType

LEMMA ContentType ==
    ASSUME FilesType, NEW path
    PROVE  IsConfig(ContentAt(files, path))
BY NoLayerType DEF ContentAt, FilesType

(* What setContext stores is a value of the key, never undefined.          *)
LEMMA AfterSetType ==
    ASSUME NEW k \in Keys, NEW old, NEW new,
           old \in ValuesOf(k) \/ old \in Nothing,
           new \in ValuesOf(k) \/ new = Null
    PROVE  AfterSet(k, old, new) \in ValuesOf(k) /\ AfterSet(k, old, new) \notin Nothing
<1>1. CASE k \in ObjectKeys
  <2>1. old \notin Nothing => old \in Objects
    BY <1>1 DEF ValuesOf
  <2>2. new # Null => new \in Objects
    BY <1>1 DEF ValuesOf
  <2>3. MergedObject(old, new) \in Objects
    BY <2>1, <2>2 DEF MergedObject, Objects
  <2>. QED BY <1>1, <2>3, ValuesAssumption DEF AfterSet, ValuesOf, Nothing
<1>2. CASE k \notin ObjectKeys
  <2>1. ValuesOf(k) = {Bare} \cup (IF k \in ListKeys THEN Seq(Scalars)
                                   ELSE Scalars \cup Boxes)
    BY <1>2 DEF ValuesOf
  <2>2. \A v \in ValuesOf(k) : v \notin Nothing
    BY <2>1, ValuesAssumption, BoxedAssumption DEF Nothing
  <2>3. AsObject(k, old) \in ValuesOf(k)
    BY <1>2, AsObjectType
  <2>. QED BY <1>2, <2>2, <2>3 DEF AfterSet
<1>. QED BY <1>1, <1>2

-----------------------------------------------------------------------------
(* What loading one file of well-formed content does.                      *)
LEMMA SetContextsType ==
    ASSUME TypeOK, NEW s \in Stacks, NEW layer, IsConfig(layer),
           SetContexts(s, layer)
    PROVE  /\ IsConfig(app')
           /\ DOMAIN own' = Stacks
           /\ \A t \in Stacks : IsConfig(own'[t])
<1> DEFINE entry(k) == IF layer[k] = Undef \/ SharesApp(s, k) THEN own[s][k]
                       ELSE AfterSet(k, View(s)[k], layer[k])
<1>1. IsConfig(app) /\ IsConfig(own[s])
  BY DEF TypeOK
<1>2. \A k \in Keys : View(s)[k] \in ValuesOf(k) \/ View(s)[k] \in Nothing
  BY <1>1 DEF View, IsConfig
<1>3. \A k \in Keys : layer[k] # Undef => layer[k] \in ValuesOf(k) \/ layer[k] = Null
  BY DEF IsConfig, Nothing
<1>4. IsConfig(app')
  <2>1. app' = [k \in Keys |-> IF layer[k] # Undef /\ SharesApp(s, k)
                               THEN AfterSet(k, app[k], layer[k]) ELSE app[k]]
    BY DEF SetContexts
  <2>2. \A k \in Keys : app'[k] \in ValuesOf(k) \/ app'[k] \in Nothing
    BY <1>1, <1>3, <2>1, AfterSetType DEF IsConfig
  <2>. QED BY <2>1, <2>2 DEF IsConfig
<1>5. own' = [own EXCEPT ![s] = [k \in Keys |-> entry(k)]]
  BY DEF SetContexts
<1>6. IsConfig([k \in Keys |-> entry(k)])
  <2>1. \A k \in Keys : entry(k) \in ValuesOf(k) \/ entry(k) \in Nothing
    BY <1>1, <1>2, <1>3, AfterSetType DEF IsConfig
  <2>. QED BY <2>1 DEF IsConfig
<1>. QED BY <1>4, <1>5, <1>6 DEF TypeOK

(* A shared key is merged once, in the App's object; an entry of the stack *)
(* itself is merged or replaced there; the other stacks keep theirs.       *)
LEMMA SetContextsEffect ==
    ASSUME TypeOK, LayersAccumulate, NEW s \in Stacks,
           NEW layer, IsConfig(layer), SetContexts(s, layer)
    PROVE  /\ \A k \in Keys : Shared(k) =>
                /\ app'[k] = Over(k, app[k], layer[k])
                /\ app'[k] \notin Nothing
                /\ own'[s][k] = Undef
           /\ \A k \in Keys : ~Shared(k) =>
                /\ app'[k] = app[k]
                /\ View(s)'[k] = Over(k, View(s)[k], layer[k])
           /\ \A t \in Stacks \ {s} : own'[t] = own[t]
<1>1. ASSUME NEW k \in Keys
      PROVE  /\ app'[k] = IF layer[k] # Undef /\ SharesApp(s, k)
                          THEN AfterSet(k, app[k], layer[k]) ELSE app[k]
             /\ own'[s][k] = IF layer[k] = Undef \/ SharesApp(s, k)
                             THEN own[s][k]
                             ELSE AfterSet(k, View(s)[k], layer[k])
             /\ View(s)[k] = IF own[s][k] = Undef THEN app[k] ELSE own[s][k]
             /\ View(s)'[k] = IF own'[s][k] = Undef THEN app'[k] ELSE own'[s][k]
  BY <1>1 DEF SetContexts, View, TypeOK
<1>2. ASSUME NEW k \in Keys, layer[k] # Undef
      PROVE  AfterSet(k, View(s)[k], layer[k]) \notin Nothing
             /\ AfterSet(k, app[k], layer[k]) \notin Nothing
  <2>1. IsConfig(app) /\ IsConfig(own[s])
    BY DEF TypeOK
  <2>2. layer[k] \in ValuesOf(k) \/ layer[k] = Null
    BY <1>2 DEF IsConfig, Nothing
  <2>. QED BY <1>1, <1>2, <2>1, <2>2, AfterSetType DEF IsConfig
<1>3. ASSUME NEW k \in Keys, Shared(k)
      PROVE  /\ app'[k] = Over(k, app[k], layer[k])
             /\ app'[k] \notin Nothing
             /\ own'[s][k] = Undef
  <2>1. own[s][k] = Undef /\ app[k] \notin Nothing /\ SharesApp(s, k)
    BY <1>3 DEF LayersAccumulate, SharesApp, Shared
  <2>. QED BY <1>1, <1>2, <1>3, <2>1 DEF Over
<1>4. ASSUME NEW k \in Keys, ~Shared(k)
      PROVE  /\ app'[k] = app[k]
             /\ View(s)'[k] = Over(k, View(s)[k], layer[k])
  <2>1. ~SharesApp(s, k)
    BY <1>4 DEF LayersAccumulate, SharesApp, Shared
  <2>. QED BY <1>1, <1>2, <1>4, <2>1 DEF Over, Nothing
<1>5. \A t \in Stacks \ {s} : own'[t] = own[t]
  BY DEF SetContexts, TypeOK
<1>. QED BY <1>3, <1>4, <1>5

-----------------------------------------------------------------------------
(* Every state of the constructors is well-formed.                         *)
THEOREM TypeCorrect == Spec => []TypeOK
<1>1. Init => TypeOK
  BY ContextsAssumption, ContentIsConfig, NoLayerType DEF Init, TypeOK, Phases
<1>2. TypeOK /\ [Next]_vars => TypeOK'
  <2>. SUFFICES ASSUME TypeOK, [Next]_vars PROVE TypeOK'
    OBVIOUS
  <2>. USE DEF Phases
  <2>1. FilesType
    BY FilesAreConfigs
  <2>2. ASSUME NEW s \in Stacks PROVE IsConfig(View(s))
    <3>1. IsConfig(app) /\ IsConfig(own[s])
      BY <2>2 DEF TypeOK
    <3>2. \A k \in Keys : View(s)[k] = IF own[s][k] = Undef THEN app[k]
                                       ELSE own[s][k]
      BY DEF View
    <3>. QED BY <3>1, <3>2 DEF View, IsConfig
  <2>3. ASSUME NEW s \in Stacks, Construct(s) PROVE TypeOK'
    <3>1. ExtraNames(View(s)) \in Seq(Scalars)
      <4>1. "extraContexts" \in Keys /\ "extraContexts" \notin ObjectKeys
        BY KeysAssumption DEF Keys
      <4>2. View(s)["extraContexts"] \in Seq(Scalars) \cup {Bare}
            \/ View(s)["extraContexts"] \in Nothing
        BY <2>2, <4>1, KeysAssumption DEF IsConfig, ValuesOf
      <4>. QED BY <4>2 DEF ExtraNames
    <3>. QED BY <2>3, <3>1, ContextsAssumption DEF Construct, TypeOK
  <2>4. CASE LoadExtra
    <3>1. cur \in Stacks
      BY <2>4 DEF LoadExtra, TypeOK
    <3>2. IsConfig(files[ExtraPath(extras[next])])
      BY <2>1, <2>4 DEF LoadExtra, FilesType
    <3>3. IsConfig(app') /\ DOMAIN own' = Stacks
          /\ \A t \in Stacks : IsConfig(own'[t])
      BY <2>4, <3>1, <3>2, SetContextsType DEF LoadExtra
    <3>4. next' \in 1 .. Len(extras) + 1
      BY <2>4 DEF LoadExtra, TypeOK
    <3>. QED BY <2>4, <3>3, <3>4 DEF LoadExtra, TypeOK
  <2>5. CASE ExtraMissing
    BY <2>5 DEF ExtraMissing, TypeOK
  <2>6. CASE DetermineRegionContexts
    <3>1. cur \in Stacks
      BY <2>6 DEF DetermineRegionContexts, TypeOK
    <3>2. IsConfig(app') /\ DOMAIN own' = Stacks
          /\ \A t \in Stacks : IsConfig(own'[t])
      BY <2>1, <2>6, <3>1, ContentType, SetContextsType
         DEF DetermineRegionContexts
    <3>. QED BY <2>6, <3>2 DEF DetermineRegionContexts, TypeOK
  <2>7. CASE DetermineStageContexts
    <3>1. cur \in Stacks
      BY <2>7 DEF DetermineStageContexts, TypeOK
    <3>2. IsConfig(app') /\ DOMAIN own' = Stacks
          /\ \A t \in Stacks : IsConfig(own'[t])
      BY <2>1, <2>7, <3>1, ContentType, SetContextsType
         DEF DetermineStageContexts
    <3>. QED BY <2>7, <3>2 DEF DetermineStageContexts, TypeOK
  <2>8. CASE DetermineStageRegionContexts
    <3>1. cur \in Stacks
      BY <2>8 DEF DetermineStageRegionContexts, TypeOK
    <3>2. IsConfig(app') /\ DOMAIN own' = Stacks
          /\ \A t \in Stacks : IsConfig(own'[t])
      BY <2>1, <2>8, <3>1, ContentType, SetContextsType
         DEF DetermineStageRegionContexts
    <3>. QED BY <2>8, <3>2 DEF DetermineStageRegionContexts, TypeOK
  <2>9. CASE DetermineConstructProps
    <3>1. cur \in Stacks
      BY <2>9 DEF DetermineConstructProps, TypeOK
    <3>2. IsConfig(View(cur))
      BY <2>2, <3>1
    <3>. QED BY <2>9, <3>1, <3>2 DEF DetermineConstructProps, TypeOK
  <2>10. CASE DirectoryRefused
    BY <2>10 DEF DirectoryRefused, TypeOK
  <2>11. CASE UNCHANGED vars
    BY <2>11 DEF vars, TypeOK
  <2>. QED
    BY <2>3, <2>4, <2>5, <2>6, <2>7, <2>8, <2>9, <2>10, <2>11 DEF Next, Ended
<1>. QED BY <1>1, <1>2, PTL DEF Spec

-----------------------------------------------------------------------------
(* The chain of layers, each one layer above the chain below it.           *)
LEMMA AppendLayer ==
    ASSUME NEW layers, NEW n, AreLayers(layers, n), NEW top, IsConfig(top)
    PROVE  /\ ExtendedBy(layers, Append(layers, top), n)
           /\ AreLayers(Append(layers, top), n + 1)
           /\ Append(layers, top)[n + 1] = top
<1> DEFINE S == {layers[j] : j \in 1 .. n} \cup {top}
<1>1. layers \in Seq(S) /\ Len(layers) = n
  <2>1. layers \in [1 .. n -> S] /\ n \in Nat
    BY DEF AreLayers
  <2>2. layers \in Seq(S)
    BY <2>1, IsASeq
  <2>. QED BY <2>1, <2>2, LenProperties
<1>2. /\ Append(layers, top) \in Seq(S)
      /\ Len(Append(layers, top)) = n + 1
      /\ \A j \in 1 .. n : Append(layers, top)[j] = layers[j]
      /\ Append(layers, top)[n + 1] = top
  BY <1>1, AppendProperties
<1>3. n \in Nat /\ n + 1 \in Nat /\ 1 .. n + 1 = (1 .. n) \cup {n + 1}
  BY DEF AreLayers
<1>4. DOMAIN Append(layers, top) = 1 .. n + 1
      /\ Append(layers, top) \in [1 .. n + 1 -> S]
  BY <1>2, LenProperties
<1>. QED BY <1>2, <1>3, <1>4 DEF AreLayers, ExtendedBy

(* The layer on top of a chain.                                            *)
LEMMA TopLayer ==
    ASSUME NEW layers, NEW n, AreLayers(layers, n), NEW top, IsConfig(top)
    PROVE  Append(layers, top)[n + 1] = top
BY AppendLayer, ZenonT(60)

LEMMA ChainTypes ==
    ASSUME TypeOK
    PROVE  LET n == Len(ExtraNames(cdkJson))
               below == WithRegion(cdkJson, files)
               under == WithStage(cdkJson, files)
           IN  /\ n \in Nat
               /\ AreLayers(ExtraLayers(cdkJson, files), n)
               /\ ExtendedBy(ExtraLayers(cdkJson, files), below, n)
               /\ AreLayers(below, n + 1)
               /\ ExtendedBy(below, under, n + 1)
               /\ AreLayers(under, n + 2)
               /\ ExtendedBy(under, AllLayers(cdkJson, files), n + 2)
               /\ AreLayers(AllLayers(cdkJson, files), n + 3)
<1> DEFINE n == Len(ExtraNames(cdkJson))
           extra == ExtraLayers(cdkJson, files)
           below == WithRegion(cdkJson, files)
           under == WithStage(cdkJson, files)
<1>1. FilesType /\ IsConfig(cdkJson)
  BY FilesAreConfigs
<1>2. ExtraNames(cdkJson) \in Seq(Scalars)
  <2>1. "extraContexts" \in Keys /\ "extraContexts" \notin ObjectKeys
    BY KeysAssumption DEF Keys
  <2>2. cdkJson["extraContexts"] \in Seq(Scalars) \cup {Bare}
        \/ cdkJson["extraContexts"] \in Nothing
    BY <1>1, <2>1, KeysAssumption DEF IsConfig, ValuesOf
  <2>. QED BY <2>2 DEF ExtraNames
<1>3. AreLayers(extra, n)
  <2>1. n \in Nat /\ DOMAIN ExtraNames(cdkJson) = 1 .. n
    BY <1>2
  <2>. QED BY <1>1, <2>1, ContentType DEF ExtraLayers, AreLayers
<1>4. ExtendedBy(extra, below, n) /\ AreLayers(below, n + 1)
  BY <1>1, <1>3, ContentType, AppendLayer DEF WithRegion
<1>5. ExtendedBy(below, under, n + 1) /\ AreLayers(under, n + 2)
  <2>1. ExtendedBy(below, under, n + 1) /\ AreLayers(under, (n + 1) + 1)
    BY <1>1, <1>4, ContentType, AppendLayer DEF WithStage
  <2>. QED BY <1>2, <2>1
<1>6. ExtendedBy(under, AllLayers(cdkJson, files), n + 2)
      /\ AreLayers(AllLayers(cdkJson, files), n + 3)
  <2>1. ExtendedBy(under, AllLayers(cdkJson, files), n + 2)
        /\ AreLayers(AllLayers(cdkJson, files), (n + 2) + 1)
    BY <1>1, <1>5, ContentType, AppendLayer DEF AllLayers
  <2>. QED BY <1>2, <2>1
<1>. QED BY <1>2, <1>3, <1>4, <1>5, <1>6

(* The top layer of each chain is the file found with the chain below.     *)
LEMMA ChainTops ==
    ASSUME TypeOK
    PROVE  LET n == Len(ExtraNames(cdkJson))
               extra == ExtraLayers(cdkJson, files)
               below == WithRegion(cdkJson, files)
               under == WithStage(cdkJson, files)
           IN  /\ below[n + 1]
                    = ContentAt(files, RegionPath(Resolved(cdkJson, extra)))
               /\ under[(n + 1) + 1]
                    = ContentAt(files, StagePath(Resolved(cdkJson, below)))
               /\ AllLayers(cdkJson, files)[(n + 2) + 1]
                    = ContentAt(files, StageRegionPath(Resolved(cdkJson, under)))
<1> DEFINE n == Len(ExtraNames(cdkJson))
           m == n + 1
           k == n + 2
           extra == ExtraLayers(cdkJson, files)
           below == WithRegion(cdkJson, files)
           under == WithStage(cdkJson, files)
           region == ContentAt(files, RegionPath(Resolved(cdkJson, extra)))
           stage == ContentAt(files, StagePath(Resolved(cdkJson, below)))
           final == ContentAt(files, StageRegionPath(Resolved(cdkJson, under)))
<1>1. IsConfig(region) /\ IsConfig(stage) /\ IsConfig(final)
  BY ContentType, FilesAreConfigs
<1>2. /\ AreLayers(extra, n)
      /\ AreLayers(below, m)
      /\ AreLayers(under, k)
  BY ChainTypes
<1>3. /\ below = Append(extra, region)
      /\ under = Append(below, stage)
      /\ AllLayers(cdkJson, files) = Append(under, final)
  BY DEF WithRegion, WithStage, AllLayers
<1>. HIDE DEF region, stage, final, extra, below, under, n, m, k
<1>4. Append(extra, region)[n + 1] = region
  BY <1>1, <1>2, TopLayer, Zenon
<1>5. Append(below, stage)[m + 1] = stage
  BY <1>1, <1>2, TopLayer, Zenon
<1>6. Append(under, final)[k + 1] = final
  BY <1>1, <1>2, TopLayer, Zenon
<1>. QED
  BY <1>3, <1>4, <1>5, <1>6 DEF region, stage, final, extra, below, under, n, m, k

-----------------------------------------------------------------------------
(* The base that a constructor's layers sit on is well-formed.             *)
LEMMA BaseType == TypeOK => IsConfig(Base)
<1> SUFFICES ASSUME TypeOK PROVE IsConfig(Base)
  OBVIOUS
<1>1. IsConfig(cdkJson)
  BY FilesAreConfigs
<1>2. IsConfig(Target)
  BY <1>1, ChainTypes, ResolvedType DEF Target
<1>. QED BY <1>1, <1>2 DEF Base

(* The keys that name a layer's file are scalars, so no stack shares them  *)
(* and each constructor finds the same files.                              *)
LEMMA SamePaths ==
    ASSUME LayersAccumulate, pc \notin {"idle", "failed"}
    PROVE  LET below == Resolved(cdkJson, Loaded)
           IN  /\ RegionPath(View(cur)) = RegionPath(below)
               /\ StagePath(View(cur)) = StagePath(below)
               /\ StageRegionPath(View(cur)) = StageRegionPath(below)
<1>1. \A k \in PathKeys : View(cur)[k] = Resolved(cdkJson, Loaded)[k]
  BY KeysAssumption DEF LayersAccumulate, Shared, Keys
<1>. QED
  BY <1>1 DEF PathKeys, RegionPath, StagePath, StageDir, StageRegionPath

(* Loading the next layer of the chain keeps the accumulation.             *)
LEMMA LoadStep ==
    ASSUME TypeOK, LayersAccumulate,
           pc \notin {"idle", "failed"}, pc' \notin {"idle", "failed"},
           UNCHANGED <<cdkJson, files, cur, extras, built>>,
           NEW n, ExtendedBy(Loaded, Loaded', n), AreLayers(Loaded, n),
           IsConfig(Loaded'[n + 1]), SetContexts(cur, Loaded'[n + 1])
    PROVE  LayersAccumulate'
<1> DEFINE layer == Loaded'[n + 1]
<1>1. cur \in Stacks /\ cur \notin built /\ extras = ExtraNames(cdkJson)
  BY DEF TypeOK, LayersAccumulate
<1>2. /\ Base' = Base /\ Target' = Target
      /\ \A k : Shared(k)' <=> Shared(k)
  BY DEF Base, Target, Shared
<1>3. /\ \A k \in Keys : Shared(k) =>
            /\ app'[k] = Over(k, app[k], layer[k])
            /\ app'[k] \notin Nothing
            /\ own'[cur][k] = Undef
      /\ \A k \in Keys : ~Shared(k) =>
            /\ app'[k] = app[k]
            /\ View(cur)'[k] = Over(k, View(cur)[k], layer[k])
      /\ \A t \in Stacks \ {cur} : own'[t] = own[t]
  BY <1>1, SetContextsEffect
<1>4. \A k \in Keys :
        IF Shared(k)
        THEN app'[k] \notin Nothing /\ \A s \in Stacks : own'[s][k] = Undef
        ELSE app'[k] = cdkJson[k]
  BY <1>3 DEF LayersAccumulate
<1>5. \A s \in Stacks \ (built \cup {cur}) : own'[s] = NoLayer
  BY <1>3 DEF LayersAccumulate
<1>6. \A s \in built : \A k \in Keys : ~Shared(k) => View(s)'[k] = Target[k]
  <2>1. \A s \in built : s \in Stacks /\ s # cur
    BY <1>1 DEF TypeOK
  <2>2. \A s \in built : \A k \in Keys : ~Shared(k) => View(s)'[k] = View(s)[k]
    BY <1>3, <2>1 DEF View
  <2>. QED BY <2>2 DEF LayersAccumulate
<1>7. ASSUME NEW k \in Keys
      PROVE  IF Shared(k) THEN app'[k] = Resolved(Base, Loaded')[k]
             ELSE View(cur)'[k] = Resolved(cdkJson, Loaded')[k]
  <2>1. IF Shared(k) THEN app[k] = Resolved(Base, Loaded)[k]
        ELSE View(cur)[k] = Resolved(cdkJson, Loaded)[k]
    BY DEF LayersAccumulate
  <2>2. IsConfig(Base) /\ IsConfig(cdkJson)
    BY BaseType, FilesAreConfigs
  <2>3. Resolved(Base, Loaded')[k] = Over(k, Resolved(Base, Loaded)[k], layer[k])
    BY <2>2, ResolvedStep
  <2>4. Resolved(cdkJson, Loaded')[k]
            = Over(k, Resolved(cdkJson, Loaded)[k], layer[k])
    BY <2>2, ResolvedStep
  <2>. QED BY <1>3, <2>1, <2>3, <2>4
<1>. QED BY <1>1, <1>2, <1>4, <1>5, <1>6, <1>7 DEF LayersAccumulate

-----------------------------------------------------------------------------
(* The layers accumulate: the inductive invariant.                         *)
THEOREM Accumulation == Spec => []LayersAccumulate
<1>1. Init => LayersAccumulate
  BY DEF Init, LayersAccumulate, Base, Shared, NoLayer
<1>2. TypeOK /\ TypeOK' /\ LayersAccumulate /\ [Next]_vars => LayersAccumulate'
  <2>. SUFFICES ASSUME TypeOK, TypeOK', LayersAccumulate, [Next]_vars
                PROVE  LayersAccumulate'
    OBVIOUS
  <2> DEFINE n == Len(ExtraNames(cdkJson))
             extra == ExtraLayers(cdkJson, files)
  <2>1. FilesType /\ n \in Nat /\ AreLayers(extra, n)
    BY ChainTypes, FilesAreConfigs
  <2>2. ASSUME NEW s \in Stacks, Construct(s) PROVE LayersAccumulate'
    <3>1. /\ UNCHANGED <<cdkJson, files, app, own, built, seen>>
          /\ pc = "idle" /\ pc' = "extra" /\ cur' = s /\ s \notin built
          /\ extras' = ExtraNames(View(s)) /\ next' = 1
      BY <2>2 DEF Construct
    <3>2. /\ Base' = Base /\ Target' = Target
          /\ \A k : Shared(k)' <=> Shared(k)
          /\ \A t : View(t)' = View(t)
      BY <3>1 DEF Base, Target, Shared, View
    <3>3. own[s] = NoLayer
      BY <3>1, ContextsAssumption DEF LayersAccumulate, TypeOK
    <3>4. \A k \in Keys : ~Shared(k) => View(s)[k] = cdkJson[k]
      BY <3>3 DEF LayersAccumulate, View, NoLayer
    <3>5. extras' = ExtraNames(cdkJson)
      <4>1. "extraContexts" \in Keys /\ "extraContexts" \notin ObjectKeys
        BY KeysAssumption DEF Keys
      <4>2. View(s)["extraContexts"] = cdkJson["extraContexts"]
        BY <3>4, <4>1 DEF Shared
      <4>. QED BY <3>1, <4>2 DEF ExtraNames
    <3>6. DOMAIN Loaded' = {}
      BY <3>1 DEF Loaded
    <3>7. \A k \in Keys : Resolved(Base, Loaded')[k] = Base[k]
                        /\ Resolved(cdkJson, Loaded')[k] = cdkJson[k]
      BY <3>6, ResolvedNone
    <3>8. \A k \in Keys : Shared(k) => app[k] = Base[k]
      BY <3>1 DEF LayersAccumulate
    <3>9. /\ \A k \in Keys :
               IF Shared(k)
               THEN app[k] \notin Nothing /\ \A t \in Stacks : own[t][k] = Undef
               ELSE app[k] = cdkJson[k]
          /\ \A t \in Stacks \ (built \cup {s}) : own[t] = NoLayer
          /\ \A t \in built : \A k \in Keys : ~Shared(k) => View(t)[k] = Target[k]
      BY <3>1, ContextsAssumption DEF LayersAccumulate, TypeOK
    <3>. QED BY <3>1, <3>2, <3>4, <3>5, <3>7, <3>8, <3>9 DEF LayersAccumulate
  <2>3. CASE LoadExtra
    <3>1. /\ pc = "extra" /\ pc' = "extra" /\ extras = ExtraNames(cdkJson)
          /\ next \in 1 .. n /\ next' = next + 1
          /\ UNCHANGED <<cdkJson, files, cur, extras, built>>
      BY <2>1, <2>3 DEF LoadExtra, LayersAccumulate, TypeOK
    <3>2. Loaded = [j \in 1 .. next - 1 |-> extra[j]]
          /\ Loaded' = [j \in 1 .. next |-> extra[j]]
      BY <3>1 DEF Loaded
    <3>3. ExtendedBy(Loaded, Loaded', next - 1) /\ AreLayers(Loaded, next - 1)
      BY <2>1, <3>1, <3>2 DEF ExtendedBy, AreLayers
    <3>4. Loaded'[(next - 1) + 1] = files[ExtraPath(extras[next])]
      <4>1. Loaded'[(next - 1) + 1] = extra[next]
        BY <2>1, <3>1, <3>2
      <4>2. next \in DOMAIN ExtraNames(cdkJson)
        BY <2>1, <3>1 DEF TypeOK
      <4>. QED BY <2>3, <3>1, <4>1, <4>2
               DEF LoadExtra, ExtraLayers, ContentAt
    <3>5. IsConfig(files[ExtraPath(extras[next])])
      BY <2>1, <2>3 DEF LoadExtra, FilesType
    <3>6. SetContexts(cur, Loaded'[(next - 1) + 1])
      BY <2>3, <3>4 DEF LoadExtra
    <3>. QED BY <3>1, <3>3, <3>4, <3>5, <3>6, LoadStep
  <2>4. CASE ExtraMissing \/ DirectoryRefused
    <3>1. pc' = "failed" /\ UNCHANGED <<cdkJson, files, app, own, cur, built>>
      BY <2>4 DEF ExtraMissing, DirectoryRefused
    <3>2. /\ Target' = Target /\ \A k : Shared(k)' <=> Shared(k)
          /\ \A t : View(t)' = View(t)
      BY <3>1 DEF Target, Shared, View
    <3>. QED BY <3>1, <3>2 DEF LayersAccumulate
  <2>5. CASE DetermineRegionContexts
    <3>1. /\ pc = "extra" /\ pc' = "stage" /\ extras = ExtraNames(cdkJson)
          /\ next - 1 = n
          /\ UNCHANGED <<cdkJson, files, cur, extras, built>>
      BY <2>1, <2>5 DEF DetermineRegionContexts, LayersAccumulate, TypeOK
    <3>2. Loaded = extra /\ Loaded' = WithRegion(cdkJson, files)
      BY <2>1, <3>1 DEF Loaded, AreLayers
    <3>3. Loaded'[n + 1] = ContentAt(files, RegionPath(View(cur)))
      <4>1. Loaded'[n + 1] =
              ContentAt(files, RegionPath(Resolved(cdkJson, extra)))
        BY <3>2, ChainTops
      <4>. QED BY <3>1, <3>2, <4>1, SamePaths
    <3>4. ExtendedBy(Loaded, Loaded', n) /\ AreLayers(Loaded, n)
      BY <3>2, ChainTypes
    <3>5. IsConfig(Loaded'[n + 1]) /\ SetContexts(cur, Loaded'[n + 1])
      BY <2>1, <2>5, <3>3, ContentType DEF DetermineRegionContexts
    <3>. QED BY <3>1, <3>4, <3>5, LoadStep
  <2>6. CASE DetermineStageContexts
    <3>1. /\ pc = "stage" /\ pc' = "stageRegion"
          /\ UNCHANGED <<cdkJson, files, cur, extras, built>>
      BY <2>6 DEF DetermineStageContexts
    <3>2. Loaded = WithRegion(cdkJson, files) /\ Loaded' = WithStage(cdkJson, files)
      BY <3>1 DEF Loaded
    <3>3. ExtendedBy(Loaded, Loaded', n + 1) /\ AreLayers(Loaded, n + 1)
      BY <3>2, ChainTypes
    <3>4. Loaded'[(n + 1) + 1] = ContentAt(files, StagePath(View(cur)))
      <4>1. Loaded'[(n + 1) + 1] =
              ContentAt(files, StagePath(Resolved(cdkJson, Loaded)))
        BY <3>2, ChainTops
      <4>. QED BY <3>1, <4>1, SamePaths
    <3>5. IsConfig(Loaded'[(n + 1) + 1]) /\ SetContexts(cur, Loaded'[(n + 1) + 1])
      BY <2>1, <2>6, <3>4, ContentType DEF DetermineStageContexts
    <3>. QED BY <3>1, <3>3, <3>5, LoadStep
  <2>7. CASE DetermineStageRegionContexts
    <3>1. /\ pc = "stageRegion" /\ pc' = "props"
          /\ UNCHANGED <<cdkJson, files, cur, extras, built>>
      BY <2>7 DEF DetermineStageRegionContexts
    <3>2. Loaded = WithStage(cdkJson, files) /\ Loaded' = AllLayers(cdkJson, files)
      BY <3>1 DEF Loaded
    <3>3. ExtendedBy(Loaded, Loaded', n + 2) /\ AreLayers(Loaded, n + 2)
      BY <3>2, ChainTypes
    <3>4. Loaded'[(n + 2) + 1] = ContentAt(files, StageRegionPath(View(cur)))
      <4>1. Loaded'[(n + 2) + 1] =
              ContentAt(files, StageRegionPath(Resolved(cdkJson, Loaded)))
        BY <3>2, ChainTops
      <4>. QED BY <3>1, <4>1, SamePaths
    <3>5. IsConfig(Loaded'[(n + 2) + 1]) /\ SetContexts(cur, Loaded'[(n + 2) + 1])
      BY <2>1, <2>7, <3>4, ContentType DEF DetermineStageRegionContexts
    <3>. QED BY <3>1, <3>3, <3>5, LoadStep
  <2>8. CASE DetermineConstructProps
    <3>1. /\ pc = "props" /\ pc' = "idle" /\ cur' = NoStack /\ cur \in Stacks
          /\ built' = built \cup {cur}
          /\ UNCHANGED <<cdkJson, files, app, own>>
      BY <2>8 DEF DetermineConstructProps, TypeOK
    <3>2. /\ Target' = Target /\ Base' = Target
          /\ \A k : Shared(k)' <=> Shared(k)
          /\ \A t : View(t)' = View(t)
      BY <3>1 DEF Base, Target, Shared, View
    <3>3. Loaded = AllLayers(cdkJson, files)
      BY <3>1 DEF Loaded
    <3>4. \A k \in Keys : Shared(k) => app[k] = Target[k]
      <4>1. \A k \in Keys : Shared(k) => app[k] = Resolved(Base, Loaded)[k]
        BY <3>1 DEF LayersAccumulate
      <4>2. IsConfig(cdkJson) /\ AreLayers(Loaded, n + 3)
        BY <3>3, ChainTypes, FilesAreConfigs
      <4>3. \A k \in Keys : Shared(k) => Resolved(Target, Loaded)[k] = Target[k]
        BY <3>3, <4>2, ResolvedTwice DEF Target, Shared
      <4>. QED BY <3>3, <4>1, <4>3 DEF Base, Target
    <3>5. \A k \in Keys : ~Shared(k) => View(cur)[k] = Target[k]
      BY <3>1, <3>3 DEF LayersAccumulate, Target
    <3>6. \A t \in built' : \A k \in Keys : ~Shared(k) => View(t)[k] = Target[k]
      BY <3>1, <3>5 DEF LayersAccumulate
    <3>7. \A t \in Stacks \ (built' \cup {cur'}) : own[t] = NoLayer
      BY <3>1 DEF LayersAccumulate
    <3>8. \A k \in Keys :
            IF Shared(k)
            THEN app[k] \notin Nothing /\ \A s \in Stacks : own[s][k] = Undef
            ELSE app[k] = cdkJson[k]
      BY DEF LayersAccumulate
    <3>. QED BY <3>1, <3>2, <3>4, <3>6, <3>7, <3>8 DEF LayersAccumulate
  <2>9. CASE UNCHANGED vars
    <3>1. /\ UNCHANGED <<cdkJson, files, app, own, cur, pc, extras, built>>
          /\ Base' = Base /\ Target' = Target /\ Loaded' = Loaded
          /\ \A k : Shared(k)' <=> Shared(k)
          /\ \A t : View(t)' = View(t)
      BY <2>9 DEF vars, Base, Target, Loaded, Shared, View
    <3>. QED BY <3>1 DEF LayersAccumulate
  <2>. QED BY <2>2, <2>3, <2>4, <2>5, <2>6, <2>7, <2>8, <2>9 DEF Next, Ended
<1>. QED BY <1>1, <1>2, TypeCorrect, PTL DEF Spec

(* Between two constructors every stack constructed so far reads what the  *)
(* layers resolve to over cdk.json, whatever the others wrote.             *)
THEOREM AloneInTheApp == Spec => []ResolvedAsIfAlone
<1>1. TypeOK /\ LayersAccumulate => ResolvedAsIfAlone
  <2>. SUFFICES ASSUME TypeOK, LayersAccumulate, pc = "idle", NEW s \in built
                PROVE  View(s) = Target
    BY DEF ResolvedAsIfAlone
  <2>1. s \in Stacks /\ Base = Target
    BY DEF TypeOK, Base
  <2>2. \A k \in Keys : View(s)[k] = Target[k]
    BY <2>1 DEF LayersAccumulate, View
  <2>. QED BY <2>2 DEF View, Target, Resolved
<1>. QED BY <1>1, TypeCorrect, Accumulation, PTL
-----------------------------------------------------------------------------
(* What a stack is built with, and the refinement of LayeredConfig: the    *)
(* configuration of a finished stack is the one its layers resolve to.     *)
SeenResolved == \A s \in built : seen[s] = Target

LEMMA SeenInvariant == Spec => []SeenResolved
<1>1. Init => SeenResolved
  BY DEF Init, SeenResolved
<1>2. TypeOK /\ ResolvedAsIfAlone' /\ SeenResolved /\ [Next]_vars => SeenResolved'
  <2> SUFFICES ASSUME TypeOK, ResolvedAsIfAlone', SeenResolved, [Next]_vars
               PROVE  SeenResolved'
    OBVIOUS
  <2>1. CASE DetermineConstructProps
    <3>1. /\ pc' = "idle" /\ cur \in Stacks
          /\ built' = built \cup {cur}
          /\ seen' = [seen EXCEPT ![cur] = View(cur)]
          /\ UNCHANGED <<cdkJson, files, app, own>>
      BY <2>1 DEF DetermineConstructProps, TypeOK
    <3>2. Target' = Target /\ \A t : View(t)' = View(t)
      BY <3>1 DEF Target, View
    <3>3. View(cur) = Target
      <4>1. \A t \in built' : View(t) = Target
        BY <3>1, <3>2 DEF ResolvedAsIfAlone
      <4>. QED BY <3>1, <4>1
    <3>4. DOMAIN seen = Stacks /\ built \subseteq Stacks
      BY DEF TypeOK
    <3>5. ASSUME NEW s \in built' PROVE seen'[s] = Target
      <4>1. CASE s = cur
        BY <3>1, <3>3, <3>4, <4>1
      <4>2. CASE s # cur
        BY <3>1, <3>4, <4>2 DEF SeenResolved
      <4>. QED BY <4>1, <4>2
    <3>. QED BY <3>2, <3>5 DEF SeenResolved
  <2>2. CASE ~DetermineConstructProps
    <3>1. UNCHANGED <<cdkJson, files, built, seen>>
      BY <2>2 DEF Next, Ended, Construct, LoadExtra, ExtraMissing, vars,
             DetermineRegionContexts, DetermineStageContexts,
             DetermineStageRegionContexts, DirectoryRefused
    <3>2. Target' = Target
      BY <3>1 DEF Target
    <3>. QED BY <3>1, <3>2 DEF SeenResolved
  <2>. QED BY <2>1, <2>2
<1>. QED BY <1>1, <1>2, TypeCorrect, AloneInTheApp, PTL DEF Spec

(* No later constructor changes what an earlier stack was built with.      *)
THEOREM BuiltAsRead == Spec => []BuiltWithWhatItReads
<1>1. SeenResolved /\ ResolvedAsIfAlone => BuiltWithWhatItReads
  BY DEF SeenResolved, ResolvedAsIfAlone, BuiltWithWhatItReads
<1>. QED BY <1>1, SeenInvariant, AloneInTheApp, PTL

(* What the stage-region file gives is what every finished stack reads.    *)
THEOREM FinalSay == Spec => []StageRegionHasFinalSay
<1>1. TypeOK /\ ResolvedAsIfAlone => StageRegionHasFinalSay
  <2> DEFINE under == WithStage(cdkJson, files)
             all == AllLayers(cdkJson, files)
             n == Len(ExtraNames(cdkJson))
             top == ContentAt(files, StageRegionPath(Resolved(cdkJson, under)))
  <2> SUFFICES ASSUME TypeOK, ResolvedAsIfAlone, pc = "idle", NEW s \in built
               PROVE  /\ \A k \in Keys \ ObjectKeys :
                            top[k] \notin Nothing => View(s)[k] = top[k]
                      /\ \A k \in ObjectKeys : top[k] \notin Nothing =>
                            \A f \in Fields :
                              top[k][f] # Undef => View(s)[k][f] = top[k][f]
    BY DEF StageRegionHasFinalSay
  <2>1. View(s) = Resolved(cdkJson, all)
    BY DEF ResolvedAsIfAlone, Target
  <2>2. ExtendedBy(under, all, n + 2) /\ AreLayers(under, n + 2)
        /\ all[(n + 2) + 1] = top /\ IsConfig(cdkJson)
    BY ChainTypes, ChainTops, FilesAreConfigs
  <2>. HIDE DEF under, all, top, n
  <2>3. ASSUME NEW k \in Keys, top[k] # Undef
        PROVE  View(s)[k] = AfterSet(k, Resolved(cdkJson, under)[k], top[k])
    BY <2>1, <2>2, <2>3, ResolvedStep DEF Over
  <2>4. ASSUME NEW k \in Keys \ ObjectKeys, top[k] \notin Nothing
        PROVE  View(s)[k] = top[k]
    BY <2>3, <2>4 DEF AfterSet, Nothing
  <2>5. ASSUME NEW k \in ObjectKeys, top[k] \notin Nothing,
               NEW f \in Fields, top[k][f] # Undef
        PROVE  View(s)[k][f] = top[k][f]
    BY <2>3, <2>5 DEF AfterSet, MergedObject, Nothing, Keys
  <2>. QED BY <2>4, <2>5
<1>. QED BY <1>1, TypeCorrect, AloneInTheApp, PTL

-----------------------------------------------------------------------------
(* LayeredConfig resolves configurations as this module does.              *)
LEMMA SameResolution ==
    /\ Layered!Resolved(cdkJson, Layered!AllLayers(cdkJson, files)) = Target
    /\ Layered!Configurable(cdkJson, files) <=> Configurable(cdkJson, files)
    /\ Layered!NoLayer = NoLayer
<1>1. /\ Layered!Keys = Keys /\ Layered!Nothing = Nothing
      /\ Layered!NoLayer = NoLayer /\ Layered!NoPath = NoPath
      /\ Layered!Boxes = Boxes
  BY DEF Layered!Keys, Keys, Layered!Nothing, Nothing, Layered!NoLayer, NoLayer,
      Layered!NoPath, NoPath, Layered!Boxes, Boxes
<1>2. ASSUME NEW base, NEW layers
      PROVE  Layered!Resolved(base, layers) = Resolved(base, layers)
  <2>1. \A k : Layered!Givers(layers, k) = Givers(layers, k)
    BY <1>1 DEF Layered!Givers, Givers
  <2>2. \A S : Layered!Max(S) = Max(S)
    BY DEF Layered!Max, Max
  <2>3. \A k : Layered!ResolvedPlain(base, layers, k) = ResolvedPlain(base, layers, k)
    <3>1. \A k, v : Layered!AsObject(k, v) = AsObject(k, v)
      BY <1>1 DEF Layered!AsObject, AsObject
    <3>. QED BY <2>1, <2>2, <3>1 DEF Layered!ResolvedPlain, ResolvedPlain
  <2>4. \A k, f : Layered!ResolvedField(base, layers, k, f)
                     = ResolvedField(base, layers, k, f)
    BY <1>1, <2>1, <2>2 DEF Layered!ResolvedField, ResolvedField,
       Layered!FieldGivers, FieldGivers
  <2>. QED BY <1>1, <2>3, <2>4
           DEF Layered!Resolved, Resolved, Layered!Touched, Touched
<1>3. ASSUME NEW c
      PROVE  /\ Layered!ExtraNames(c) = ExtraNames(c)
             /\ Layered!RegionPath(c) = RegionPath(c)
             /\ Layered!StagePath(c) = StagePath(c)
             /\ Layered!StageRegionPath(c) = StageRegionPath(c)
  <2>1. \A v : Layered!Text(v) = Text(v) /\ (Layered!Falsy(v) <=> Falsy(v))
    BY <1>1 DEF Layered!Text, Text, Layered!Falsy, Falsy
  <2>. QED BY <1>1, <2>1 DEF Layered!ExtraNames, ExtraNames,
           Layered!RegionPath, RegionPath, Layered!StagePath, StagePath,
           Layered!StageDir, StageDir, Layered!StageRegionPath, StageRegionPath
<1>4. \A path : Layered!ContentAt(files, path) = ContentAt(files, path)
  BY <1>1 DEF Layered!ContentAt, ContentAt
<1>5. /\ Layered!ExtraLayers(cdkJson, files) = ExtraLayers(cdkJson, files)
      /\ Layered!ExtrasPresent(cdkJson, files) <=> ExtrasPresent(cdkJson, files)
  BY <1>3, <1>4 DEF Layered!ExtraLayers, ExtraLayers, Layered!ExtraPath,
      ExtraPath, Layered!ExtrasPresent, ExtrasPresent
<1>6. Layered!WithRegion(cdkJson, files) = WithRegion(cdkJson, files)
  BY <1>2, <1>3, <1>4, <1>5 DEF Layered!WithRegion, WithRegion
<1>7. Layered!WithStage(cdkJson, files) = WithStage(cdkJson, files)
  BY <1>2, <1>3, <1>4, <1>6 DEF Layered!WithStage, WithStage
<1>8. Layered!AllLayers(cdkJson, files) = AllLayers(cdkJson, files)
  BY <1>2, <1>3, <1>4, <1>7 DEF Layered!AllLayers, AllLayers
<1>9. \A path : Layered!Joins(path) <=> Joins(path)
  BY <1>1 DEF Layered!Joins, Joins
<1>. QED BY <1>1, <1>2, <1>3, <1>5, <1>6, <1>7, <1>8, <1>9
         DEF Target, Layered!Configurable, Configurable,
             Layered!DirectoriesJoin, DirectoriesJoin

(* The extra contexts a constructor went past are there, and path.join     *)
(* took the directories of the layers it went past.                        *)
PathsSoFar ==
    /\ pc = "extra" => \A j \in 1 .. next - 1 :
                          ExtraPath(ExtraNames(cdkJson)[j]) \in DOMAIN files
    /\ pc \in {"stage", "stageRegion", "props"} =>
        /\ ExtrasPresent(cdkJson, files)
        /\ Joins(RegionPath(Resolved(cdkJson, ExtraLayers(cdkJson, files))))
    /\ pc \in {"stageRegion", "props"} =>
        Joins(StagePath(Resolved(cdkJson, WithRegion(cdkJson, files))))
    /\ pc = "props" =>
        Joins(StageRegionPath(Resolved(cdkJson, WithStage(cdkJson, files))))

(* Past the loop over the extra contexts all of them are loaded.           *)
LEMMA ExtrasLoaded ==
    ASSUME TypeOK, LayersAccumulate, pc = "extra", next > Len(extras)
    PROVE  Loaded = ExtraLayers(cdkJson, files)
<1>1. /\ extras = ExtraNames(cdkJson) /\ next - 1 = Len(extras)
      /\ DOMAIN ExtraNames(cdkJson) = 1 .. next - 1
  BY DEF LayersAccumulate, TypeOK
<1>. QED BY <1>1 DEF Loaded, ExtraLayers

LEMMA PathsInvariant == Spec => []PathsSoFar
<1>1. Init => PathsSoFar
  BY DEF Init, PathsSoFar
<1>2. TypeOK /\ LayersAccumulate /\ PathsSoFar /\ [Next]_vars => PathsSoFar'
  <2> SUFFICES ASSUME TypeOK, LayersAccumulate, PathsSoFar, [Next]_vars
               PROVE  PathsSoFar'
    OBVIOUS
  <2>1. ASSUME NEW s \in Stacks, Construct(s) PROVE PathsSoFar'
    BY <2>1 DEF Construct, PathsSoFar
  <2>2. CASE LoadExtra
    <3>1. /\ pc = "extra" /\ pc' = "extra" /\ extras = ExtraNames(cdkJson)
          /\ next \in Nat /\ next' = next + 1
          /\ ExtraPath(extras[next]) \in DOMAIN files
          /\ UNCHANGED <<cdkJson, files>>
      BY <2>2 DEF LoadExtra, LayersAccumulate, TypeOK
    <3>2. \A j \in 1 .. next' - 1 : j \in 1 .. next - 1 \/ j = next
      BY <3>1
    <3>. QED BY <3>1, <3>2 DEF PathsSoFar
  <2>3. CASE ExtraMissing
    BY <2>3 DEF ExtraMissing, PathsSoFar
  <2>4. CASE DetermineRegionContexts
    <3>1. /\ pc = "extra" /\ pc' = "stage" /\ extras = ExtraNames(cdkJson)
          /\ next > Len(extras) /\ next \in Nat /\ extras \in Seq(Scalars)
          /\ UNCHANGED <<cdkJson, files>>
      BY <2>4 DEF DetermineRegionContexts, LayersAccumulate, TypeOK
    <3>2. \A j \in DOMAIN ExtraNames(cdkJson) : j \in 1 .. next - 1
      BY <3>1
    <3>3. Joins(RegionPath(Resolved(cdkJson, ExtraLayers(cdkJson, files))))
      <4>1. Joins(RegionPath(View(cur))) /\ Loaded = ExtraLayers(cdkJson, files)
        BY <2>4, <3>1, ExtrasLoaded DEF DetermineRegionContexts
      <4>. QED BY <3>1, <4>1, SamePaths
    <3>. QED BY <3>1, <3>2, <3>3 DEF PathsSoFar, ExtrasPresent
  <2>5. CASE DetermineStageContexts
    <3>1. /\ pc = "stage" /\ pc' = "stageRegion"
          /\ Joins(StagePath(View(cur)))
          /\ UNCHANGED <<cdkJson, files>>
      BY <2>5 DEF DetermineStageContexts
    <3>2. Joins(StagePath(Resolved(cdkJson, WithRegion(cdkJson, files))))
      BY <3>1, SamePaths DEF Loaded
    <3>. QED BY <3>1, <3>2 DEF PathsSoFar, ExtrasPresent
  <2>8. CASE DetermineStageRegionContexts
    <3>1. /\ pc = "stageRegion" /\ pc' = "props"
          /\ Joins(StageRegionPath(View(cur)))
          /\ UNCHANGED <<cdkJson, files>>
      BY <2>8 DEF DetermineStageRegionContexts
    <3>2. Joins(StageRegionPath(Resolved(cdkJson, WithStage(cdkJson, files))))
      BY <3>1, SamePaths DEF Loaded
    <3>. QED BY <3>1, <3>2 DEF PathsSoFar, ExtrasPresent
  <2>9. CASE DirectoryRefused
    BY <2>9 DEF DirectoryRefused, PathsSoFar
  <2>6. CASE DetermineConstructProps
    BY <2>6 DEF DetermineConstructProps, PathsSoFar
  <2>7. CASE UNCHANGED vars
    BY <2>7 DEF vars, PathsSoFar, ExtrasPresent
  <2>. QED BY <2>1, <2>2, <2>3, <2>4, <2>5, <2>6, <2>7, <2>8, <2>9
           DEF Next, Ended
<1>. QED BY <1>1, <1>2, TypeCorrect, Accumulation, PTL DEF Spec

(* The constructors of an application, step by step and with the objects   *)
(* they share, implement the atomic promise: each stack is configured at   *)
(* once, or a missing extra context or a directory that is no string       *)
(* aborts the application.                                                 *)
THEOREM Refinement == Spec => ImplementsLayeredConfig
<1>1. Init => Layered!Init
  BY SameResolution DEF Init, Layered!Init
<1>2. TypeOK /\ LayersAccumulate /\ PathsSoFar /\ ResolvedAsIfAlone'
        /\ [Next]_vars => [Layered!Next]_(Layered!vars)
  <2> SUFFICES ASSUME TypeOK, LayersAccumulate, PathsSoFar, ResolvedAsIfAlone',
                      [Next]_vars
               PROVE  Layered!Next \/ UNCHANGED Layered!vars
    OBVIOUS
  <2>1. CASE ExtraMissing
    <3>1. /\ pc = "extra" /\ pc' = "failed" /\ next <= Len(extras)
          /\ ExtraPath(extras[next]) \notin DOMAIN files
          /\ UNCHANGED <<cdkJson, files, built, seen>>
      BY <2>1 DEF ExtraMissing
    <3>2. extras = ExtraNames(cdkJson) /\ cur \in Stacks /\ cur \notin built
          /\ next \in DOMAIN extras
      BY <3>1, ContextsAssumption DEF LayersAccumulate, TypeOK
    <3>3. ~Configurable(cdkJson, files) /\ built # Stacks
      BY <3>1, <3>2 DEF ExtrasPresent, Configurable
    <3>. QED BY <3>1, <3>3, SameResolution DEF Layered!Next, Layered!Abort
  <2>2. CASE DetermineConstructProps
    <3>1. /\ pc = "props" /\ pc' = "idle" /\ cur \in Stacks /\ cur \notin built
          /\ built' = built \cup {cur}
          /\ seen' = [seen EXCEPT ![cur] = View(cur)]
          /\ UNCHANGED <<cdkJson, files, app, own>>
      BY <2>2 DEF DetermineConstructProps, TypeOK, LayersAccumulate
    <3>2. Target' = Target /\ \A t : View(t)' = View(t)
      BY <3>1 DEF Target, View
    <3>3. View(cur) = Target
      <4>1. \A t \in built' : View(t) = Target
        BY <3>1, <3>2 DEF ResolvedAsIfAlone
      <4>. QED BY <3>1, <4>1
    <3>4. Configurable(cdkJson, files)
      BY <3>1 DEF PathsSoFar, Configurable, DirectoriesJoin
    <3>5. Layered!Configure(cur)
      BY <3>1, <3>3, <3>4, SameResolution DEF Layered!Configure
    <3>. QED BY <3>1, <3>5 DEF Layered!Next
  <2>4. CASE DirectoryRefused
    <3>1. /\ pc \in {"extra", "stage", "stageRegion"} /\ pc' = "failed"
          /\ UNCHANGED <<cdkJson, files, built, seen>>
      BY <2>4 DEF DirectoryRefused
    <3>2. cur \in Stacks /\ cur \notin built
      BY <3>1, ContextsAssumption DEF LayersAccumulate, TypeOK
    <3>3. ~DirectoriesJoin(cdkJson, files)
      <4>1. CASE pc = "extra"
        <5>1. next > Len(extras) /\ ~Joins(RegionPath(View(cur)))
          BY <2>4, <4>1 DEF DirectoryRefused
        <5>2. Loaded = ExtraLayers(cdkJson, files)
          BY <4>1, <5>1, ExtrasLoaded
        <5>. QED BY <4>1, <5>1, <5>2, SamePaths DEF DirectoriesJoin
      <4>2. CASE pc = "stage"
        <5>1. ~Joins(StagePath(View(cur)))
          BY <2>4, <4>2 DEF DirectoryRefused
        <5>. QED BY <4>2, <5>1, SamePaths DEF DirectoriesJoin, Loaded
      <4>3. CASE pc = "stageRegion"
        <5>1. ~Joins(StageRegionPath(View(cur)))
          BY <2>4, <4>3 DEF DirectoryRefused
        <5>. QED BY <4>3, <5>1, SamePaths DEF DirectoriesJoin, Loaded
      <4>. QED BY <3>1, <4>1, <4>2, <4>3
    <3>4. ~Configurable(cdkJson, files) /\ built # Stacks
      BY <3>2, <3>3 DEF Configurable
    <3>. QED BY <3>1, <3>4, SameResolution DEF Layered!Next, Layered!Abort
  <2>3. CASE ~ExtraMissing /\ ~DirectoryRefused /\ ~DetermineConstructProps
    <3>1. UNCHANGED <<cdkJson, files, built, seen>>
          /\ (pc' = "failed" <=> pc = "failed")
      BY <2>3 DEF Next, Ended, Construct, LoadExtra, vars,
             DetermineRegionContexts, DetermineStageContexts,
             DetermineStageRegionContexts
    <3>. QED BY <3>1 DEF Layered!vars
  <2>. QED BY <2>1, <2>2, <2>3, <2>4
<1>. QED BY <1>1, <1>2, TypeCorrect, Accumulation, PathsInvariant,
        AloneInTheApp, PTL DEF Spec, ImplementsLayeredConfig, Layered!Spec
=============================================================================
