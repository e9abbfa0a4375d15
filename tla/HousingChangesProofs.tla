------------------------ MODULE HousingChangesProofs ------------------------
(***************************************************************************)
(* Proofs about the dimensions of a housing: the types of HousingChanges,  *)
(* and that changes are exact, undone changes leave no trace in the design *)
(* and a generated design stands, for every housing, every request and any *)
(* number of plans and changes.                                            *)
(***************************************************************************)
EXTENDS HousingChanges, StreamLemmas, FiniteSetTheorems

Length == Int \ {NoValue}
ParamSets == UNION {[K -> Length] : K \in SUBSET Keys}
Designs == [base : Int, lid : Int, source : Int, boss : Int, top : Int, floor : Int, wall : Int]

PatchRecords == [key : Keys, value : Length, before : Int]
Places == UNION {SUBSET (1..n) : n \in Nat}
PatchSets == UNION {[I -> PatchRecords] : I \in Places}

Operations == [kind : Kinds, target : DOMAIN Owner, parameter : Parameters \cup {"none"}, value : Int]
OpSeqs == {ops \in Seq(Operations) : \A i \in DOMAIN ops :
              ops[i].kind = "set_parameter" => ops[i].value # NoValue /\ ops[i].parameter \in Parameters}

-----------------------------------------------------------------------------
\* Sets of places have a first and a last element.
LEMMA FirstPlace ==
    ASSUME NEW T \in SUBSET Nat, T # {}
    PROVE  Min(T) \in T /\ \A y \in T : Min(T) <= y
<1> DEFINE Less == {pair \in Nat \X Nat : pair[1] < pair[2]}
<1>1. IsWellFoundedOn(Less, Nat)
    BY NatLessThanWellFounded DEF OpToRel
<1> HIDE DEF Less
<1>2. PICK x \in T : \A y \in T : <<y, x>> \notin Less
    BY <1>1, WFMin
<1>3. ASSUME NEW y \in T
      PROVE  x <= y
    <2>1. <<y, x>> \in Nat \X Nat /\ ~ (<<y, x>> \in Less)
        BY <1>2
    <2>2. ~ (y < x)
        BY <2>1 DEF Less
    <2> QED
        BY <2>2
<1>4. \E z \in T : \A y \in T : z <= y
    BY <1>3
<1> QED
    BY <1>4 DEF Min

\* The seven keys are keys, and differ.
LEMMA KeysDiffer ==
    /\ BaseHeight \in Keys /\ BaseWall \in Keys /\ Floor \in Keys /\ LidHeight \in Keys
    /\ LidTop \in Keys /\ TotalHeight \in Keys /\ BossTop \in Keys
    /\ LidHeight \notin {BaseHeight, BaseWall, Floor, LidTop, TotalHeight, BossTop}
    /\ BossTop \notin {BaseHeight, BaseWall, Floor, LidTop, TotalHeight, LidHeight}
    /\ BaseHeight \notin {BaseWall, Floor, LidTop, TotalHeight}
<1>1. /\ BaseHeight \in Keys /\ BaseWall \in Keys /\ Floor \in Keys /\ LidHeight \in Keys
      /\ LidTop \in Keys /\ TotalHeight \in Keys /\ BossTop \in Keys
    BY DEF Keys, Parameters, BaseHeight, BaseWall, Floor, LidHeight, LidTop, TotalHeight, BossTop
<1>2. /\ LidHeight[1] = "lid" /\ LidTop[1] = "lid" /\ TotalHeight[1] = "lid" /\ BossTop[1] = "lid"
      /\ BaseHeight[1] = "base" /\ BaseWall[1] = "base" /\ Floor[1] = "base"
      /\ LidHeight[2] = "height" /\ LidTop[2] = "wall_thickness" /\ TotalHeight[2] = "total_height"
      /\ BossTop[2] = "auxiliary_boss_top_z" /\ BaseHeight[2] = "height"
      /\ BaseWall[2] = "wall_thickness" /\ Floor[2] = "floor_thickness"
    BY DEF BaseHeight, BaseWall, Floor, LidHeight, LidTop, TotalHeight, BossTop
<1>3. "lid" # "base" /\ "height" # "wall_thickness" /\ "height" # "total_height"
      /\ "height" # "auxiliary_boss_top_z" /\ "height" # "floor_thickness"
      /\ "auxiliary_boss_top_z" # "wall_thickness" /\ "auxiliary_boss_top_z" # "total_height"
    OBVIOUS
<1> QED
    BY <1>1, <1>2, <1>3

\* A set of parameters is a function from keys to lengths.
LEMMA ParamsAre ==
    ASSUME NEW p
    PROVE  p \in ParamSets <=> /\ p = [key \in DOMAIN p |-> p[key]]
                               /\ DOMAIN p \subseteq Keys
                               /\ \A key \in DOMAIN p : p[key] \in Length
<1>1. ASSUME p \in ParamSets
      PROVE  /\ p = [key \in DOMAIN p |-> p[key]]
             /\ DOMAIN p \subseteq Keys
             /\ \A key \in DOMAIN p : p[key] \in Length
    <2>1. PICK K \in SUBSET Keys : p \in [K -> Length]
        BY <1>1 DEF ParamSets
    <2> QED
        BY <2>1
<1>2. ASSUME p = [key \in DOMAIN p |-> p[key]], DOMAIN p \subseteq Keys,
             \A key \in DOMAIN p : p[key] \in Length
      PROVE  p \in ParamSets
    <2>1. p \in [DOMAIN p -> Length]
        BY <1>2
    <2> QED
        BY <1>2, <2>1 DEF ParamSets
<1> QED
    BY <1>1, <1>2

\* The initial parameters and the defaults are sets of parameters.
LEMMA ConstantsAre ==
    /\ Initial \in ParamSets /\ Default \in ParamSets
    /\ {BaseHeight, BaseWall, Floor, LidTop, TotalHeight, BossTop} \subseteq DOMAIN Default
<1>1. ASSUME NEW p \in {Initial, Default}
      PROVE  p \in ParamSets
    <2>1. DOMAIN p \subseteq Keys /\ p \in [DOMAIN p -> Nat \ {0}]
        BY HousingAssumption
    <2>2. p = [key \in DOMAIN p |-> p[key]] /\ \A key \in DOMAIN p : p[key] \in Length
        BY <2>1 DEF Length, NoValue
    <2> QED
        BY <2>1, <2>2, ParamsAre
<1>2. {BaseHeight, BaseWall, Floor, LidTop, TotalHeight, BossTop} \subseteq DOMAIN Default
    BY HousingAssumption
<1> QED
    BY <1>1, <1>2

\* A parameter or its default is a length.
LEMMA StoredIs ==
    ASSUME NEW p \in ParamSets,
           NEW key \in {BaseHeight, BaseWall, Floor, LidTop, TotalHeight, BossTop}
    PROVE  Stored(p, key) \in Length
BY ConstantsAre, ParamsAre DEF Stored

\* A design has whole dimensions.
LEMMA DesignIs ==
    ASSUME NEW p \in ParamSets, NEW b \in Designs, NEW o \in Int
    PROVE  LidOf(p, b, o) \in Int /\ Design(p, b, o) \in Designs
<1>1. /\ Stored(p, BaseHeight) \in Int /\ Stored(p, TotalHeight) \in Int /\ Stored(p, BossTop) \in Int
      /\ Stored(p, LidTop) \in Int /\ Stored(p, Floor) \in Int /\ Stored(p, BaseWall) \in Int
    BY StoredIs DEF Length
<1>2. GeneratedLid(b, Stored(p, TotalHeight)) \in Int
    BY <1>1 DEF GeneratedLid, Designs, NoValue
<1>3. LidHeight \in DOMAIN p => p[LidHeight] \in Int
    BY ParamsAre DEF Length
<1>4. LidOf(p, b, o) \in Int
    <2> DEFINE known == IF LidHeight \in DOMAIN p THEN p[LidHeight]
                        ELSE GeneratedLid(b, Stored(p, TotalHeight))
    <2>1. known \in Int
        BY <1>2, <1>3
    <2>2. LidOf(p, b, o) = IF o # NoValue THEN o
                           ELSE IF known # NoValue THEN known
                           ELSE Stored(p, TotalHeight) - Stored(p, BaseHeight)
        BY DEF LidOf
    <2> QED
        BY <1>1, <2>1, <2>2
<1> QED
    BY <1>1, <1>4 DEF Design, Designs

-----------------------------------------------------------------------------
\* The patches of a change are a function from places to patches.
LEMMA PatchesAre ==
    ASSUME NEW f \in PatchSets
    PROVE  /\ \E n \in Nat : DOMAIN f \subseteq 1..n
           /\ DOMAIN f \subseteq Nat
           /\ \A i \in DOMAIN f : f[i] \in PatchRecords
           /\ KeysIn(f) \subseteq Keys
<1>1. PICK I \in Places : f \in [I -> PatchRecords]
    BY DEF PatchSets
<1>2. PICK n \in Nat : I \subseteq 1..n
    BY <1>1 DEF Places
<1>3. \A i \in DOMAIN f : f[i] \in PatchRecords
    BY <1>1
<1>4. KeysIn(f) \subseteq Keys
    BY <1>3 DEF KeysIn, PatchRecords
<1> QED
    BY <1>1, <1>2, <1>3, <1>4

\* A key that is patched has a first and a last patch.
LEMMA FirstAndLast ==
    ASSUME NEW f \in PatchSets, NEW key \in KeysIn(f)
    PROVE  /\ Min(PlacesOf(f, key)) \in PlacesOf(f, key)
           /\ Max(PlacesOf(f, key)) \in PlacesOf(f, key)
           /\ \E i \in PlacesOf(f, key) : LastOf(f, key) = f[i]
           /\ LastOf(f, key) \in PatchRecords
<1>1. PICK n \in Nat : DOMAIN f \subseteq 1..n
    BY PatchesAre
<1>2. PlacesOf(f, key) # {} /\ PlacesOf(f, key) \in SUBSET (1..n) /\ PlacesOf(f, key) \in SUBSET Nat
    BY <1>1 DEF PlacesOf, KeysIn
<1>3. Min(PlacesOf(f, key)) \in PlacesOf(f, key)
    BY <1>2, FirstPlace
<1>4. Max(PlacesOf(f, key)) \in PlacesOf(f, key)
    BY <1>2, LastPosition
<1>5. LastOf(f, key) = f[Max(PlacesOf(f, key))]
    BY DEF LastOf
<1>6. \A i \in PlacesOf(f, key) : f[i] \in PatchRecords
    BY PatchesAre DEF PlacesOf
<1> QED
    BY <1>3, <1>4, <1>5, <1>6

\* Patched parameters: the patched keys have the values of their last patches.
LEMMA PatchedIs ==
    ASSUME NEW p \in ParamSets, NEW f \in PatchSets
    PROVE  /\ Patched(p, f) \in ParamSets
           /\ DOMAIN Patched(p, f) = DOMAIN p \cup KeysIn(f)
           /\ \A key \in KeysIn(f) : \E i \in PlacesOf(f, key) : Patched(p, f)[key] = f[i].value
           /\ \A key \in DOMAIN p \ KeysIn(f) : Patched(p, f)[key] = p[key]
<1> DEFINE r == Patched(p, f)
<1>1. /\ r = [key \in DOMAIN r |-> r[key]]
      /\ DOMAIN r = DOMAIN p \cup KeysIn(f)
      /\ \A key \in KeysIn(f) : r[key] = LastOf(f, key).value
      /\ \A key \in DOMAIN p \ KeysIn(f) : r[key] = p[key]
    BY DEF Patched
<1>2. ASSUME NEW key \in KeysIn(f)
      PROVE  r[key] \in Length /\ \E i \in PlacesOf(f, key) : r[key] = f[i].value
    BY <1>1, FirstAndLast DEF PatchRecords
<1>3. \A key \in DOMAIN r : r[key] \in Length
    BY <1>1, <1>2, ParamsAre
<1>4. DOMAIN r \subseteq Keys
    BY <1>1, PatchesAre, ParamsAre
<1> HIDE DEF r
<1>5. r \in ParamSets
    BY <1>1, <1>3, <1>4, ParamsAre
<1> QED
    BY <1>1, <1>2, <1>5 DEF r

\* Restored parameters: the patched keys have what was before, or are gone.
LEMMA RestoredIs ==
    ASSUME NEW p \in ParamSets, NEW f \in PatchSets
    PROVE  /\ Restored(p, f) \in ParamSets
           /\ \A key \in KeysIn(f) : \E i \in PlacesOf(f, key) :
                 /\ key \in DOMAIN Restored(p, f) <=> f[i].before # NoValue
                 /\ key \in DOMAIN Restored(p, f) => Restored(p, f)[key] = f[i].before
           /\ \A key : key \notin KeysIn(f) =>
                 /\ key \in DOMAIN Restored(p, f) <=> key \in DOMAIN p
                 /\ key \in DOMAIN p => Restored(p, f)[key] = p[key]
<1> DEFINE r == Restored(p, f)
<1>1. /\ r = [key \in DOMAIN r |-> r[key]]
      /\ \A key : key \in DOMAIN r <=> /\ key \in DOMAIN p \cup KeysIn(f)
                                      /\ ~ (key \in KeysIn(f) /\ LastOf(f, key).before = NoValue)
      /\ \A key \in DOMAIN r : r[key] = IF key \in KeysIn(f) THEN LastOf(f, key).before ELSE p[key]
    BY DEF Restored
<1>2. ASSUME NEW key \in KeysIn(f)
      PROVE  /\ \E i \in PlacesOf(f, key) :
                    /\ key \in DOMAIN r <=> f[i].before # NoValue
                    /\ key \in DOMAIN r => r[key] = f[i].before
             /\ key \in DOMAIN r => r[key] \in Length
    BY <1>1, FirstAndLast DEF PatchRecords, Length
<1>3. ASSUME NEW key, key \notin KeysIn(f)
      PROVE  /\ key \in DOMAIN r <=> key \in DOMAIN p
             /\ key \in DOMAIN p => r[key] = p[key] /\ r[key] \in Length
    BY <1>1, <1>3, ParamsAre
<1>4. \A key \in DOMAIN r : r[key] \in Length
    BY <1>2, <1>3
<1>5. DOMAIN r \subseteq Keys
    BY <1>1, PatchesAre, ParamsAre
<1> HIDE DEF r
<1>6. r \in ParamSets
    BY <1>1, <1>4, <1>5, ParamsAre
<1> QED
    BY <1>2, <1>3, <1>6 DEF r

\* The parameters that a generation leaves.
LEMMA WrittenBackIs ==
    ASSUME NEW p \in ParamSets, NEW d \in Designs, d.lid # NoValue, d.boss # NoValue
    PROVE  /\ WrittenBack(p, d) \in ParamSets
           /\ LidHeight \in DOMAIN WrittenBack(p, d) /\ WrittenBack(p, d)[LidHeight] = d.lid
           /\ BossTop \in DOMAIN WrittenBack(p, d) /\ WrittenBack(p, d)[BossTop] = d.boss
           /\ \A key : key \notin {LidHeight, BossTop} =>
                 /\ key \in DOMAIN WrittenBack(p, d) <=> key \in DOMAIN p
                 /\ key \in DOMAIN p => WrittenBack(p, d)[key] = p[key]
<1> DEFINE r == WrittenBack(p, d)
<1>1. /\ r = [key \in DOMAIN r |-> r[key]]
      /\ DOMAIN r = {LidHeight, BossTop} \cup DOMAIN p
      /\ \A key \in DOMAIN r : r[key] = IF key = LidHeight THEN d.lid
                                       ELSE IF key = BossTop THEN d.boss ELSE p[key]
    BY DEF WrittenBack
<1>2. d.lid \in Length /\ d.boss \in Length
    BY DEF Designs, Length
<1>3. \A key \in DOMAIN r : r[key] \in Length
    BY <1>1, <1>2, ParamsAre
<1>4. DOMAIN r \subseteq Keys
    BY <1>1, KeysDiffer, ParamsAre
<1> HIDE DEF r
<1>5. r \in ParamSets
    BY <1>1, <1>3, <1>4, ParamsAre
<1> QED
    BY <1>1, <1>5, KeysDiffer DEF r

-----------------------------------------------------------------------------
\* What the derived values are, and when.
LEMMA DependencyIs ==
    ASSUME NEW p \in ParamSets, NEW b \in Designs, NEW object, NEW height \in Int
    PROVE  /\ Dependency(p, b, object, height) \in Int
           /\ Dependency(p, b, object, height) # NoValue =>
                 object = "lid" /\ Consistent(Design(p, b, NoValue))
<1> DEFINE d == Design(p, b, NoValue)
           deep == d.boss - (d.lid - d.top)
           usual == Default[BossTop] - (Default[TotalHeight] - Default[BaseHeight] - Default[LidTop])
           moves == object = "lid" /\ Consistent(d) /\ d.boss > height
<1>1. d \in Designs
    BY DesignIs DEF NoValue
<1>2. Default[BossTop] \in Int /\ Default[TotalHeight] \in Int /\ Default[BaseHeight] \in Int
      /\ Default[LidTop] \in Int
    BY ConstantsAre, ParamsAre DEF Length
<1>3. Dependency(p, b, object, height) =
         IF moves THEN height - d.top + (IF deep \in 1..5 THEN deep ELSE usual) ELSE NoValue
    BY DEF Dependency
<1>4. d.boss \in Int /\ d.lid \in Int /\ d.top \in Int
    BY <1>1 DEF Designs
<1> HIDE DEF d
<1>5. deep \in Int /\ usual \in Int
    BY <1>2, <1>4
<1> HIDE DEF deep, usual
<1>6. height - d.top + (IF deep \in 1..5 THEN deep ELSE usual) \in Int
    BY <1>4, <1>5
<1>7. Dependency(p, b, object, height) \in Int
    BY <1>3, <1>6 DEF NoValue
<1>8. Dependency(p, b, object, height) # NoValue => moves
    BY <1>3
<1> QED
    BY <1>7, <1>8 DEF d

LEMMA HeightIs ==
    ASSUME NEW p \in ParamSets, NEW b \in Designs, NEW object
    PROVE  /\ PhysicalHeight(p, b, object) \in Int
           /\ <<object, "height">> \in DOMAIN p => PhysicalHeight(p, b, object) = p[<<object, "height">>]
           /\ LidHeight \notin DOMAIN p => PhysicalHeight(p, b, "lid") =
                 IF TotalHeight \in DOMAIN p /\ LidOf(p, b, NoValue) > 0
                 THEN LidOf(p, b, NoValue) ELSE NoValue
           /\ object # "lid" /\ <<object, "height">> \notin DOMAIN p =>
                 PhysicalHeight(p, b, object) = NoValue
<1> DEFINE direct == <<object, "height">>
           lid == LidOf(p, b, NoValue)
<1>1. PhysicalHeight(p, b, object) =
         IF direct \in DOMAIN p THEN p[direct]
         ELSE IF direct = LidHeight /\ TotalHeight \in DOMAIN p /\ lid > 0 THEN lid ELSE NoValue
    BY DEF PhysicalHeight
<1>2. lid \in Int /\ (direct \in DOMAIN p => p[direct] \in Int)
    BY DesignIs, ParamsAre DEF NoValue, Length
<1>3. direct = LidHeight => object = "lid"
    BY DEF LidHeight
<1>4. object = "lid" => direct = LidHeight
    BY DEF LidHeight
<1>5. PhysicalHeight(p, b, "lid") =
         IF LidHeight \in DOMAIN p THEN p[LidHeight]
         ELSE IF TotalHeight \in DOMAIN p /\ lid > 0 THEN lid ELSE NoValue
    BY DEF PhysicalHeight, LidHeight
<1> QED
    BY <1>1, <1>2, <1>3, <1>4, <1>5 DEF NoValue

LEMMA BeforeIs ==
    ASSUME NEW p \in ParamSets, NEW b \in Designs, NEW key \in Keys
    PROVE  /\ Before(p, b, key) \in Int
           /\ key \in DOMAIN p => Before(p, b, key) = p[key]
           /\ key \notin DOMAIN p /\ key # BossTop /\ key # LidHeight => Before(p, b, key) = NoValue
           /\ LidHeight \notin DOMAIN p => Before(p, b, LidHeight) =
                 IF TotalHeight \in DOMAIN p /\ LidOf(p, b, NoValue) > 0
                 THEN LidOf(p, b, NoValue) ELSE NoValue
           /\ BossTop \notin DOMAIN p => Before(p, b, BossTop) =
                 IF Consistent(Design(p, b, NoValue)) THEN Default[BossTop] ELSE NoValue
<1>1. key \in DOMAIN p => p[key] \in Int
    BY ParamsAre DEF Length
<1>2. BossTop[2] # "height" /\ LidHeight[2] = "height" /\ LidHeight[1] = "lid" /\ LidHeight # BossTop
    BY DEF BossTop, LidHeight
<1>3. PICK object \in {"base", "lid"}, name \in Parameters : key = <<object, name>>
    BY DEF Keys
<1>4. key[2] = "height" => key = <<key[1], "height">>
    BY <1>3
<1>5. key[2] = "height" /\ key[1] = "lid" => key = LidHeight
    BY <1>4 DEF LidHeight
<1>6. Default[BossTop] \in Int
    BY ConstantsAre, ParamsAre DEF Length
<1>7. Before(p, b, key) = IF key \in DOMAIN p THEN p[key]
                          ELSE IF key = BossTop /\ Consistent(Design(p, b, NoValue)) THEN Default[BossTop]
                          ELSE IF key[2] = "height" THEN PhysicalHeight(p, b, key[1])
                          ELSE NoValue
    BY <1>2 DEF Before, Physical
<1>8. Before(p, b, key) \in Int
    <2>1. PhysicalHeight(p, b, key[1]) \in Int
        BY HeightIs
    <2>2. NoValue \in Int
        BY DEF NoValue
    <2> QED
        BY <1>1, <1>6, <1>7, <2>1, <2>2
<1>9. key \notin DOMAIN p /\ key # BossTop /\ key # LidHeight => Before(p, b, key) = NoValue
    BY <1>4, <1>5, <1>7, HeightIs
<1>10. LidHeight \notin DOMAIN p => Before(p, b, LidHeight) = PhysicalHeight(p, b, "lid")
    BY <1>2 DEF Before, Physical
<1>11. BossTop \notin DOMAIN p => Before(p, b, BossTop) =
                 IF Consistent(Design(p, b, NoValue)) THEN Default[BossTop] ELSE NoValue
    BY <1>2 DEF Before, Physical
<1> QED
    BY <1>7, <1>8, <1>9, <1>10, <1>11, HeightIs

-----------------------------------------------------------------------------
\* The patches of a plan: one for each operation that sets a parameter, and
\* one for the boss perhaps; each knows what was before.
LEMMA CompiledIs ==
    ASSUME NEW p \in ParamSets, NEW b \in Designs, NEW ops \in OpSeqs
    PROVE  LET f == Compiled(p, b, ops)
           IN  /\ f \in PatchSets
               /\ \A i \in DOMAIN f : f[i].before = Before(p, b, f[i].key)
               /\ \A i \in DOMAIN ops : ops[i].kind = "set_parameter" =>
                     /\ i \in DOMAIN f /\ f[i].value = ops[i].value
                     /\ f[i].key = <<Owner[ops[i].target], ops[i].parameter>>
               /\ \A i \in DOMAIN f : \/ i \in DOMAIN ops /\ ops[i].kind = "set_parameter"
                                      \/ /\ f[i].key = BossTop
                                         /\ \E j \in DOMAIN ops : ops[j].kind = "set_parameter"
<1> DEFINE setting == {i \in DOMAIN ops : ops[i].kind = "set_parameter"}
           direct  == [i \in setting |-> PatchOf(p, b, ops[i])]
           Top(i)  == Dependency(p, b, direct[i].key[1], direct[i].value)
           moving  == {i \in setting : direct[i].key[2] = "height" /\ Top(i) # NoValue}
           n       == Len(ops) + 1
           boss    == Patch(BossTop, Top(Min(moving)), Stored(p, BossTop))
           both    == [i \in setting \cup {n} |-> IF i \in setting THEN direct[i] ELSE boss]
<1>1. Compiled(p, b, ops) = IF moving = {} \/ BossTop \in KeysIn(direct) THEN direct ELSE both
    BY DEF Compiled
<1>2. /\ ops \in Seq(Operations) /\ Len(ops) \in Nat /\ DOMAIN ops = 1..Len(ops)
      /\ \A i \in setting : ops[i] \in Operations /\ ops[i].value # NoValue /\ ops[i].parameter \in Parameters
    BY DEF OpSeqs
<1>3. ASSUME NEW i \in setting
      PROVE  /\ direct[i] \in PatchRecords
             /\ direct[i].key = <<Owner[ops[i].target], ops[i].parameter>>
             /\ direct[i].value = ops[i].value
             /\ direct[i].before = Before(p, b, direct[i].key)
    <2> DEFINE key == <<Owner[ops[i].target], ops[i].parameter>>
    <2>1. ops[i].target \in DOMAIN Owner /\ ops[i].value \in Length /\ ops[i].parameter \in Parameters
        BY <1>2 DEF Operations, Length
    <2>2. key \in Keys
        BY <2>1, HousingAssumption DEF Keys
    <2>3. Before(p, b, key) \in Int
        BY <2>2, BeforeIs
    <2>4. direct[i] = [key |-> key, value |-> ops[i].value, before |-> Before(p, b, key)]
        BY DEF PatchOf, Patch
    <2> QED
        BY <2>1, <2>2, <2>3, <2>4 DEF PatchRecords
<1>4. setting \in Places /\ setting \cup {n} \in Places /\ setting \subseteq Nat /\ n \notin setting
    <2>1. setting \subseteq 1..Len(ops) /\ setting \cup {n} \subseteq 1..n /\ n \in Nat /\ n \notin setting
        BY <1>2
    <2> QED
        BY <1>2, <2>1 DEF Places
<1>5. direct \in PatchSets
    <2>1. direct \in [setting -> PatchRecords]
        BY <1>3
    <2> QED
        BY <1>4, <2>1 DEF PatchSets
<1>6. CASE moving = {} \/ BossTop \in KeysIn(direct)
    BY <1>1, <1>3, <1>5, <1>6
<1>7. CASE ~ (moving = {} \/ BossTop \in KeysIn(direct))
    <2> DEFINE m == Min(moving)
    <2>1. m \in moving
        BY <1>4, <1>7, FirstPlace
    <2>2. direct[m].value \in Int /\ Top(m) # NoValue
        BY <1>3, <2>1 DEF PatchRecords, Length
    <2> HIDE DEF m
    <2>3. Top(m) \in Length /\ Consistent(Design(p, b, NoValue))
        BY <2>2, DependencyIs DEF Length
    <2>4. Stored(p, BossTop) = Before(p, b, BossTop) /\ Before(p, b, BossTop) \in Int /\ BossTop \in Keys
        BY <2>3, BeforeIs, KeysDiffer DEF Stored
    <2>5. boss = [key |-> BossTop, value |-> Top(m), before |-> Before(p, b, BossTop)]
        BY <2>4 DEF Patch, m
    <2> HIDE DEF boss
    <2>6. boss \in PatchRecords /\ boss.key = BossTop /\ boss.before = Before(p, b, BossTop)
        BY <2>3, <2>4, <2>5 DEF PatchRecords
    <2>7. both \in [setting \cup {n} -> PatchRecords]
        BY <1>3, <2>6
    <2>8. both \in PatchSets
        BY <1>4, <2>7 DEF PatchSets
    <2>9. \A i \in setting : both[i] = direct[i]
        OBVIOUS
    <2>10. both[n] = boss
        BY <1>4
    <2>11. DOMAIN both = setting \cup {n}
        OBVIOUS
    <2>12. m \in DOMAIN ops /\ ops[m].kind = "set_parameter"
        BY <2>1
    <2> HIDE DEF both, direct
    <2> QED
        BY <1>1, <1>3, <1>7, <2>6, <2>8, <2>9, <2>10, <2>11, <2>12
<1> QED
    BY <1>6, <1>7

-----------------------------------------------------------------------------
\* The requests of the clients.
LEMMA AsksAre ==
    ASSUME NEW ask \in Asks
    PROVE  /\ ask.request.scope \in Seq(DOMAIN Owner) /\ ask.request.scope[1] \in DOMAIN Owner
           /\ ask.request.by \in Nat /\ ask.request.to \in Nat /\ ask.request.thickness \in Nat
           /\ ask.request.sense \in {-1, 0, 1} /\ (ask.request.implied => ask.request.sense # 0)
           /\ ask.request.names \subseteq Parameters
           /\ ask.request.geometry \in Seq(Kinds \ {"set_parameter"})
           /\ ask.proposal \in OpSeqs
<1>1. LET r == ask.request
      IN  /\ r.scope \in Seq(DOMAIN Owner) /\ r.scope # <<>>
          /\ {r.by, r.to, r.thickness} \subseteq Nat /\ r.sense \in {-1, 0, 1}
          /\ r.names \subseteq Parameters /\ r.geometry \in Seq(Kinds \ {"set_parameter"})
          /\ {r.implied, r.faces} \subseteq BOOLEAN /\ (r.implied => r.sense # 0)
          /\ ask.proposal \in Seq([kind : Kinds, target : DOMAIN Owner,
                                   parameter : Parameters \cup {"none"}, value : Int])
          /\ \A i \in DOMAIN ask.proposal : ask.proposal[i].kind = "set_parameter" =>
                ask.proposal[i].value # 0 /\ ask.proposal[i].parameter \in Parameters
    BY HousingAssumption
<1>2. ask.request.scope[1] \in DOMAIN Owner
    BY <1>1
<1>3. ask.proposal \in OpSeqs
    BY <1>1 DEF OpSeqs, Operations, NoValue
<1> QED
    BY <1>1, <1>2, <1>3

LEMMA NamedIs ==
    ASSUME NEW p, NEW r, NEW object, NEW aliases \in Seq(Parameters)
    PROVE  /\ Named(p, r, object, aliases) \in Parameters \cup {"none"}
           /\ r.names = {} /\ r.implied => Named(p, r, object, aliases) = "height"
<1> DEFINE hits == {i \in DOMAIN aliases : aliases[i] \in r.names /\ <<object, aliases[i]>> \in DOMAIN p}
<1>1. Named(p, r, object, aliases) = IF hits # {} THEN aliases[Min(hits)]
                                     ELSE IF r.implied THEN "height" ELSE "none"
    BY DEF Named
<1>2. hits \subseteq Nat
    OBVIOUS
<1>3. hits # {} => aliases[Min(hits)] \in Parameters
    <2>1. hits # {} => Min(hits) \in hits
        BY <1>2, FirstPlace
    <2> QED
        BY <2>1
<1>4. r.names = {} => hits = {}
    OBVIOUS
<1>5. "height" \in Parameters
    BY DEF Parameters
<1> QED
    BY <1>1, <1>3, <1>4, <1>5

LEMMA AliasesAre == Aliased \in Seq(Parameters) /\ Tail(Aliased) \in Seq(Parameters)
<1>1. {"wall_thickness", "floor_thickness", "height", "width", "depth"} \subseteq Parameters
    BY DEF Parameters
<1>2. Aliased \in Seq(Parameters) /\ Aliased # <<>>
    BY <1>1 DEF Aliased
<1> QED
    BY <1>2

LEMMA MeasuredIs ==
    ASSUME NEW p \in ParamSets, NEW b \in Designs, NEW object, NEW name
    PROVE  /\ Measured(p, b, <<object, name>>) \in Int
           /\ name = "none" => Measured(p, b, <<object, name>>) = NoValue
           /\ name = "height" => Measured(p, b, <<object, name>>) = PhysicalHeight(p, b, object)
<1> DEFINE key == <<object, name>>
<1>1. key[1] = object /\ key[2] = name
    OBVIOUS
<1>2. Measured(p, b, key) = IF key \in DOMAIN p THEN p[key]
                            ELSE IF name = "height" THEN PhysicalHeight(p, b, object) ELSE NoValue
    BY <1>1 DEF Measured
<1>3. key \in DOMAIN p => p[key] \in Int /\ name \in Parameters
    BY ParamsAre DEF Keys, Length
<1>4. "none" \notin Parameters /\ "none" # "height"
    BY DEF Parameters
<1>5. PhysicalHeight(p, b, object) \in Int
    BY HeightIs
<1>6. NoValue \in Int
    BY DEF NoValue
<1>7. name = "height" /\ key \in DOMAIN p => PhysicalHeight(p, b, object) = p[key]
    BY HeightIs
<1> QED
    BY <1>2, <1>3, <1>4, <1>5, <1>6, <1>7

\* Steps and whole lists of operations are operations.
LEMMA OneOperation ==
    ASSUME NEW target \in DOMAIN Owner
    PROVE  /\ <<>> \in OpSeqs
           /\ \A parameter \in Parameters, value \in Length : <<SetOp(target, parameter, value)>> \in OpSeqs
           /\ \A kind \in Kinds \ {"set_parameter"} : <<Deferred(target, kind)>> \in OpSeqs
<1>1. <<>> \in OpSeqs
    BY DEF OpSeqs
<1>2. ASSUME NEW parameter \in Parameters, NEW value \in Length
      PROVE  <<SetOp(target, parameter, value)>> \in OpSeqs
    <2>1. SetOp(target, parameter, value) \in Operations
        BY DEF SetOp, Operations, Kinds, Length
    <2>2. SetOp(target, parameter, value).value # NoValue /\ SetOp(target, parameter, value).parameter \in Parameters
        BY DEF SetOp, Length
    <2> QED
        BY <2>1, <2>2 DEF OpSeqs
<1>3. ASSUME NEW kind \in Kinds \ {"set_parameter"}
      PROVE  <<Deferred(target, kind)>> \in OpSeqs
    <2>1. Deferred(target, kind) \in Operations /\ Deferred(target, kind).kind # "set_parameter"
        BY DEF Deferred, Operations, NoValue
    <2> QED
        BY <2>1 DEF OpSeqs
<1> QED
    BY <1>1, <1>2, <1>3

LEMMA JoinedOperations ==
    ASSUME NEW s \in OpSeqs, NEW t \in OpSeqs
    PROVE  s \o t \in OpSeqs
<1>1. s \in Seq(Operations) /\ t \in Seq(Operations) /\ s \o t \in Seq(Operations)
    BY DEF OpSeqs
<1>2. ASSUME NEW i \in DOMAIN (s \o t)
      PROVE  \/ i \in DOMAIN s /\ (s \o t)[i] = s[i]
             \/ \E j \in DOMAIN t : (s \o t)[i] = t[j]
    <2>1. i \in 1..(Len(s) + Len(t)) /\ Len(s) \in Nat /\ Len(t) \in Nat
        BY <1>1
    <2>2. CASE i <= Len(s)
        BY <1>1, <2>1, <2>2
    <2>3. CASE i > Len(s)
        <3>1. i - Len(s) \in DOMAIN t /\ (s \o t)[i] = t[i - Len(s)]
            BY <1>1, <2>1, <2>3
        <3> QED
            BY <3>1
    <2> QED
        BY <2>1, <2>2, <2>3
<1> QED
    BY <1>1, <1>2 DEF OpSeqs

\* What the prompt's rules give are operations.
LEMMA StepsAre ==
    ASSUME NEW p \in ParamSets, NEW b \in Designs, NEW ask \in Asks
    PROVE  LET r == ask.request
               object == r.scope[1]
           IN  /\ RelativeStep(p, b, r, object) \in OpSeqs /\ AbsoluteStep(p, b, r, object) \in OpSeqs
               /\ ThicknessStep(r, object) \in OpSeqs /\ GeometrySteps(r, object) \in OpSeqs
               /\ LocalOps(p, b, r) \in OpSeqs
<1> DEFINE r == ask.request
           object == r.scope[1]
<1>1. /\ object \in DOMAIN Owner /\ r.by \in Nat /\ r.to \in Nat /\ r.thickness \in Nat
      /\ r.sense \in {-1, 0, 1} /\ r.geometry \in Seq(Kinds \ {"set_parameter"})
    BY AsksAre
<1> HIDE DEF r, object
<1>2. RelativeStep(p, b, r, object) \in OpSeqs
    <2> DEFINE name   == Named(p, r, object, Aliased)
               before == Measured(p, b, <<object, name>>)
               after  == before + r.sense * r.by
    <2>1. name \in Parameters \cup {"none"}
        BY NamedIs, AliasesAre
    <2> HIDE DEF name
    <2>2. before \in Int /\ (name = "none" => before = NoValue)
        BY MeasuredIs
    <2>3. RelativeStep(p, b, r, object) =
             IF r.sense # 0 /\ r.by > 0 /\ before # NoValue /\ after > 0
             THEN <<SetOp(object, name, after)>> ELSE <<>>
        BY DEF RelativeStep, name
    <2> HIDE DEF before
    <2>4. after \in Int
        BY <1>1, <2>2
    <2>5. after > 0 => after \in Length
        BY <2>4 DEF Length, NoValue
    <2> HIDE DEF after
    <2> QED
        BY <1>1, <2>1, <2>2, <2>3, <2>5, OneOperation
<1>3. AbsoluteStep(p, b, r, object) \in OpSeqs
    <2> DEFINE name == Named(p, r, object, Tail(Aliased))
    <2>1. name \in Parameters \cup {"none"}
        BY NamedIs, AliasesAre
    <2> HIDE DEF name
    <2>2. name = "none" => Measured(p, b, <<object, name>>) = NoValue
        BY MeasuredIs
    <2>3. AbsoluteStep(p, b, r, object) =
             IF r.to > 0 /\ Measured(p, b, <<object, name>>) # NoValue
             THEN <<SetOp(object, name, r.to)>> ELSE <<>>
        BY DEF AbsoluteStep, name
    <2>4. r.to > 0 => r.to \in Length
        BY <1>1 DEF Length, NoValue
    <2> QED
        BY <1>1, <2>1, <2>2, <2>3, <2>4, OneOperation
<1>4. ThicknessStep(r, object) \in OpSeqs
    <2>1. r.thickness # NoValue => r.thickness \in Length
        BY <1>1 DEF Length
    <2>2. "wall_thickness" \in Parameters /\ "add_feature" \in Kinds \ {"set_parameter"}
        BY DEF Parameters, Kinds
    <2> QED
        BY <1>1, <2>1, <2>2, OneOperation DEF ThicknessStep
<1>5. GeometrySteps(r, object) \in OpSeqs
    <2> DEFINE g == GeometrySteps(r, object)
    <2>1. g = [i \in 1..Len(r.geometry) |-> Deferred(object, r.geometry[i])] /\ Len(r.geometry) \in Nat
        BY <1>1 DEF GeometrySteps
    <2>2. \A i \in 1..Len(r.geometry) : /\ Deferred(object, r.geometry[i]) \in Operations
                                        /\ Deferred(object, r.geometry[i]).kind # "set_parameter"
        BY <1>1 DEF Deferred, Operations, NoValue
    <2>3. g \in Seq(Operations) /\ \A i \in DOMAIN g : g[i].kind # "set_parameter"
        BY <2>1, <2>2
    <2> QED
        BY <2>3 DEF OpSeqs
<1>6. LocalOps(p, b, r) \in OpSeqs
    <2> DEFINE relative == RelativeStep(p, b, r, object)
               step == IF relative # <<>> THEN relative ELSE AbsoluteStep(p, b, r, object)
               both == step \o ThicknessStep(r, object)
               ops == both \o GeometrySteps(r, object)
    <2>1. step \in OpSeqs
        BY <1>2, <1>3
    <2> HIDE DEF step
    <2>2. both \in OpSeqs
        BY <1>4, <2>1, JoinedOperations
    <2> HIDE DEF both
    <2>3. ops \in OpSeqs
        BY <1>5, <2>2, JoinedOperations
    <2>4. <<Deferred(object, "add_annotation")>> \in OpSeqs
        <3>1. "add_annotation" \in Kinds \ {"set_parameter"}
            BY DEF Kinds
        <3> QED
            BY <1>1, <3>1, OneOperation
    <2>5. LocalOps(p, b, r) = IF ops = <<>> THEN <<Deferred(object, "add_annotation")>> ELSE ops
        BY DEF LocalOps, step, both, object
    <2> QED
        BY <2>3, <2>4, <2>5
<1> QED
    BY <1>2, <1>3, <1>4, <1>5, <1>6 DEF r, object

\* A dependent height of the boss is appended, if any.
LEMMA WithDependenciesAre ==
    ASSUME NEW p \in ParamSets, NEW b \in Designs, NEW ops \in OpSeqs
    PROVE  LET w == WithDependencies(p, b, ops)
           IN  /\ w \in OpSeqs
               /\ \A i \in DOMAIN ops : i \in DOMAIN w /\ w[i] = ops[i]
               /\ \A i \in DOMAIN w : \/ i \in DOMAIN ops
                                      \/ /\ w[i].parameter = BossTop[2]
                                         /\ \E j \in DOMAIN ops : ops[j].kind = "set_parameter"
<1> DEFINE moving == {i \in DOMAIN ops : /\ ops[i].kind = "set_parameter" /\ ops[i].parameter = "height"
                                         /\ Dependency(p, b, ops[i].target, ops[i].value) # NoValue}
           m  == Min(moving)
           op == ops[m]
           top == Dependency(p, b, op.target, op.value)
           w == WithDependencies(p, b, ops)
<1>1. w = IF moving = {} \/ Sets(ops, op.target, BossTop[2]) THEN ops
          ELSE Append(ops, SetOp(op.target, BossTop[2], top))
    BY DEF WithDependencies
<1>2. ops \in Seq(Operations) /\ moving \subseteq Nat
    BY DEF OpSeqs
<1>3. CASE moving = {} \/ Sets(ops, op.target, BossTop[2])
    <2>1. w = ops
        BY <1>1, <1>3
    <2> QED
        BY <2>1
<1>4. CASE ~ (moving = {} \/ Sets(ops, op.target, BossTop[2]))
    <2>1. m \in moving
        BY <1>2, <1>4, FirstPlace
    <2> DEFINE new == SetOp(op.target, BossTop[2], top)
    <2>2. w = Append(ops, new)
        BY <1>1, <1>4
    <2> HIDE DEF m, w
    <2>3. m \in DOMAIN ops /\ ops[m].kind = "set_parameter" /\ op \in Operations /\ top # NoValue
        BY <1>2, <2>1
    <2>4. op.target \in DOMAIN Owner /\ op.value \in Int
        BY <2>3 DEF Operations
    <2>5. top \in Length
        BY <2>3, <2>4, DependencyIs DEF Length
    <2>6. BossTop[2] \in Parameters
        BY DEF BossTop, Parameters
    <2> HIDE DEF op, top
    <2>7. new.parameter = BossTop[2] /\ new.kind = "set_parameter" /\ new.value = top
        BY DEF SetOp
    <2>8. new \in Operations
        BY <2>4, <2>5, <2>6 DEF SetOp, Operations, Kinds, Length
    <2> HIDE DEF new
    <2>9. /\ w \in Seq(Operations) /\ DOMAIN w = DOMAIN ops \cup {Len(ops) + 1}
          /\ w[Len(ops) + 1] = new /\ \A i \in DOMAIN ops : w[i] = ops[i]
        BY <1>2, <2>2, <2>8, AppendKeeps
    <2>10. w \in OpSeqs
        BY <2>5, <2>6, <2>7, <2>9 DEF OpSeqs, Length
    <2> QED
        BY <2>3, <2>7, <2>9, <2>10 DEF w
<1> QED
    BY <1>3, <1>4
-----------------------------------------------------------------------------
\* The inductive invariant: types, how the events refer to one another, what
\* the plans and the jobs hold, and what the next undo will find.

\* The change that a job answers, and the design it will generate.
Target(job) == log[job.id].change
JobDesign(job) == Design(job.params, job.built, job.override)

Chained ==
    /\ \A i \in DOMAIN log :
          /\ log[i].kind = "applied" => log[i].plan \in DOMAIN planned
          /\ log[i].kind = "requested" =>
                log[i].change \in 1..(i - 1) /\ log[log[i].change].kind \in {"applied", "reverted"}
          /\ log[i].kind = "reverted" =>
                log[i].change \in 1..(i - 1) /\ log[log[i].change].kind = "applied"
          /\ log[i].kind = "completed" =>
                log[i].request \in 1..(i - 1) /\ log[log[i].request].kind = "requested"
    /\ \A job \in jobs : job.id \in Of("requested")

\* A plan that a prompt asks for by an amount sets one height by that amount,
\* and the boss perhaps.
SetsByAmount(plan) ==
    (plan.from # NotBuilt /\ ByAmount(plan.ask)) =>
        LET object == plan.ask.request.scope[1]
        IN  \A j \in DOMAIN plan.ops : plan.ops[j].kind = "set_parameter" =>
                /\ object \in {"base", "lid"}
                /\ Sets(plan.ops, object, "height")
                /\ plan.ops[j].parameter # BossTop[2] =>
                      /\ plan.ops[j].parameter = "height"
                      /\ plan.ops[j].value = plan.from[object] + Amount(plan.ask)

PlansByAmount == \A i \in DOMAIN planned : SetsByAmount(planned[i])

\* The design is what the change asks for; of an undo, what was before.
Answering(i, design) ==
    /\ Planned(i) => Exact(i, design)
    /\ NewHousing /\ UndoesLatest(i) => design = log[log[i].change].from

JobsAnswer == \A job \in jobs : Answering(Target(job), JobDesign(job))
CompletedAnswer == \A i \in Of("completed") : Answering(Answered(i), log[i].design)

\* No change of the total height, nor its undo, leaves the housing without
\* one; what was built has a lid; before the first change nothing is built.
Grounded == NewHousing =>
    /\ TotalHeight \in DOMAIN params
    /\ \A job \in jobs : TotalHeight \in DOMAIN job.params
    /\ \A i \in Of("applied") : \A j \in DOMAIN log[i].patches :
          log[i].patches[j].key = TotalHeight => log[i].patches[j].before # NoValue
    /\ built = NotBuilt \/ built.lid > 0
    /\ Changes = {} => params = Initial /\ built = NotBuilt /\ jobs = {}

\* The change whose undo UndoReturnsToBuilt is about, if it comes next.
Undoable(c) ==
    /\ log[c].kind = "applied" /\ log[c].from # NotBuilt
    /\ \A k \in Changes : k <= c
    /\ TotalHeight \in KeysOf(c) => log[c].own

\* Its undo returns to the design before it, now and after each job.
LatestReturns ==
    NewHousing => \A c \in DOMAIN log : Undoable(c) =>
        /\ Design(Restored(params, log[c].patches), built, NoValue) = log[c].from
        /\ \A job \in jobs : Buildable(JobDesign(job)) =>
              LET d == JobDesign(job)
              IN  Design(Restored(WrittenBack(job.params, d), log[c].patches), d, NoValue) = log[c].from

Plans == [base : Nat, ops : OpSeqs, ask : Asks, from : Designs]

Applied   == [kind : {"applied"}, plan : Nat, patches : PatchSets, via : {"rest", "mcp"},
              from : Designs, own : BOOLEAN]
Requested == [kind : {"requested"}, change : Nat]
Reverted  == [kind : {"reverted"}, change : Nat]
Completed == [kind : {"completed"}, request : Nat, design : Designs]
Events    == Applied \cup Requested \cup Reverted \cup Completed

HousingTypes ==
    /\ params \in ParamSets /\ built \in Designs
    /\ planned \in Seq(Plans) /\ log \in Seq(Events)
    /\ jobs \subseteq [id : Nat, params : ParamSets, built : Designs, override : Int]

HousingInv ==
    /\ HousingTypes /\ Chained /\ PlansByAmount /\ Grounded
    /\ JobsAnswer /\ LatestReturns /\ CompletedAnswer /\ BuiltDesignStands

-----------------------------------------------------------------------------
\* Plans.
LEMMA OpsForAre ==
    ASSUME NEW p \in ParamSets, NEW b \in Designs, NEW ask \in Asks
    PROVE  /\ OpsFor(p, b, ask) \in OpSeqs
           /\ ask.proposal = <<>> => OpsFor(p, b, ask) = WithDependencies(p, b, LocalOps(p, b, ask.request))
<1>1. WithDependencies(p, b, ask.proposal) \in OpSeqs
    BY AsksAre, WithDependenciesAre
<1>2. WithDependencies(p, b, LocalOps(p, b, ask.request)) \in OpSeqs
    BY StepsAre, WithDependenciesAre
<1> QED
    BY <1>1, <1>2 DEF OpsFor

\* Asked for an amount, the local rules set the height by that amount.
LEMMA LocalByAmount ==
    ASSUME NEW p \in ParamSets, NEW b \in Designs, NEW ask \in Asks, ByAmount(ask)
    PROVE  LET object == ask.request.scope[1]
               ops == LocalOps(p, b, ask.request)
           IN  \A i \in DOMAIN ops : ops[i].kind = "set_parameter" =>
                 /\ ops[i].target = object /\ ops[i].parameter = "height"
                 /\ PhysicalHeight(p, b, object) # NoValue
                 /\ ops[i].value = PhysicalHeight(p, b, object) + Amount(ask)
<1> DEFINE r == ask.request
           object == r.scope[1]
           ops == LocalOps(p, b, r)
           before == PhysicalHeight(p, b, object)
           relative == RelativeStep(p, b, r, object)
           g == GeometrySteps(r, object)
<1>1. /\ r.names = {} /\ r.implied /\ r.by > 0 /\ r.to = 0 /\ r.sense # 0 /\ r.by \in Nat
      /\ r.geometry \in Seq(Kinds \ {"set_parameter"}) /\ object \in DOMAIN Owner
    BY AsksAre DEF ByAmount
<1>2. Named(p, r, object, Aliased) = "height"
    BY <1>1, NamedIs, AliasesAre
<1>3. Measured(p, b, <<object, "height">>) = before
    BY MeasuredIs
<1>4. relative = IF before # NoValue /\ before + Amount(ask) > 0
                 THEN <<SetOp(object, "height", before + Amount(ask))>> ELSE <<>>
    BY <1>1, <1>2, <1>3 DEF RelativeStep, Amount
<1>5. AbsoluteStep(p, b, r, object) = <<>>
    BY <1>1 DEF AbsoluteStep
<1>6. ThicknessStep(r, object) = <<>>
    BY <1>1 DEF ThicknessStep
<1>7. g \in OpSeqs /\ relative \in OpSeqs
    BY StepsAre
<1>8. \A i \in DOMAIN g : g[i].kind # "set_parameter"
    BY <1>1 DEF GeometrySteps, Deferred
<1>9. LocalOps(p, b, r) = IF relative \o <<>> \o g = <<>> THEN <<Deferred(object, "add_annotation")>>
                          ELSE relative \o <<>> \o g
    BY <1>5, <1>6 DEF LocalOps
<1> HIDE DEF g
<1>10. relative \o <<>> \o g = relative \o g
    BY <1>7 DEF OpSeqs
<1> HIDE DEF relative
<1>11. ASSUME NEW i \in DOMAIN (relative \o g), (relative \o g)[i].kind = "set_parameter"
       PROVE  i \in DOMAIN relative /\ (relative \o g)[i] = relative[i]
    <2>1. relative \in Seq(Operations) /\ g \in Seq(Operations)
        BY <1>7 DEF OpSeqs
    <2>2. i \in 1..(Len(relative) + Len(g)) /\ Len(relative) \in Nat /\ Len(g) \in Nat
        BY <2>1
    <2>3. CASE i > Len(relative)
        <3>1. i - Len(relative) \in DOMAIN g /\ (relative \o g)[i] = g[i - Len(relative)]
            BY <2>1, <2>2, <2>3
        <3> QED
            BY <1>8, <1>11, <3>1
    <2> QED
        BY <2>1, <2>2, <2>3
<1>12. \A i \in DOMAIN <<Deferred(object, "add_annotation")>> :
          <<Deferred(object, "add_annotation")>>[i].kind # "set_parameter"
    BY DEF Deferred
<1>13. \A i \in DOMAIN relative : /\ relative[i] = SetOp(object, "height", before + Amount(ask))
                                  /\ before # NoValue
    BY <1>4
<1>14. ASSUME NEW i \in DOMAIN ops, ops[i].kind = "set_parameter"
       PROVE  i \in DOMAIN relative /\ ops[i] = relative[i]
    BY <1>9, <1>10, <1>11, <1>12, <1>14
<1> QED
    BY <1>13, <1>14 DEF SetOp

\* Where an object has a height, it is the height of its part of the design.
LEMMA HeightOfDesign ==
    ASSUME NEW p \in ParamSets, NEW b \in Designs, NEW object, PhysicalHeight(p, b, object) # NoValue,
           <<object, "height">> \in DOMAIN p => object \in {"base", "lid"}
    PROVE  object \in {"base", "lid"} /\ PhysicalHeight(p, b, object) = Design(p, b, NoValue)[object]
<1>1. object \in {"base", "lid"}
    BY HeightIs
<1>2. CASE object = "base"
    <2>1. BaseHeight \in DOMAIN p /\ PhysicalHeight(p, b, "base") = p[BaseHeight]
        BY <1>2, HeightIs DEF BaseHeight
    <2>2. Design(p, b, NoValue)["base"] = p[BaseHeight]
        BY <2>1 DEF Design, Stored
    <2> QED
        BY <1>2, <2>1, <2>2
<1>3. CASE object = "lid"
    <2>1. Design(p, b, NoValue)["lid"] = LidOf(p, b, NoValue)
        BY DEF Design
    <2>2. CASE LidHeight \in DOMAIN p
        <3>1. p[LidHeight] # NoValue
            BY <2>2, ParamsAre DEF Length
        <3>2. LidOf(p, b, NoValue) = p[LidHeight]
            BY <2>2, <3>1 DEF LidOf
        <3>3. PhysicalHeight(p, b, "lid") = p[LidHeight]
            BY <2>2, HeightIs DEF LidHeight
        <3> QED
            BY <1>3, <2>1, <3>2, <3>3
    <2>3. CASE LidHeight \notin DOMAIN p
        BY <1>3, <2>1, <2>3, HeightIs
    <2> QED
        BY <2>2, <2>3
<1> QED
    BY <1>1, <1>2, <1>3

LEMMA PlanByAmount ==
    ASSUME NEW p \in ParamSets, NEW b \in Designs, NEW ask \in Asks, ByAmount(ask)
    PROVE  LET object == ask.request.scope[1]
               ops == OpsFor(p, b, ask)
           IN  \A j \in DOMAIN ops : ops[j].kind = "set_parameter" =>
                 /\ object \in {"base", "lid"}
                 /\ Sets(ops, object, "height")
                 /\ ops[j].parameter # BossTop[2] =>
                       /\ ops[j].parameter = "height"
                       /\ ops[j].value = Design(p, b, NoValue)[object] + Amount(ask)
<1> DEFINE r == ask.request
           object == r.scope[1]
           local == LocalOps(p, b, r)
           ops == OpsFor(p, b, ask)
           height == Design(p, b, NoValue)[object]
<1>1. ops = WithDependencies(p, b, local) /\ local \in OpSeqs
    BY OpsForAre, StepsAre DEF ByAmount
<1>2. /\ \A i \in DOMAIN local : i \in DOMAIN ops /\ ops[i] = local[i]
      /\ \A i \in DOMAIN ops : \/ i \in DOMAIN local
                               \/ /\ ops[i].parameter = BossTop[2]
                                  /\ \E j \in DOMAIN local : local[j].kind = "set_parameter"
    BY <1>1, WithDependenciesAre
<1>3. \A i \in DOMAIN local : local[i].kind = "set_parameter" =>
          /\ local[i].target = object /\ local[i].parameter = "height"
          /\ PhysicalHeight(p, b, object) # NoValue
          /\ local[i].value = PhysicalHeight(p, b, object) + Amount(ask)
    BY LocalByAmount
<1>4. <<object, "height">> \in DOMAIN p => object \in {"base", "lid"}
    BY ParamsAre DEF Keys
<1>5. PhysicalHeight(p, b, object) # NoValue =>
          object \in {"base", "lid"} /\ PhysicalHeight(p, b, object) = height
    BY <1>4, HeightOfDesign
<1> HIDE DEF object, local, ops, height
<1>6. \A i \in DOMAIN local : local[i].kind = "set_parameter" =>
          /\ object \in {"base", "lid"} /\ Sets(ops, object, "height")
          /\ local[i].parameter = "height" /\ local[i].value = height + Amount(ask)
    BY <1>2, <1>3, <1>5 DEF Sets
<1>7. \A j \in DOMAIN ops : ops[j].kind = "set_parameter" =>
          /\ object \in {"base", "lid"}
          /\ Sets(ops, object, "height")
          /\ ops[j].parameter # BossTop[2] =>
                ops[j].parameter = "height" /\ ops[j].value = height + Amount(ask)
    BY <1>2, <1>6
<1> QED
    BY <1>7 DEF object, ops, height

-----------------------------------------------------------------------------
\* What the designs of changed parameters have in common.

SixKeys == {BaseHeight, BaseWall, Floor, LidTop, TotalHeight, BossTop}

\* Equal parameters and an equal lid make equal designs.
LEMMA SameDesign ==
    ASSUME NEW p, NEW q, NEW b, NEW c, NEW o, NEW u,
           \A key \in SixKeys : Stored(p, key) = Stored(q, key), LidOf(p, b, o) = LidOf(q, c, u)
    PROVE  Design(p, b, o) = Design(q, c, u)
BY DEF Design, SixKeys

LEMMA LidIs ==
    ASSUME NEW p \in ParamSets, NEW b \in Designs, NEW o \in Int
    PROVE  /\ o # NoValue => LidOf(p, b, o) = o
           /\ LidHeight \in DOMAIN p => p[LidHeight] # NoValue /\ LidOf(p, b, NoValue) = p[LidHeight]
           /\ LidHeight \notin DOMAIN p => LidOf(p, b, NoValue) =
                 IF b.source = Stored(p, TotalHeight) /\ b.lid # NoValue THEN b.lid
                 ELSE Stored(p, TotalHeight) - Stored(p, BaseHeight)
<1>1. LidHeight \in DOMAIN p => p[LidHeight] # NoValue
    BY ParamsAre DEF Length
<1> QED
    BY <1>1 DEF LidOf, GeneratedLid

LEMMA StoredAfterPatch ==
    ASSUME NEW p \in ParamSets, NEW f \in PatchSets, NEW key \in SixKeys
    PROVE  /\ key \in KeysIn(f) => \E j \in PlacesOf(f, key) : Stored(Patched(p, f), key) = f[j].value
           /\ key \notin KeysIn(f) => Stored(Patched(p, f), key) = Stored(p, key)
BY PatchedIs DEF Stored

\* The lid of a change that leaves the total height alone.
LEMMA LidAfterPatch ==
    ASSUME NEW p \in ParamSets, NEW b \in Designs, NEW f \in PatchSets, OverrideExists(p, b, f),
           TotalHeight \in KeysIn(f) => LidHeight \in DOMAIN p
    PROVE  LET lid == LidOf(Patched(p, f), b, Override(p, b, f))
           IN  /\ Override(p, b, f) \in Int
               /\ LidHeight \in KeysIn(f) => \E j \in PlacesOf(f, LidHeight) : lid = f[j].value
               /\ LidHeight \notin KeysIn(f) => lid = LidOf(p, b, NoValue)
<1> DEFINE r == Patched(p, f)
           o == Override(p, b, f)
           first == f[Min(PlacesOf(f, LidHeight))].value
           from == Design(p, b, NoValue)
<1>1. /\ r \in ParamSets /\ DOMAIN r = DOMAIN p \cup KeysIn(f)
      /\ \A key \in KeysIn(f) : \E i \in PlacesOf(f, key) : r[key] = f[i].value
      /\ \A key \in DOMAIN p \ KeysIn(f) : r[key] = p[key]
    BY PatchedIs
<1>2. from \in Designs /\ from.lid = LidOf(p, b, NoValue) /\ from.lid \in Int
    BY DesignIs DEF NoValue, Design
<1> HIDE DEF r
<1>3. CASE LidHeight \in KeysIn(f)
    <2>1. Min(PlacesOf(f, LidHeight)) \in PlacesOf(f, LidHeight)
        BY <1>3, FirstAndLast
    <2>2. first \in Int
        BY <2>1, PatchesAre DEF PlacesOf, PatchRecords, Length
    <2>3. o = IF first > 0 THEN first ELSE NoValue
        BY <1>3 DEF Override
    <2>4. first > 0 => o # NoValue /\ o \in Int /\ o = first
        BY <2>2, <2>3 DEF NoValue
    <2>5. ~ (first > 0) => o = NoValue /\ o \in Int
        BY <2>3 DEF NoValue
    <2> HIDE DEF o, first
    <2>6. LidHeight \in DOMAIN r /\ \E i \in PlacesOf(f, LidHeight) : r[LidHeight] = f[i].value
        BY <1>1, <1>3
    <2>7. first > 0 => LidOf(r, b, o) = first
        BY <1>1, <2>4, LidIs
    <2>8. ~ (first > 0) => LidOf(r, b, o) = r[LidHeight]
        BY <1>1, <2>5, <2>6, LidIs
    <2>9. o \in Int
        BY <2>4, <2>5
    <2>10. first > 0 => \E j \in PlacesOf(f, LidHeight) : LidOf(r, b, o) = f[j].value
        BY <2>1, <2>7 DEF first
    <2> QED
        BY <1>3, <2>6, <2>8, <2>9, <2>10 DEF r, o
<1>4. CASE LidHeight \notin KeysIn(f) /\ BaseHeight \in KeysIn(f) /\ TotalHeight \notin KeysIn(f)
    <2>1. o = from.lid
        BY <1>4 DEF Override
    <2>2. Consistent(from)
        BY <1>4 DEF OverrideExists
    <2>3. from.lid # NoValue
        BY <1>2, <2>2, HousingAssumption DEF Consistent, NoValue
    <2> HIDE DEF o
    <2>4. LidOf(r, b, o) = from.lid
        BY <1>1, <1>2, <2>1, <2>3, LidIs
    <2> QED
        BY <1>2, <1>4, <2>1, <2>4 DEF r, o
<1>5. CASE LidHeight \notin KeysIn(f) /\ ~ (BaseHeight \in KeysIn(f) /\ TotalHeight \notin KeysIn(f))
    <2>1. o = NoValue /\ o \in Int
        BY <1>5 DEF Override, NoValue
    <2> HIDE DEF o
    <2>2. CASE LidHeight \in DOMAIN p
        BY <1>1, <1>5, <2>1, <2>2, LidIs DEF r, o
    <2>3. CASE LidHeight \notin DOMAIN p
        <3>1. TotalHeight \notin KeysIn(f) /\ BaseHeight \notin KeysIn(f) /\ LidHeight \notin DOMAIN r
            BY <1>1, <1>5, <2>3
        <3>2. Stored(r, TotalHeight) = Stored(p, TotalHeight) /\ Stored(r, BaseHeight) = Stored(p, BaseHeight)
            BY <3>1, StoredAfterPatch DEF SixKeys, r
        <3>3. LidOf(r, b, NoValue) = LidOf(p, b, NoValue)
            BY <1>1, <2>1, <2>3, <3>1, <3>2, LidIs
        <3> QED
            BY <1>5, <2>1, <3>3 DEF r, o
    <2> QED
        BY <2>2, <2>3
<1> QED
    BY <1>3, <1>4, <1>5

\* A change that leaves the total height alone makes a design that has the
\* patched dimensions, and the others of the design before.
LEMMA DesignAfterPatch ==
    ASSUME NEW p \in ParamSets, NEW b \in Designs, NEW f \in PatchSets, OverrideExists(p, b, f),
           TotalHeight \notin KeysIn(f), NEW field \in Fields
    PROVE  LET d == Design(Patched(p, f), b, Override(p, b, f))
               key == KeyOf[field]
           IN  /\ key \in KeysIn(f) => \E j \in PlacesOf(f, key) : d[field] = f[j].value
               /\ key \notin KeysIn(f) => d[field] = Design(p, b, NoValue)[field]
<1> DEFINE r == Patched(p, f)
           d == Design(r, b, Override(p, b, f))
           from == Design(p, b, NoValue)
<1>1. CASE field = "lid"
    <2>1. KeyOf[field] = LidHeight /\ d[field] = LidOf(r, b, Override(p, b, f))
          /\ from[field] = LidOf(p, b, NoValue)
        BY <1>1 DEF KeyOf, Design
    <2> QED
        BY <2>1, LidAfterPatch
<1>2. CASE field # "lid"
    <2>1. KeyOf[field] \in SixKeys /\ d[field] = Stored(r, KeyOf[field]) /\ from[field] = Stored(p, KeyOf[field])
        BY <1>2 DEF Fields, KeyOf, SixKeys, Design
    <2> QED
        BY <2>1, StoredAfterPatch
<1> QED
    BY <1>1, <1>2

\* What can be built has a lid and a boss.
LEMMA BuildableIs ==
    ASSUME NEW p \in ParamSets, NEW b \in Designs, NEW o \in Int, Buildable(Design(p, b, o))
    PROVE  LET d == Design(p, b, o)
           IN  d \in Designs /\ d.lid > 0 /\ d.lid # NoValue /\ d.boss # NoValue
<1> DEFINE d == Design(p, b, o)
<1>1. d \in Designs /\ d.boss = Stored(p, BossTop)
    BY DesignIs DEF Design
<1>2. d.boss # NoValue
    BY <1>1, StoredIs DEF Length
<1> HIDE DEF d
<1>3. Joint < d.lid /\ d.lid \in Int /\ Joint \in Nat
    BY <1>1, HousingAssumption DEF Buildable, Consistent, Designs, d
<1>4. d.lid > 0 /\ d.lid # NoValue
    BY <1>3 DEF NoValue
<1> QED
    BY <1>1, <1>2, <1>4 DEF d

\* What is written back describes the design.
LEMMA WrittenBackStands ==
    ASSUME NEW p \in ParamSets, NEW b \in Designs, NEW o \in Int, Buildable(Design(p, b, o))
    PROVE  LET d == Design(p, b, o)
               w == WrittenBack(p, d)
           IN  /\ Design(w, d, NoValue) = d
               /\ PhysicalHeight(w, d, "lid") = d.lid
               /\ \A key \in SixKeys : Stored(w, key) = Stored(p, key)
<1> DEFINE d == Design(p, b, o)
           w == WrittenBack(p, d)
<1>1. d \in Designs /\ d.lid # NoValue /\ d.boss # NoValue
    BY BuildableIs
<1>2. d = [base |-> Stored(p, BaseHeight), lid |-> d.lid, source |-> Stored(p, TotalHeight),
           boss |-> Stored(p, BossTop), top |-> Stored(p, LidTop), floor |-> Stored(p, Floor),
           wall |-> Stored(p, BaseWall)]
    BY DEF Design
<1> HIDE DEF d
<1>3. /\ w \in ParamSets
      /\ LidHeight \in DOMAIN w /\ w[LidHeight] = d.lid
      /\ BossTop \in DOMAIN w /\ w[BossTop] = d.boss
      /\ \A key : key \notin {LidHeight, BossTop} =>
            /\ key \in DOMAIN w <=> key \in DOMAIN p
            /\ key \in DOMAIN p => w[key] = p[key]
    BY <1>1, WrittenBackIs
<1> HIDE DEF w
<1>4. \A key \in SixKeys \ {BossTop} : Stored(w, key) = Stored(p, key)
    BY <1>3, KeysDiffer DEF Stored, SixKeys
<1>5. Stored(w, BossTop) = Stored(p, BossTop)
    BY <1>2, <1>3 DEF Stored
<1>6. NoValue \in Int
    BY DEF NoValue
<1>7. LidOf(w, d, NoValue) = d.lid
    BY <1>1, <1>3, <1>6, LidIs
<1>8. Design(w, d, NoValue) = d
    BY <1>2, <1>4, <1>5, <1>7 DEF Design, SixKeys
<1>9. PhysicalHeight(w, d, "lid") = d.lid
    BY <1>1, <1>3, HeightIs DEF LidHeight
<1> QED
    BY <1>4, <1>5, <1>8, <1>9 DEF d, w

-----------------------------------------------------------------------------
\* What an undo restores, of parameters s that the change or a later
\* generation left, when the change was made to q and b.
LEMMA RestoredFrom ==
    ASSUME NEW q \in ParamSets, NEW b \in Designs, NEW f \in PatchSets, NEW s \in ParamSets,
           \A i \in DOMAIN f : f[i].before = Before(q, b, f[i].key),
           TotalHeight \in DOMAIN q, Design(q, b, NoValue).lid > 0
    PROVE  LET u == Restored(s, f)
           IN  /\ u \in ParamSets
               /\ \A key \in SixKeys : key \in KeysIn(f) => Stored(u, key) = Stored(q, key)
               /\ \A key \in SixKeys : key \notin KeysIn(f) => Stored(u, key) = Stored(s, key)
               /\ LidHeight \in KeysIn(f) => \A c \in Designs : LidOf(u, c, NoValue) = LidOf(q, b, NoValue)
<1> DEFINE u == Restored(s, f)
<1>1. /\ u \in ParamSets
      /\ \A key \in KeysIn(f) : \E i \in PlacesOf(f, key) :
            /\ key \in DOMAIN u <=> f[i].before # NoValue
            /\ key \in DOMAIN u => u[key] = f[i].before
      /\ \A key : key \notin KeysIn(f) =>
            /\ key \in DOMAIN u <=> key \in DOMAIN s
            /\ key \in DOMAIN s => u[key] = s[key]
    BY RestoredIs
<1> HIDE DEF u
<1>2. ASSUME NEW key \in KeysIn(f)
      PROVE  /\ key \in DOMAIN u <=> Before(q, b, key) # NoValue
             /\ key \in DOMAIN u => u[key] = Before(q, b, key)
    <2>1. PICK i \in PlacesOf(f, key) : /\ key \in DOMAIN u <=> f[i].before # NoValue
                                        /\ key \in DOMAIN u => u[key] = f[i].before
        BY <1>1
    <2>2. f[i].before = Before(q, b, key)
        BY <2>1 DEF PlacesOf
    <2> QED
        BY <2>1, <2>2
<1>3. ASSUME NEW key \in SixKeys, key \in KeysIn(f)
      PROVE  Stored(u, key) = Stored(q, key)
    <2>1. key \in Keys /\ key # LidHeight
        BY KeysDiffer DEF SixKeys
    <2>2. CASE key \in DOMAIN q
        <3>1. Before(q, b, key) = q[key] /\ q[key] # NoValue
            BY <2>1, <2>2, BeforeIs, ParamsAre DEF Length
        <3> QED
            BY <1>2, <1>3, <2>2, <3>1 DEF Stored
    <2>3. CASE key \notin DOMAIN q /\ key # BossTop
        <3>1. Before(q, b, key) = NoValue
            BY <2>1, <2>3, BeforeIs
        <3> QED
            BY <1>2, <1>3, <2>3, <3>1 DEF Stored
    <2>4. CASE key \notin DOMAIN q /\ key = BossTop
        <3>1. Before(q, b, key) \in {Default[BossTop], NoValue}
            BY <2>1, <2>4, BeforeIs
        <3> QED
            BY <1>2, <1>3, <2>4, <3>1 DEF Stored
    <2> QED
        BY <2>2, <2>3, <2>4
<1>4. ASSUME NEW key \in SixKeys, key \notin KeysIn(f)
      PROVE  Stored(u, key) = Stored(s, key)
    BY <1>1, <1>4 DEF Stored
<1>5. ASSUME LidHeight \in KeysIn(f), NEW c \in Designs
      PROVE  LidOf(u, c, NoValue) = LidOf(q, b, NoValue)
    <2>1. NoValue \in Int /\ LidOf(q, b, NoValue) > 0
        BY DEF Design, NoValue
    <2>2. LidOf(q, b, NoValue) # NoValue
        BY <2>1 DEF NoValue
    <2>3. Before(q, b, LidHeight) = LidOf(q, b, NoValue)
        <3>1. CASE LidHeight \in DOMAIN q
            BY <2>1, <3>1, BeforeIs, LidIs, KeysDiffer
        <3>2. CASE LidHeight \notin DOMAIN q
            BY <2>1, <3>2, BeforeIs, KeysDiffer
        <3> QED
            BY <3>1, <3>2
    <2>4. LidHeight \in DOMAIN u /\ u[LidHeight] = LidOf(q, b, NoValue)
        BY <1>2, <1>5, <2>2, <2>3
    <2> QED
        BY <1>1, <2>1, <2>4, LidIs
<1> QED
    BY <1>1, <1>3, <1>4, <1>5 DEF u

\* The undo of a change that nothing was generated after.
LEMMA UndoneBefore ==
    ASSUME NEW q \in ParamSets, NEW b \in Designs, NEW f \in PatchSets,
           \A i \in DOMAIN f : f[i].before = Before(q, b, f[i].key),
           TotalHeight \in DOMAIN q, Design(q, b, NoValue).lid > 0
    PROVE  Design(Restored(Patched(q, f), f), b, NoValue) = Design(q, b, NoValue)
<1> DEFINE r == Patched(q, f)
           u == Restored(r, f)
<1>1. /\ r \in ParamSets /\ DOMAIN r = DOMAIN q \cup KeysIn(f)
      /\ \A key \in DOMAIN q \ KeysIn(f) : r[key] = q[key]
    BY PatchedIs
<1>2. \A key \in SixKeys : key \notin KeysIn(f) => Stored(r, key) = Stored(q, key)
    BY StoredAfterPatch
<1>3. LidHeight \notin KeysIn(f) => /\ LidHeight \in DOMAIN u <=> LidHeight \in DOMAIN r
                                    /\ LidHeight \in DOMAIN r => u[LidHeight] = r[LidHeight]
    BY <1>1, RestoredIs
<1> HIDE DEF r
<1>4. /\ u \in ParamSets
      /\ \A key \in SixKeys : key \in KeysIn(f) => Stored(u, key) = Stored(q, key)
      /\ \A key \in SixKeys : key \notin KeysIn(f) => Stored(u, key) = Stored(r, key)
      /\ LidHeight \in KeysIn(f) => \A c \in Designs : LidOf(u, c, NoValue) = LidOf(q, b, NoValue)
    BY <1>1, RestoredFrom
<1> HIDE DEF u
<1>5. \A key \in SixKeys : Stored(u, key) = Stored(q, key)
    BY <1>2, <1>4
<1>6. LidOf(u, b, NoValue) = LidOf(q, b, NoValue)
    <2>1. Stored(u, TotalHeight) = Stored(q, TotalHeight) /\ Stored(u, BaseHeight) = Stored(q, BaseHeight)
        BY <1>5 DEF SixKeys
    <2>2. NoValue \in Int
        BY DEF NoValue
    <2>3. CASE LidHeight \notin KeysIn(f)
        <3>1. /\ LidHeight \in DOMAIN u <=> LidHeight \in DOMAIN q
              /\ LidHeight \in DOMAIN q => u[LidHeight] = q[LidHeight]
            BY <1>1, <1>3, <2>3
        <3> QED
            BY <1>4, <2>1, <2>2, <3>1, LidIs
    <2> QED
        BY <1>4, <2>3
<1>7. Design(u, b, NoValue) = Design(q, b, NoValue)
    BY <1>5, <1>6, SameDesign
<1> QED
    BY <1>7 DEF u, r

\* The undo of a change after its generation.
LEMMA UndoneAfter ==
    ASSUME NEW q \in ParamSets, NEW b \in Designs, NEW f \in PatchSets,
           \A i \in DOMAIN f : f[i].before = Before(q, b, f[i].key),
           TotalHeight \in DOMAIN q, Design(q, b, NoValue).lid > 0, OverrideExists(q, b, f),
           TotalHeight \in KeysIn(f) => LidHeight \in DOMAIN q,
           Buildable(Design(Patched(q, f), b, Override(q, b, f)))
    PROVE  LET d == Design(Patched(q, f), b, Override(q, b, f))
           IN  Design(Restored(WrittenBack(Patched(q, f), d), f), d, NoValue) = Design(q, b, NoValue)
<1> DEFINE r == Patched(q, f)
           o == Override(q, b, f)
           d == Design(r, b, o)
           w == WrittenBack(r, d)
           u == Restored(w, f)
<1>1. r \in ParamSets
    BY PatchedIs
<1>2. \A key \in SixKeys : key \notin KeysIn(f) => Stored(r, key) = Stored(q, key)
    BY StoredAfterPatch
<1>3. o \in Int /\ (LidHeight \notin KeysIn(f) => LidOf(r, b, o) = LidOf(q, b, NoValue))
    BY LidAfterPatch
<1>4. d.lid = LidOf(r, b, o)
    BY DEF Design
<1> HIDE DEF r, o
<1>5. d \in Designs /\ d.lid # NoValue /\ d.boss # NoValue
    BY <1>1, <1>3, BuildableIs DEF r, o
<1>6. \A key \in SixKeys : Stored(w, key) = Stored(r, key)
    BY <1>1, <1>3, WrittenBackStands DEF r, o
<1> HIDE DEF d
<1>7. w \in ParamSets /\ LidHeight \in DOMAIN w /\ w[LidHeight] = d.lid
    BY <1>1, <1>5, WrittenBackIs
<1> HIDE DEF w
<1>8. LidHeight \notin KeysIn(f) => LidHeight \in DOMAIN u /\ u[LidHeight] = d.lid
    BY <1>7, RestoredIs
<1>9. /\ u \in ParamSets
      /\ \A key \in SixKeys : key \in KeysIn(f) => Stored(u, key) = Stored(q, key)
      /\ \A key \in SixKeys : key \notin KeysIn(f) => Stored(u, key) = Stored(w, key)
      /\ LidHeight \in KeysIn(f) => \A c \in Designs : LidOf(u, c, NoValue) = LidOf(q, b, NoValue)
    BY <1>7, RestoredFrom
<1> HIDE DEF u
<1>10. \A key \in SixKeys : Stored(u, key) = Stored(q, key)
    BY <1>2, <1>6, <1>9
<1>11. NoValue \in Int
    BY DEF NoValue
<1>12. LidOf(u, d, NoValue) = LidOf(q, b, NoValue)
    BY <1>3, <1>4, <1>5, <1>8, <1>9, <1>11, LidIs
<1>13. Design(u, d, NoValue) = Design(q, b, NoValue)
    BY <1>10, <1>12, SameDesign
<1> QED
    BY <1>13 DEF u, w, d, r, o

-----------------------------------------------------------------------------
\* Events stay, so what is said of them does.

LEMMA EventIs ==
    ASSUME NEW e \in Events
    PROVE  /\ e.kind = "applied" => e \in Applied
           /\ e.kind = "requested" => e \in Requested
           /\ e.kind = "reverted" => e \in Reverted
           /\ e.kind = "completed" => e \in Completed
           /\ e.kind \in {"applied", "requested", "reverted", "completed"}
BY DEF Events, Applied, Requested, Reverted, Completed

Extends ==
    /\ planned' \in Seq(Plans) /\ log' \in Seq(Events)
    /\ \A i \in DOMAIN planned : i \in DOMAIN planned' /\ planned'[i] = planned[i]
    /\ \A i \in DOMAIN log : i \in DOMAIN log' /\ log'[i] = log[i]

LEMMA OfStays ==
    ASSUME Extends
    PROVE  /\ \A kind, i : i \in Of(kind) => i \in DOMAIN log /\ log[i].kind = kind /\ i \in (Of(kind))'
           /\ \A k \in Changes : k \in Changes'
BY DEF Extends, Of, Changes

LEMMA AnsweringStays ==
    ASSUME HousingTypes, Chained, Extends, NEW i \in DOMAIN log, NEW d, Answering(i, d),
           log[i].kind \in {"applied", "reverted"}
    PROVE  (Answering(i, d))'
<1>1. i \in DOMAIN log' /\ log'[i] = log[i]
    BY DEF Extends
<1>2. ASSUME (Planned(i))'
      PROVE  (Exact(i, d))'
    <2>1. log[i].kind = "applied"
        BY <1>1, <1>2 DEF Planned
    <2>2. log[i].plan \in DOMAIN planned
        BY <2>1 DEF Chained
    <2>3. planned'[log[i].plan] = planned[log[i].plan]
        BY <2>2 DEF Extends
    <2>4. Planned(i)
        BY <1>1, <1>2, <2>3 DEF Planned, KeysOf
    <2>5. Exact(i, d)
        BY <2>4 DEF Answering
    <2> QED
        BY <1>1, <2>3, <2>5 DEF Exact
<1>3. ASSUME NewHousing, (UndoesLatest(i))'
      PROVE  d = log'[log'[i].change].from
    <2>1. log[i].kind = "reverted"
        BY <1>1, <1>3 DEF UndoesLatest
    <2>2. log[i].change \in 1..(i - 1) /\ i \in Nat
        BY <2>1 DEF Chained, HousingTypes
    <2>3. log[i].change \in DOMAIN log
        BY <2>2 DEF HousingTypes
    <2>4. log'[log[i].change] = log[log[i].change]
        BY <2>3 DEF Extends
    <2>5. \A k \in Changes : k \in Changes'
        BY OfStays
    <2>6. UndoesLatest(i)
        BY <1>1, <1>3, <2>4, <2>5 DEF UndoesLatest, KeysOf
    <2>7. d = log[log[i].change].from
        BY <1>3, <2>6 DEF Answering
    <2> QED
        BY <1>1, <2>4, <2>7
<1> QED
    BY <1>2, <1>3 DEF Answering

\* A request names a change, a job a request, a completion both.
LEMMA TargetsAre ==
    ASSUME HousingTypes, Chained
    PROVE  /\ \A i \in DOMAIN log : log[i].kind = "requested" =>
                 log[i].change \in DOMAIN log /\ log[log[i].change].kind \in {"applied", "reverted"}
           /\ \A job \in jobs : /\ job.id \in DOMAIN log /\ log[job.id].kind = "requested"
                                /\ Target(job) \in DOMAIN log
                                /\ log[Target(job)].kind \in {"applied", "reverted"}
           /\ \A i \in Of("completed") : /\ i \in DOMAIN log /\ log[i].request \in DOMAIN log
                                         /\ Answered(i) \in DOMAIN log
                                         /\ log[Answered(i)].kind \in {"applied", "reverted"}
<1>0. DOMAIN log = 1..Len(log) /\ Len(log) \in Nat
    BY DEF HousingTypes
<1>1. ASSUME NEW i \in DOMAIN log, log[i].kind = "requested"
      PROVE  log[i].change \in DOMAIN log /\ log[log[i].change].kind \in {"applied", "reverted"}
    BY <1>0, <1>1 DEF Chained
<1>2. ASSUME NEW job \in jobs
      PROVE  /\ job.id \in DOMAIN log /\ log[job.id].kind = "requested"
             /\ Target(job) \in DOMAIN log
             /\ log[Target(job)].kind \in {"applied", "reverted"}
    BY <1>1 DEF Chained, Of, Target
<1>3. ASSUME NEW i \in Of("completed")
      PROVE  /\ i \in DOMAIN log /\ log[i].request \in DOMAIN log
             /\ Answered(i) \in DOMAIN log
             /\ log[Answered(i)].kind \in {"applied", "reverted"}
    <2>1. i \in DOMAIN log /\ log[i].kind = "completed"
        BY DEF Of
    <2>2. log[i].request \in 1..(i - 1) /\ log[log[i].request].kind = "requested"
        BY <2>1 DEF Chained
    <2>3. log[i].request \in DOMAIN log
        BY <1>0, <2>1, <2>2
    <2> QED
        BY <1>1, <2>1, <2>2, <2>3 DEF Answered
<1> QED
    BY <1>1, <1>2, <1>3

LEMMA OldStays ==
    ASSUME HousingInv, Extends
    PROVE  /\ \A job \in jobs : (Answering(Target(job), JobDesign(job)))'
           /\ \A i \in Of("completed") : (Answering(Answered(i), log[i].design))'
           /\ \A job \in jobs : job.id \in (Of("requested"))'
           /\ \A i \in DOMAIN log :
                 /\ log[i].kind = "applied" => log[i].plan \in DOMAIN planned'
                 /\ log[i].kind = "requested" => log[i].change \in 1..(i - 1)
                       /\ log'[log[i].change].kind \in {"applied", "reverted"}
                 /\ log[i].kind = "reverted" => log[i].change \in 1..(i - 1)
                       /\ log'[log[i].change].kind = "applied"
                 /\ log[i].kind = "completed" => log[i].request \in 1..(i - 1)
                       /\ log'[log[i].request].kind = "requested"
<1>0. HousingTypes /\ Chained /\ JobsAnswer /\ CompletedAnswer
    BY DEF HousingInv
<1>1. ASSUME NEW job \in jobs
      PROVE  (Answering(Target(job), JobDesign(job)))' /\ job.id \in (Of("requested"))'
    <2>1. job.id \in DOMAIN log /\ log[job.id].kind = "requested" /\ Target(job) \in DOMAIN log
          /\ log[Target(job)].kind \in {"applied", "reverted"}
        BY <1>0, TargetsAre
    <2>2. (Target(job))' = Target(job) /\ (JobDesign(job))' = JobDesign(job)
        BY <2>1 DEF Target, Extends, JobDesign
    <2>3. Answering(Target(job), JobDesign(job))
        BY <1>0 DEF JobsAnswer
    <2>4. PICK t \in DOMAIN log : t = Target(job)
        BY <2>1
    <2>5. PICK d : d = JobDesign(job)
        OBVIOUS
    <2>6. (Answering(t, d))'
        BY <1>0, <2>1, <2>3, <2>4, <2>5, AnsweringStays
    <2>7. t = (Target(job))' /\ d = (JobDesign(job))'
        BY <2>2, <2>4, <2>5
    <2>8. (Answering(Target(job), JobDesign(job)))'
        BY <2>6, <2>7 DEF Answering, Planned, Exact, UndoesLatest, KeysOf
    <2>9. job.id \in (Of("requested"))'
        BY <2>1 DEF Extends, Of
    <2> QED
        BY <2>8, <2>9
<1>2. ASSUME NEW i \in Of("completed")
      PROVE  (Answering(Answered(i), log[i].design))'
    <2>1. /\ i \in DOMAIN log /\ log[i].request \in DOMAIN log /\ Answered(i) \in DOMAIN log
          /\ log[Answered(i)].kind \in {"applied", "reverted"}
        BY <1>0, TargetsAre
    <2>2. PICK t \in DOMAIN log : t = Answered(i)
        BY <2>1
    <2>3. PICK d : d = log[i].design
        OBVIOUS
    <2>4. t = (Answered(i))' /\ d = log'[i].design
        BY <2>1, <2>2, <2>3 DEF Answered, Extends
    <2>5. Answering(t, d)
        BY <1>0, <2>2, <2>3 DEF CompletedAnswer
    <2>6. (Answering(t, d))'
        BY <1>0, <2>1, <2>2, <2>5, AnsweringStays
    <2> QED
        BY <2>4, <2>6 DEF Answering, Planned, Exact, UndoesLatest, KeysOf
<1>3. ASSUME NEW i \in DOMAIN log
      PROVE  /\ log[i].kind = "applied" => log[i].plan \in DOMAIN planned'
             /\ log[i].kind = "requested" => log[i].change \in 1..(i - 1)
                   /\ log'[log[i].change].kind \in {"applied", "reverted"}
             /\ log[i].kind = "reverted" => log[i].change \in 1..(i - 1)
                   /\ log'[log[i].change].kind = "applied"
             /\ log[i].kind = "completed" => log[i].request \in 1..(i - 1)
                   /\ log'[log[i].request].kind = "requested"
    <2>1. DOMAIN log = 1..Len(log) /\ Len(log) \in Nat
        BY <1>0 DEF HousingTypes
    <2>2. \A k \in 1..(i - 1) : k \in DOMAIN log /\ log'[k] = log[k]
        BY <2>1 DEF Extends
    <2> QED
        BY <1>0, <2>2 DEF Chained, Extends
<1> QED
    BY <1>1, <1>2, <1>3

-----------------------------------------------------------------------------
\* One step at a time.

LEMMA OverrideIs ==
    ASSUME NEW p \in ParamSets, NEW b \in Designs, NEW f \in PatchSets
    PROVE  Override(p, b, f) \in Int
<1> DEFINE first == f[Min(PlacesOf(f, LidHeight))].value
<1>1. LidHeight \in KeysIn(f) => first \in Int
    BY FirstAndLast, PatchesAre DEF PlacesOf, PatchRecords, Length
<1>2. NoValue \in Int
    BY DEF NoValue
<1>3. Design(p, b, NoValue).lid \in Int
    BY <1>2, DesignIs DEF Design
<1> HIDE DEF first
<1>4. Override(p, b, f) = IF LidHeight \in KeysIn(f) THEN (IF first > 0 THEN first ELSE NoValue)
                          ELSE IF BaseHeight \in KeysIn(f) /\ TotalHeight \notin KeysIn(f)
                          THEN Design(p, b, NoValue).lid ELSE NoValue
    BY DEF Override, first
<1> QED
    BY <1>1, <1>2, <1>3, <1>4

\* A plan applied to the design it was made for is exact.
LEMMA PlanIsExact ==
    ASSUME NEW p \in ParamSets, NEW b \in Designs, NEW plan \in Plans, SetsByAmount(plan),
           NEW f, f = Compiled(p, b, plan.ops), DOMAIN f # {}, OverrideExists(p, b, f),
           TotalHeight \notin KeysIn(f),
           NEW change, change.patches = f, change.from = plan.from,
           plan.from = Design(p, b, NoValue), plan.from # NotBuilt
    PROVE  LET d == Design(Patched(p, f), b, Override(p, b, f))
               object == plan.ask.request.scope[1]
           IN  /\ Answers(change, d)
               /\ ByAmount(plan.ask) => d[object] = plan.from[object] + Amount(plan.ask)
<1> DEFINE d == Design(Patched(p, f), b, Override(p, b, f))
           object == plan.ask.request.scope[1]
           ops == plan.ops
<1>1. /\ f \in PatchSets
      /\ \A j \in DOMAIN ops : ops[j].kind = "set_parameter" =>
            /\ j \in DOMAIN f /\ f[j].value = ops[j].value
            /\ f[j].key = <<Owner[ops[j].target], ops[j].parameter>>
      /\ \A j \in DOMAIN f :
            \/ j \in DOMAIN ops /\ ops[j].kind = "set_parameter"
            \/ f[j].key = BossTop /\ \E k \in DOMAIN ops : ops[k].kind = "set_parameter"
    <2>1. ops \in OpSeqs
        BY DEF Plans
    <2> QED
        BY <2>1, CompiledIs
<1>2. \A field \in Fields :
         /\ KeyOf[field] \in KeysIn(f) => \E j \in PlacesOf(f, KeyOf[field]) : d[field] = f[j].value
         /\ KeyOf[field] \notin KeysIn(f) => d[field] = plan.from[field]
    BY <1>1, DesignAfterPatch
<1> HIDE DEF d
<1>3. Answers(change, d)
    BY <1>2 DEF Answers
<1>4. ASSUME ByAmount(plan.ask)
      PROVE  d[object] = plan.from[object] + Amount(plan.ask)
    <2>1. \A j \in DOMAIN ops : ops[j].kind = "set_parameter" =>
              /\ object \in {"base", "lid"} /\ Sets(ops, object, "height")
              /\ ops[j].parameter # BossTop[2] =>
                    ops[j].parameter = "height" /\ ops[j].value = plan.from[object] + Amount(plan.ask)
        BY <1>4 DEF SetsByAmount
    <2>2. object \in {"base", "lid"} /\ Sets(ops, object, "height")
        BY <1>1, <2>1
    <2>3. PICK k \in DOMAIN ops : /\ ops[k].kind = "set_parameter"
                                  /\ ops[k].target = object /\ ops[k].parameter = "height"
        BY <2>2 DEF Sets
    <2>4. object \in Fields /\ KeyOf[object] = <<object, "height">> /\ Owner[object] = object
        BY <2>2, HousingAssumption DEF Fields, KeyOf, BaseHeight, LidHeight
    <2> HIDE DEF object, ops
    <2>5. KeyOf[object] \in KeysIn(f)
        BY <1>1, <2>3, <2>4 DEF KeysIn
    <2>6. PICK j \in PlacesOf(f, KeyOf[object]) : d[object] = f[j].value
        BY <1>2, <2>4, <2>5
    <2>7. j \in DOMAIN f /\ f[j].key = <<object, "height">>
        BY <2>4, <2>6 DEF PlacesOf
    <2>8. BossTop[2] # "height" /\ BossTop # <<object, "height">>
        BY DEF BossTop
    <2>9. j \in DOMAIN ops /\ ops[j].kind = "set_parameter" /\ ops[j].parameter = "height"
          /\ f[j].value = ops[j].value
        BY <1>1, <2>7, <2>8
    <2> QED
        BY <2>1, <2>6, <2>8, <2>9
<1> QED
    BY <1>3, <1>4 DEF d, object, ops

LEMMA AppendedIs ==
    ASSUME HousingTypes, NEW e \in Events, log' = Append(log, e), planned' = planned
    PROVE  LET n == Len(log) + 1
           IN  /\ Extends /\ n \in Nat
               /\ DOMAIN log = 1..(n - 1) /\ DOMAIN log' = 1..n /\ Len(log') = n
               /\ log'[n] = e
BY DEF HousingTypes, Extends

\* A change is queued with a request for its files, or alone.
LEMMA QueueIs ==
    ASSUME HousingTypes, NEW e \in Events, NEW p \in ParamSets, NEW o \in Int, NEW requested \in BOOLEAN,
           Queue(e, p, o, requested), planned' = planned
    PROVE  LET n == Len(log) + 1
               last == IF requested THEN n + 1 ELSE n
               job == [id |-> n + 1, params |-> p, built |-> built, override |-> o]
           IN  /\ Extends /\ n \in Nat /\ last \in Nat /\ n <= last
               /\ DOMAIN log = 1..(n - 1) /\ DOMAIN log' = 1..last /\ Len(log') = last
               /\ log'[n] = e
               /\ requested => log'[n + 1] = [kind |-> "requested", change |-> n]
               /\ jobs' = IF requested THEN jobs \cup {job} ELSE jobs
<1> DEFINE n == Len(log) + 1
           request == [kind |-> "requested", change |-> n]
<1>1. log \in Seq(Events) /\ planned \in Seq(Plans) /\ n \in Nat /\ DOMAIN log = 1..(n - 1)
    BY DEF HousingTypes
<1>2. request \in Events
    BY <1>1 DEF Events, Requested
<1>3. CASE requested
    <2>1. /\ log' = log \o <<e, request>>
          /\ jobs' = jobs \cup {[id |-> Len(log) + 2, params |-> p, built |-> built, override |-> o]}
        BY <1>3 DEF Queue
    <2> HIDE DEF request
    <2>2. <<e, request>> \in Seq(Events)
        BY <1>2
    <2>3. log' \in Seq(Events) /\ Len(log') = n + 1 /\ DOMAIN log' = 1..(n + 1)
          /\ log'[n] = e /\ log'[n + 1] = request /\ \A i \in DOMAIN log : log'[i] = log[i]
        BY <1>1, <1>2, <2>1, <2>2
    <2>4. Extends
        BY <1>1, <2>3 DEF Extends
    <2>5. Len(log) + 2 = n + 1
        BY <1>1
    <2> QED
        BY <1>1, <1>3, <2>1, <2>3, <2>4, <2>5 DEF request
<1>4. CASE ~ requested
    <2>1. log' = Append(log, e) /\ jobs' = jobs
        BY <1>4 DEF Queue
    <2> QED
        BY <1>1, <1>4, <2>1, AppendedIs
<1> QED
    BY <1>3, <1>4

\* A design to start from is the design of the parameters, with a lid.
LEMMA StandingIs ==
    ASSUME HousingInv
    PROVE  /\ Standing \in Designs
           /\ Standing # NotBuilt => /\ Standing = Design(params, built, NoValue) /\ jobs = {}
                                     /\ NewHousing => Design(params, built, NoValue).lid > 0
<1> DEFINE d == Design(params, built, NoValue)
<1>0. HousingTypes /\ Grounded /\ NoValue \in Int
    BY DEF HousingInv, NoValue
<1>1. d \in Designs /\ NotBuilt \in Designs
    <2>1. d \in Designs
        BY <1>0, DesignIs DEF HousingTypes
    <2>2. NotBuilt \in Designs
        BY DEF NotBuilt, Designs
    <2> QED
        BY <2>1, <2>2
<1>2. Standing = IF Settled THEN d ELSE NotBuilt
    BY DEF Standing
<1>3. d # NotBuilt
    <2>1. d.base # NoValue
        BY <1>0, StoredIs DEF Design, Length, HousingTypes
    <2> QED
        BY <2>1 DEF NotBuilt, NoValue
<1>4. ASSUME Settled, NewHousing
      PROVE  d.lid > 0
    <2>1. CASE Changes = {}
        <3>1. params = Initial /\ built = NotBuilt
            BY <1>0, <1>4, <2>1 DEF Grounded
        <3> QED
            BY <1>4, <3>1 DEF NewHousing, Design
    <2>2. CASE Changes # {}
        <3>1. built = d
            BY <1>4, <2>2 DEF Settled
        <3>2. built.lid > 0
            BY <1>0, <1>3, <1>4, <3>1 DEF Grounded
        <3> QED
            BY <3>1, <3>2
    <2> QED
        BY <2>1, <2>2
<1> QED
    BY <1>1, <1>2, <1>3, <1>4 DEF Settled

LEMMA MakePlanKeeps ==
    ASSUME HousingInv, NEW ask \in Asks, MakePlan(ask)
    PROVE  HousingInv'
<1> DEFINE plan == [base |-> Revision, ops |-> OpsFor(params, built, ask), ask |-> ask, from |-> Standing]
<1>0. /\ HousingTypes /\ Chained /\ PlansByAmount /\ Grounded
      /\ JobsAnswer /\ LatestReturns /\ CompletedAnswer /\ BuiltDesignStands
    BY DEF HousingInv
<1>1. planned' = Append(planned, plan) /\ UNCHANGED <<params, built, log, jobs>>
    BY DEF MakePlan
<1>2. Revision \in Nat
    <2>1. Changes \subseteq 1..Len(log) /\ Len(log) \in Nat
        BY <1>0 DEF HousingTypes, Changes, Of
    <2>2. IsFiniteSet(1..Len(log))
        BY <2>1, FS_Interval
    <2> QED
        BY <2>1, <2>2, FS_Subset, FS_CardinalityType DEF Revision
<1>3. plan \in Plans
    <2>1. OpsFor(params, built, ask) \in OpSeqs
        BY <1>0, OpsForAre DEF HousingTypes
    <2>2. Standing \in Designs
        BY StandingIs
    <2> QED
        BY <1>2, <2>1, <2>2 DEF Plans
<1>4. SetsByAmount(plan)
    <2>1. Standing # NotBuilt => Standing = Design(params, built, NoValue)
        BY StandingIs
    <2>2. params \in ParamSets /\ built \in Designs
        BY <1>0 DEF HousingTypes
    <2> QED
        BY <2>1, <2>2, PlanByAmount DEF SetsByAmount
<1> HIDE DEF plan
<1>5. /\ planned' \in Seq(Plans) /\ DOMAIN planned' = DOMAIN planned \cup {Len(planned) + 1}
      /\ planned'[Len(planned) + 1] = plan /\ \A i \in DOMAIN planned : planned'[i] = planned[i]
    BY <1>0, <1>1, <1>3, AppendKeeps DEF HousingTypes
<1>6. Extends
    BY <1>0, <1>1, <1>5 DEF Extends, HousingTypes
<1>7. HousingTypes'
    BY <1>0, <1>1, <1>5 DEF HousingTypes
<1>8. Chained'
    BY <1>1, <1>6, OldStays DEF Chained
<1>9. PlansByAmount'
    BY <1>0, <1>4, <1>5 DEF PlansByAmount
<1>10. Grounded'
    BY <1>0, <1>1 DEF Grounded, Changes, Of
<1>11. JobsAnswer'
    BY <1>1, <1>6, OldStays DEF JobsAnswer
<1>12. LatestReturns'
    BY <1>0, <1>1 DEF LatestReturns, Undoable, Changes, Of, KeysOf
<1>13. CompletedAnswer'
    <2>1. (Of("completed"))' = Of("completed")
        BY <1>1 DEF Of
    <2> QED
        BY <2>1, <1>6, OldStays DEF CompletedAnswer
<1>14. BuiltDesignStands'
    BY <1>0, <1>1 DEF BuiltDesignStands
<1> QED
    BY <1>7, <1>8, <1>9, <1>10, <1>11, <1>12, <1>13, <1>14 DEF HousingInv

\* A plan is applied, with a request for the files or without.
LEMMA ApplicationKeeps ==
    ASSUME HousingInv, NEW i \in DOMAIN planned, NEW via \in {"rest", "mcp"}, NEW requested \in BOOLEAN,
           NEW f, f = Compiled(params, built, planned[i].ops),
           params' = Patched(params, f), UNCHANGED <<built, planned>>,
           Queue(Application(i, f, via), params', Override(params, built, f), requested),
           requested => OverrideExists(params, built, f) /\ DOMAIN f # {}
    PROVE  HousingInv'
<1> DEFINE n == Len(log) + 1
           last == IF requested THEN n + 1 ELSE n
           e == Application(i, f, via)
           o == Override(params, built, f)
           new == [id |-> n + 1, params |-> params', built |-> built, override |-> o]
<1>0. /\ HousingTypes /\ Chained /\ PlansByAmount /\ Grounded
      /\ JobsAnswer /\ LatestReturns /\ CompletedAnswer /\ BuiltDesignStands
    BY DEF HousingInv
<1>1. params \in ParamSets /\ built \in Designs /\ planned[i] \in Plans /\ planned[i].ops \in OpSeqs
      /\ i \in Nat
    <2>1. params \in ParamSets /\ built \in Designs /\ planned[i] \in Plans /\ i \in Nat
        BY <1>0 DEF HousingTypes
    <2>2. planned[i].ops \in OpSeqs
        BY <2>1 DEF Plans
    <2> QED
        BY <2>1, <2>2
<1>2. f \in PatchSets /\ \A j \in DOMAIN f : f[j].before = Before(params, built, f[j].key)
    BY <1>1, CompiledIs
<1>3. params' \in ParamSets /\ DOMAIN params' = DOMAIN params \cup KeysIn(f)
    BY <1>1, <1>2, PatchedIs
<1>4. o \in Int
    BY <1>1, <1>2, OverrideIs
<1>5. Standing \in Designs /\ (Standing # NotBuilt =>
          /\ Standing = Design(params, built, NoValue) /\ jobs = {}
          /\ NewHousing => Design(params, built, NoValue).lid > 0)
    BY StandingIs
<1>6. /\ e.kind = "applied" /\ e.plan = i /\ e.patches = f /\ e.via = via /\ e.from = Standing
      /\ e.own = (LidHeight \in DOMAIN params)
    BY DEF Application
<1>7. e \in Applied /\ e \in Events
    BY <1>1, <1>2, <1>5 DEF Application, Applied, Events
<1> HIDE DEF e, o
<1>8. Queue(e, params', o, requested)
    BY DEF e, o
<1>9. /\ Extends /\ n \in Nat /\ last \in Nat /\ n <= last
      /\ DOMAIN log = 1..(n - 1) /\ DOMAIN log' = 1..last /\ Len(log') = last
      /\ log'[n] = e
      /\ requested => log'[n + 1] = [kind |-> "requested", change |-> n]
      /\ jobs' = IF requested THEN jobs \cup {new} ELSE jobs
    BY <1>0, <1>3, <1>4, <1>7, <1>8, QueueIs
<1>10. \A k \in DOMAIN log' : \/ k \in DOMAIN log /\ log'[k] = log[k]
                              \/ k = n
                              \/ k = n + 1 /\ requested /\ log'[k].kind = "requested" /\ log'[k].change = n
    BY <1>9 DEF Extends
<1>11. n \in DOMAIN log' /\ n \in Changes'
    BY <1>6, <1>9 DEF Changes, Of
<1> HIDE DEF n, last
<1>12. HousingTypes'
    <2>1. new \in [id : Nat, params : ParamSets, built : Designs, override : Int]
        BY <1>1, <1>3, <1>4, <1>9
    <2> HIDE DEF new
    <2> QED
        BY <1>0, <1>3, <1>9, <2>1 DEF HousingTypes, Extends
<1>13. Chained'
    <2>1. ASSUME NEW k \in DOMAIN log'
          PROVE  /\ log'[k].kind = "applied" => log'[k].plan \in DOMAIN planned'
                 /\ log'[k].kind = "requested" => log'[k].change \in 1..(k - 1)
                       /\ log'[log'[k].change].kind \in {"applied", "reverted"}
                 /\ log'[k].kind = "reverted" => log'[k].change \in 1..(k - 1)
                       /\ log'[log'[k].change].kind = "applied"
                 /\ log'[k].kind = "completed" => log'[k].request \in 1..(k - 1)
                       /\ log'[log'[k].request].kind = "requested"
        <3>1. CASE k \in DOMAIN log /\ log'[k] = log[k]
            BY <1>9, <3>1, OldStays
        <3>2. CASE k = n
            BY <1>6, <1>9, <3>2
        <3>3. CASE k = n + 1 /\ requested /\ log'[k].kind = "requested" /\ log'[k].change = n
            BY <1>6, <1>9, <3>3 DEF n
        <3> QED
            BY <1>10, <3>1, <3>2, <3>3
    <2>2. ASSUME NEW job \in jobs'
          PROVE  job.id \in (Of("requested"))'
        <3>1. CASE job \in jobs
            BY <1>9, <3>1, OldStays
        <3>2. CASE requested /\ job = new
            <4>1. job.id = n + 1 /\ n + 1 \in DOMAIN log' /\ log'[n + 1].kind = "requested"
                BY <1>9, <3>2 DEF last
            <4> QED
                BY <4>1 DEF Of
        <3> QED
            BY <1>9, <3>1, <3>2
    <2> QED
        BY <2>1, <2>2 DEF Chained
<1>14. PlansByAmount'
    BY <1>0 DEF PlansByAmount
<1>15. Grounded'
    <2> SUFFICES ASSUME NewHousing
                 PROVE  /\ TotalHeight \in DOMAIN params'
                        /\ \A job \in jobs' : TotalHeight \in DOMAIN job.params
                        /\ \A k \in (Of("applied"))' : \A j \in DOMAIN log'[k].patches :
                              log'[k].patches[j].key = TotalHeight => log'[k].patches[j].before # NoValue
                        /\ built' = NotBuilt \/ built'.lid > 0
                        /\ Changes' # {}
        BY DEF Grounded
    <2>1. TotalHeight \in DOMAIN params' /\ TotalHeight \in DOMAIN params
        BY <1>0, <1>3 DEF Grounded
    <2>2. \A job \in jobs' : TotalHeight \in DOMAIN job.params
        BY <1>0, <1>9, <2>1 DEF Grounded
    <2>3. ASSUME NEW k \in (Of("applied"))', NEW j \in DOMAIN log'[k].patches,
                 log'[k].patches[j].key = TotalHeight
          PROVE  log'[k].patches[j].before # NoValue
        <3>0. k \in DOMAIN log' /\ log'[k].kind = "applied"
            BY DEF Of
        <3>1. CASE k \in DOMAIN log /\ log'[k] = log[k]
            BY <1>0, <2>3, <3>0, <3>1 DEF Grounded, Of
        <3>2. CASE k = n
            <4>1. Before(params, built, TotalHeight) = params[TotalHeight] /\ params[TotalHeight] # NoValue
                BY <1>1, <2>1, KeysDiffer, BeforeIs, ParamsAre DEF Length
            <4> QED
                BY <1>2, <1>6, <1>9, <2>3, <3>2, <4>1
        <3> QED
            BY <1>10, <3>0, <3>1, <3>2
    <2> QED
        BY <1>0, <1>11, <2>1, <2>2, <2>3 DEF Grounded
<1>16. JobsAnswer'
    <2>1. ASSUME NEW job \in jobs'
          PROVE  (Answering(Target(job), JobDesign(job)))'
        <3>1. CASE job \in jobs
            BY <1>9, <3>1, OldStays
        <3>2. CASE requested /\ job = new
            <4>1. PICK m \in DOMAIN log' : m = n
                BY <1>11
            <4>2. PICK d : d = JobDesign(job)
                OBVIOUS
            <4>3. d = Design(Patched(params, f), built, o)
                BY <3>2, <4>2 DEF JobDesign
            <4>4. m = (Target(job))' /\ d = (JobDesign(job))'
                BY <1>9, <3>2, <4>1, <4>2 DEF Target, JobDesign
            <4>5. ASSUME (Planned(m))'
                  PROVE  (Exact(m, d))'
                <5>1. Standing # NotBuilt /\ planned[i].from = Standing /\ TotalHeight \notin KeysIn(f)
                    BY <1>6, <1>9, <4>1, <4>5 DEF Planned, KeysOf
                <5>2. SetsByAmount(planned[i])
                    BY <1>0 DEF PlansByAmount
                <5>3. DOMAIN f # {} /\ OverrideExists(params, built, f)
                    BY <3>2
                <5>4. planned[i].from = Design(params, built, NoValue)
                    BY <1>5, <5>1
                <5>5. /\ Answers(e, d)
                      /\ ByAmount(planned[i].ask) =>
                            LET object == planned[i].ask.request.scope[1]
                            IN  d[object] = planned[i].from[object] + Amount(planned[i].ask)
                    BY <1>1, <1>6, <4>3, <5>1, <5>2, <5>3, <5>4, PlanIsExact DEF o
                <5> QED
                    BY <1>6, <1>9, <4>1, <5>1, <5>5 DEF Exact
            <4>6. ~ (UndoesLatest(m))'
                BY <1>6, <1>9, <4>1 DEF UndoesLatest
            <4>7. (Answering(m, d))'
                BY <4>5, <4>6 DEF Answering
            <4> QED
                BY <4>4, <4>7 DEF Answering, Planned, Exact, UndoesLatest, KeysOf
        <3> QED
            BY <1>9, <3>1, <3>2
    <2> QED
        BY <2>1 DEF JobsAnswer
<1>17. LatestReturns'
    <2> SUFFICES ASSUME NewHousing, NEW c \in DOMAIN log', (Undoable(c))'
                 PROVE  /\ Design(Restored(params', log'[c].patches), built', NoValue) = log'[c].from
                        /\ \A job \in jobs' : Buildable(JobDesign(job)) =>
                              Design(Restored(WrittenBack(job.params, JobDesign(job)), log'[c].patches),
                                     JobDesign(job), NoValue) = log'[c].from
        BY DEF LatestReturns, JobDesign
    <2>1. log'[c].kind = "applied" /\ log'[c].from # NotBuilt /\ n <= c
          /\ (TotalHeight \in KeysIn(log'[c].patches) => log'[c].own)
        BY <1>11 DEF Undoable, KeysOf
    <2>2. c = n
        BY <1>9, <1>10, <2>1
    <2>3. Standing = Design(params, built, NoValue) /\ jobs = {} /\ Design(params, built, NoValue).lid > 0
          /\ (TotalHeight \in KeysIn(f) => LidHeight \in DOMAIN params)
        BY <1>5, <1>6, <1>9, <2>1, <2>2
    <2>4. TotalHeight \in DOMAIN params
        BY <1>0 DEF Grounded
    <2>5. Design(Restored(Patched(params, f), f), built, NoValue) = Design(params, built, NoValue)
        BY <1>1, <1>2, <2>3, <2>4, UndoneBefore
    <2>6. ASSUME NEW job \in jobs', Buildable(JobDesign(job))
          PROVE  Design(Restored(WrittenBack(job.params, JobDesign(job)), f), JobDesign(job), NoValue)
                     = Design(params, built, NoValue)
        <3>1. requested /\ job = new
            BY <1>9, <2>3
        <3>2. job.params = Patched(params, f)
              /\ JobDesign(job) = Design(Patched(params, f), built, Override(params, built, f))
            BY <3>1 DEF JobDesign, o
        <3> QED
            BY <1>1, <1>2, <2>3, <2>4, <2>6, <3>1, <3>2, UndoneAfter
    <2> QED
        BY <1>6, <1>9, <2>2, <2>3, <2>5, <2>6
<1>18. CompletedAnswer'
    <2>1. ASSUME NEW k \in (Of("completed"))'
          PROVE  k \in Of("completed")
        BY <1>6, <1>9, <1>10 DEF Of
    <2> QED
        BY <1>9, <2>1, OldStays DEF CompletedAnswer
<1>19. BuiltDesignStands'
    <2>1. log'[Len(log')].kind # "completed"
        BY <1>6, <1>9 DEF last
    <2> QED
        BY <2>1 DEF BuiltDesignStands
<1> QED
    BY <1>12, <1>13, <1>14, <1>15, <1>16, <1>17, <1>18, <1>19 DEF HousingInv

\* The latest change of its parameters, or an older one, is undone.
LEMMA UndoKeeps ==
    ASSUME HousingInv, NEW i \in Of("applied"), NEW requested \in BOOLEAN, Undo(i, requested)
    PROVE  HousingInv'
<1> DEFINE n == Len(log) + 1
           last == IF requested THEN n + 1 ELSE n
           e == [kind |-> "reverted", change |-> i]
           f == log[i].patches
           new == [id |-> n + 1, params |-> params', built |-> built, override |-> NoValue]
<1>0. /\ HousingTypes /\ Chained /\ PlansByAmount /\ Grounded
      /\ JobsAnswer /\ LatestReturns /\ CompletedAnswer /\ BuiltDesignStands
    BY DEF HousingInv
<1>1. /\ params' = Restored(params, f) /\ Queue(e, params', NoValue, requested)
      /\ UNCHANGED <<built, planned>>
    BY DEF Undo
<1>2. i \in DOMAIN log /\ log[i].kind = "applied" /\ i \in Nat /\ f \in PatchSets
    <2>1. i \in DOMAIN log /\ log[i].kind = "applied"
        BY DEF Of
    <2>2. log[i] \in Applied /\ i \in Nat
        BY <1>0, <2>1, EventIs DEF HousingTypes
    <2> QED
        BY <2>1, <2>2 DEF Applied
<1>3. /\ params' \in ParamSets
      /\ \A key \in KeysIn(f) : \E j \in PlacesOf(f, key) : key \in DOMAIN params' <=> f[j].before # NoValue
      /\ \A key : key \notin KeysIn(f) => (key \in DOMAIN params' <=> key \in DOMAIN params)
    BY <1>0, <1>1, <1>2, RestoredIs DEF HousingTypes
<1>4. NoValue \in Int
    BY DEF NoValue
<1>5. e.kind = "reverted" /\ e.change = i /\ e \in Events
    BY <1>2 DEF Reverted, Events
<1> HIDE DEF e, f
<1>6. /\ Extends /\ n \in Nat /\ last \in Nat /\ n <= last
      /\ DOMAIN log = 1..(n - 1) /\ DOMAIN log' = 1..last /\ Len(log') = last
      /\ log'[n] = e
      /\ requested => log'[n + 1] = [kind |-> "requested", change |-> n]
      /\ jobs' = IF requested THEN jobs \cup {new} ELSE jobs
    BY <1>0, <1>1, <1>3, <1>4, <1>5, QueueIs
<1>7. \A k \in DOMAIN log' : \/ k \in DOMAIN log /\ log'[k] = log[k]
                             \/ k = n
                             \/ k = n + 1 /\ requested /\ log'[k].kind = "requested" /\ log'[k].change = n
    BY <1>6 DEF Extends
<1>8. n \in DOMAIN log' /\ n \in Changes'
    BY <1>5, <1>6 DEF Changes, Of
<1> HIDE DEF n, last
<1>9. HousingTypes'
    <2>1. new \in [id : Nat, params : ParamSets, built : Designs, override : Int]
        BY <1>0, <1>3, <1>4, <1>6 DEF HousingTypes
    <2> HIDE DEF new
    <2> QED
        BY <1>0, <1>1, <1>3, <1>6, <2>1 DEF HousingTypes, Extends
<1>10. Chained'
    <2>1. ASSUME NEW k \in DOMAIN log'
          PROVE  /\ log'[k].kind = "applied" => log'[k].plan \in DOMAIN planned'
                 /\ log'[k].kind = "requested" => log'[k].change \in 1..(k - 1)
                       /\ log'[log'[k].change].kind \in {"applied", "reverted"}
                 /\ log'[k].kind = "reverted" => log'[k].change \in 1..(k - 1)
                       /\ log'[log'[k].change].kind = "applied"
                 /\ log'[k].kind = "completed" => log'[k].request \in 1..(k - 1)
                       /\ log'[log'[k].request].kind = "requested"
        <3>1. CASE k \in DOMAIN log /\ log'[k] = log[k]
            BY <1>6, <3>1, OldStays
        <3>2. CASE k = n
            BY <1>2, <1>5, <1>6, <3>2 DEF Extends
        <3>3. CASE k = n + 1 /\ requested /\ log'[k].kind = "requested" /\ log'[k].change = n
            BY <1>5, <1>6, <3>3 DEF n
        <3> QED
            BY <1>7, <3>1, <3>2, <3>3
    <2>2. ASSUME NEW job \in jobs'
          PROVE  job.id \in (Of("requested"))'
        <3>1. CASE job \in jobs
            BY <1>6, <3>1, OldStays
        <3>2. CASE requested /\ job = new
            <4>1. job.id = n + 1 /\ n + 1 \in DOMAIN log' /\ log'[n + 1].kind = "requested"
                BY <1>6, <3>2 DEF last
            <4> QED
                BY <4>1 DEF Of
        <3> QED
            BY <1>6, <3>1, <3>2
    <2> QED
        BY <2>1, <2>2 DEF Chained
<1>11. PlansByAmount'
    BY <1>0, <1>1 DEF PlansByAmount
<1>12. Grounded'
    <2> SUFFICES ASSUME NewHousing
                 PROVE  /\ TotalHeight \in DOMAIN params'
                        /\ \A job \in jobs' : TotalHeight \in DOMAIN job.params
                        /\ \A k \in (Of("applied"))' : \A j \in DOMAIN log'[k].patches :
                              log'[k].patches[j].key = TotalHeight => log'[k].patches[j].before # NoValue
                        /\ built' = NotBuilt \/ built'.lid > 0
                        /\ Changes' # {}
        BY DEF Grounded
    <2>1. TotalHeight \in DOMAIN params'
        <3>1. TotalHeight \in DOMAIN params
            BY <1>0 DEF Grounded
        <3>2. \A j \in DOMAIN f : f[j].key = TotalHeight => f[j].before # NoValue
            BY <1>0 DEF Grounded, f
        <3> QED
            BY <1>3, <3>1, <3>2 DEF PlacesOf
    <2>2. \A job \in jobs' : TotalHeight \in DOMAIN job.params
        BY <1>0, <1>6, <2>1 DEF Grounded
    <2>3. ASSUME NEW k \in (Of("applied"))', NEW j \in DOMAIN log'[k].patches,
                 log'[k].patches[j].key = TotalHeight
          PROVE  log'[k].patches[j].before # NoValue
        <3>0. k \in DOMAIN log' /\ log'[k].kind = "applied"
            BY DEF Of
        <3>1. k \in DOMAIN log /\ log'[k] = log[k]
            BY <1>5, <1>6, <1>7, <3>0
        <3> QED
            BY <1>0, <2>3, <3>0, <3>1 DEF Grounded, Of
    <2> QED
        BY <1>0, <1>1, <1>8, <2>1, <2>2, <2>3 DEF Grounded
<1>13. JobsAnswer'
    <2>1. ASSUME NEW job \in jobs'
          PROVE  (Answering(Target(job), JobDesign(job)))'
        <3>1. CASE job \in jobs
            BY <1>6, <3>1, OldStays
        <3>2. CASE requested /\ job = new
            <4>1. PICK m \in DOMAIN log' : m = n
                BY <1>8
            <4>2. PICK d : d = JobDesign(job)
                OBVIOUS
            <4>3. d = Design(Restored(params, f), built, NoValue)
                BY <1>1, <3>2, <4>2 DEF JobDesign, f
            <4>4. m = (Target(job))' /\ d = (JobDesign(job))'
                BY <1>6, <3>2, <4>1, <4>2 DEF Target, JobDesign
            <4>5. ~ (Planned(m))'
                BY <1>5, <1>6, <4>1 DEF Planned
            <4>6. ASSUME NewHousing, (UndoesLatest(m))'
                  PROVE  d = log'[log'[m].change].from
                <5>1. log'[m].change = i /\ log'[i] = log[i]
                    BY <1>2, <1>5, <1>6, <4>1 DEF Extends
                <5>2. \A k \in Changes : k <= i
                    <6>1. ASSUME NEW k \in Changes, ~ (k <= i)
                          PROVE  FALSE
                        <7>1. k \in Changes' /\ k \in 1..(n - 1)
                            BY <1>6, OfStays DEF Changes, Of
                        <7>2. i < k
                            BY <1>2, <6>1, <7>1
                        <7>3. n <= k
                            BY <4>1, <4>6, <5>1, <7>1, <7>2 DEF UndoesLatest
                        <7> QED
                            BY <1>6, <7>1, <7>3
                    <6> QED
                        BY <6>1
                <5>3. Undoable(i)
                    BY <1>2, <4>6, <5>1, <5>2 DEF Undoable, UndoesLatest, KeysOf
                <5>4. Design(Restored(params, f), built, NoValue) = log[i].from
                    BY <1>0, <1>2, <4>6, <5>3 DEF LatestReturns, f
                <5> QED
                    BY <4>3, <5>1, <5>4
            <4>7. (Answering(m, d))'
                BY <4>5, <4>6 DEF Answering
            <4> QED
                BY <4>4, <4>7 DEF Answering, Planned, Exact, UndoesLatest, KeysOf
        <3> QED
            BY <1>6, <3>1, <3>2
    <2> QED
        BY <2>1 DEF JobsAnswer
<1>14. LatestReturns'
    <2>1. ASSUME NEW c \in DOMAIN log', (Undoable(c))'
          PROVE  FALSE
        <3>1. log'[c].kind = "applied" /\ n <= c
            BY <1>8, <2>1 DEF Undoable
        <3> QED
            BY <1>5, <1>6, <1>7, <3>1
    <2> QED
        BY <2>1 DEF LatestReturns
<1>15. CompletedAnswer'
    <2>1. ASSUME NEW k \in (Of("completed"))'
          PROVE  k \in Of("completed")
        BY <1>5, <1>6, <1>7 DEF Of
    <2> QED
        BY <1>6, <2>1, OldStays DEF CompletedAnswer
<1>16. BuiltDesignStands'
    <2>1. log'[Len(log')].kind # "completed"
        BY <1>5, <1>6 DEF last
    <2> QED
        BY <2>1 DEF BuiltDesignStands
<1> QED
    BY <1>9, <1>10, <1>11, <1>12, <1>13, <1>14, <1>15, <1>16 DEF HousingInv

\* A job ends, and leaves nothing: it is superseded, or fails.
LEMMA EndedJobKeeps ==
    ASSUME HousingInv, NEW job \in jobs, jobs' = jobs \ {job}, UNCHANGED <<params, built, planned, log>>
    PROVE  HousingInv'
<1>0. /\ HousingTypes /\ Chained /\ PlansByAmount /\ Grounded
      /\ JobsAnswer /\ LatestReturns /\ CompletedAnswer /\ BuiltDesignStands
    BY DEF HousingInv
<1>1. Extends
    BY <1>0 DEF HousingTypes, Extends
<1>2. HousingTypes' /\ PlansByAmount' /\ BuiltDesignStands'
    BY <1>0 DEF HousingTypes, PlansByAmount, BuiltDesignStands
<1>3. Chained'
    BY <1>1, OldStays DEF Chained
<1>4. Grounded'
    BY <1>0 DEF Grounded, Changes, Of
<1>5. JobsAnswer'
    BY <1>1, OldStays DEF JobsAnswer
<1>6. LatestReturns'
    BY <1>0 DEF LatestReturns, Undoable, Changes, Of, KeysOf, JobDesign
<1>7. CompletedAnswer'
    <2>1. (Of("completed"))' = Of("completed")
        BY DEF Of
    <2> QED
        BY <1>1, <2>1, OldStays DEF CompletedAnswer
<1> QED
    BY <1>2, <1>3, <1>4, <1>5, <1>6, <1>7 DEF HousingInv

\* The newest job is completed and written back.
LEMMA CompletedJobKeeps ==
    ASSUME HousingInv, NEW job \in jobs, NEW d, d = JobDesign(job), Buildable(d),
           jobs' = jobs \ {job}, params' = WrittenBack(job.params, d), built' = d,
           log' = Append(log, [kind |-> "completed", request |-> job.id, design |-> d]),
           UNCHANGED planned
    PROVE  HousingInv'
<1> DEFINE n == Len(log) + 1
           e == [kind |-> "completed", request |-> job.id, design |-> d]
<1>0. /\ HousingTypes /\ Chained /\ PlansByAmount /\ Grounded
      /\ JobsAnswer /\ LatestReturns /\ CompletedAnswer /\ BuiltDesignStands
    BY DEF HousingInv
<1>1. job.id \in Nat /\ job.params \in ParamSets /\ job.built \in Designs /\ job.override \in Int
    BY <1>0 DEF HousingTypes
<1>2. d = Design(job.params, job.built, job.override)
    BY DEF JobDesign
<1>3. d \in Designs /\ d.lid > 0 /\ d.lid # NoValue /\ d.boss # NoValue
    BY <1>1, <1>2, BuildableIs
<1>4. /\ params' \in ParamSets
      /\ \A key : key \notin {LidHeight, BossTop} => (key \in DOMAIN params' <=> key \in DOMAIN job.params)
    BY <1>1, <1>3, WrittenBackIs
<1>5. Design(params', d, NoValue) = d /\ PhysicalHeight(params', d, "lid") = d.lid
    BY <1>1, <1>2, WrittenBackStands
<1>6. e.kind = "completed" /\ e.request = job.id /\ e.design = d /\ e \in Events
    BY <1>1, <1>3 DEF Completed, Events
<1> HIDE DEF e
<1>7. log' = Append(log, e)
    BY DEF e
<1>8. /\ Extends /\ n \in Nat /\ DOMAIN log = 1..(n - 1) /\ DOMAIN log' = 1..n /\ Len(log') = n
      /\ log'[n] = e
    BY <1>0, <1>6, <1>7, AppendedIs
<1>9. \A k \in DOMAIN log' : (k \in DOMAIN log /\ log'[k] = log[k]) \/ k = n
    BY <1>8 DEF Extends
<1> HIDE DEF n
<1>10. /\ job.id \in DOMAIN log /\ log[job.id].kind = "requested" /\ Target(job) \in DOMAIN log
       /\ log[Target(job)].kind \in {"applied", "reverted"}
    BY <1>0, TargetsAre
<1>11. Changes' = Changes
    BY <1>6, <1>8, <1>9 DEF Changes, Of, Extends
<1>12. HousingTypes'
    BY <1>0, <1>3, <1>4, <1>8 DEF HousingTypes, Extends
<1>13. Chained'
    <2>1. ASSUME NEW k \in DOMAIN log'
          PROVE  /\ log'[k].kind = "applied" => log'[k].plan \in DOMAIN planned'
                 /\ log'[k].kind = "requested" => log'[k].change \in 1..(k - 1)
                       /\ log'[log'[k].change].kind \in {"applied", "reverted"}
                 /\ log'[k].kind = "reverted" => log'[k].change \in 1..(k - 1)
                       /\ log'[log'[k].change].kind = "applied"
                 /\ log'[k].kind = "completed" => log'[k].request \in 1..(k - 1)
                       /\ log'[log'[k].request].kind = "requested"
        <3>1. CASE k \in DOMAIN log /\ log'[k] = log[k]
            BY <1>8, <3>1, OldStays
        <3>2. CASE k = n
            BY <1>6, <1>8, <1>10, <3>2 DEF Extends
        <3> QED
            BY <1>9, <3>1, <3>2
    <2> QED
        BY <1>8, <2>1, OldStays DEF Chained
<1>14. PlansByAmount'
    BY <1>0 DEF PlansByAmount
<1>15. Grounded'
    <2> SUFFICES ASSUME NewHousing
                 PROVE  /\ TotalHeight \in DOMAIN params'
                        /\ \A j \in jobs' : TotalHeight \in DOMAIN j.params
                        /\ \A k \in (Of("applied"))' : \A j \in DOMAIN log'[k].patches :
                              log'[k].patches[j].key = TotalHeight => log'[k].patches[j].before # NoValue
                        /\ built' = NotBuilt \/ built'.lid > 0
                        /\ Changes' # {}
        BY DEF Grounded
    <2>1. TotalHeight \in DOMAIN params'
        BY <1>0, <1>4, KeysDiffer DEF Grounded
    <2>2. \A j \in jobs' : TotalHeight \in DOMAIN j.params
        BY <1>0 DEF Grounded
    <2>3. ASSUME NEW k \in (Of("applied"))', NEW j \in DOMAIN log'[k].patches,
                 log'[k].patches[j].key = TotalHeight
          PROVE  log'[k].patches[j].before # NoValue
        <3>0. k \in DOMAIN log' /\ log'[k].kind = "applied"
            BY DEF Of
        <3>1. k \in DOMAIN log /\ log'[k] = log[k]
            BY <1>6, <1>8, <1>9, <3>0
        <3> QED
            BY <1>0, <2>3, <3>0, <3>1 DEF Grounded, Of
    <2>4. Changes' # {}
        BY <1>10, <1>11 DEF Changes, Of
    <2> QED
        BY <1>3, <2>1, <2>2, <2>3, <2>4
<1>16. JobsAnswer'
    BY <1>8, OldStays DEF JobsAnswer
<1>17. LatestReturns'
    <2> SUFFICES ASSUME NewHousing, NEW c \in DOMAIN log', (Undoable(c))'
                 PROVE  /\ Design(Restored(params', log'[c].patches), built', NoValue) = log'[c].from
                        /\ \A j \in jobs' : Buildable(JobDesign(j)) =>
                              Design(Restored(WrittenBack(j.params, JobDesign(j)), log'[c].patches),
                                     JobDesign(j), NoValue) = log'[c].from
        BY DEF LatestReturns, JobDesign
    <2>1. c \in DOMAIN log /\ log'[c] = log[c]
        BY <1>6, <1>8, <1>9 DEF Undoable
    <2>2. Undoable(c)
        BY <1>11, <2>1 DEF Undoable, KeysOf
    <2>3. \A j \in jobs : Buildable(JobDesign(j)) =>
              Design(Restored(WrittenBack(j.params, JobDesign(j)), log[c].patches),
                     JobDesign(j), NoValue) = log[c].from
        BY <1>0, <2>1, <2>2 DEF LatestReturns
    <2> QED
        BY <2>1, <2>3
<1>18. CompletedAnswer'
    <2>1. ASSUME NEW k \in (Of("completed"))'
          PROVE  (Answering(Answered(k), log[k].design))'
        <3>1. CASE k \in Of("completed")
            BY <1>8, <3>1, OldStays
        <3>2. CASE k = n
            <4>1. log'[k].design = d /\ (Answered(k))' = (Target(job))'
                BY <1>6, <1>8, <3>2 DEF Answered, Target
            <4>2. (Answering(Target(job), JobDesign(job)))'
                BY <1>8, OldStays
            <4>3. (JobDesign(job))' = d
                BY DEF JobDesign
            <4> QED
                BY <4>1, <4>2, <4>3 DEF Answering, Planned, Exact, UndoesLatest, KeysOf
        <3>3. k \in Of("completed") \/ k = n
            BY <1>9 DEF Of
        <3> QED
            BY <3>1, <3>2, <3>3
    <2> QED
        BY <2>1 DEF CompletedAnswer
<1>19. BuiltDesignStands'
    BY <1>5, <1>6, <1>8 DEF BuiltDesignStands
<1> QED
    BY <1>12, <1>13, <1>14, <1>15, <1>16, <1>17, <1>18, <1>19 DEF HousingInv

-----------------------------------------------------------------------------
\* The invariant, and what it says.

LEMMA HousingInitially == HousingInit => HousingInv
<1> SUFFICES ASSUME HousingInit PROVE HousingInv
    OBVIOUS
<1>1. params = Initial /\ built = NotBuilt /\ planned = <<>> /\ log = <<>> /\ jobs = {}
    BY DEF HousingInit
<1>2. HousingTypes
    <2>1. NotBuilt \in Designs
        BY DEF NotBuilt, Designs
    <2> QED
        BY <1>1, <2>1, ConstantsAre DEF HousingTypes
<1>3. Chained /\ PlansByAmount /\ JobsAnswer /\ LatestReturns /\ CompletedAnswer /\ BuiltDesignStands
    BY <1>1 DEF Chained, PlansByAmount, JobsAnswer, LatestReturns, CompletedAnswer, BuiltDesignStands, Of
<1>4. Grounded
    BY <1>1 DEF Grounded, Of, NewHousing
<1> QED
    BY <1>2, <1>3, <1>4 DEF HousingInv

LEMMA HousingSteps == HousingInv /\ [HousingNext]_housing => HousingInv'
<1> SUFFICES ASSUME HousingInv, [HousingNext]_housing PROVE HousingInv'
    OBVIOUS
<1>1. ASSUME NEW ask \in Asks, MakePlan(ask)
      PROVE  HousingInv'
    BY <1>1, MakePlanKeeps
<1>2. ASSUME NEW i \in DOMAIN planned, NEW requested \in BOOLEAN, Apply(i, requested)
      PROVE  HousingInv'
    <2>1. PICK f : f = Compiled(params, built, planned[i].ops)
        OBVIOUS
    <2>2. PICK files \in BOOLEAN : files = (requested /\ DOMAIN f # {})
        OBVIOUS
    <2>3. /\ params' = Patched(params, f) /\ UNCHANGED <<built, planned>>
          /\ Queue(Application(i, f, "rest"), params', Override(params, built, f), files)
          /\ files => OverrideExists(params, built, f) /\ DOMAIN f # {}
        BY <1>2, <2>1, <2>2 DEF Apply
    <2> QED
        BY <2>1, <2>3, ApplicationKeeps
<1>3. ASSUME NEW i \in DOMAIN planned, ApplyByMcp(i)
      PROVE  HousingInv'
    <2>1. PICK f : f = Compiled(params, built, planned[i].ops)
        OBVIOUS
    <2>2. /\ params' = Patched(params, f) /\ UNCHANGED <<built, planned>>
          /\ Queue(Application(i, f, "mcp"), params', Override(params, built, f), FALSE)
        BY <1>3, <2>1 DEF ApplyByMcp, Queue
    <2> QED
        BY <2>1, <2>2, ApplicationKeeps
<1>4. ASSUME NEW i \in Of("applied"), NEW requested \in BOOLEAN, Undo(i, requested)
      PROVE  HousingInv'
    BY <1>4, UndoKeeps
<1>5. ASSUME NEW job \in jobs, Regenerate(job)
      PROVE  HousingInv'
    <2>1. PICK d : d = JobDesign(job)
        OBVIOUS
    <2>2. CASE job.id = NewestRequest
        <3>1. /\ Buildable(d) /\ jobs' = jobs \ {job} /\ params' = WrittenBack(job.params, d) /\ built' = d
              /\ log' = Append(log, [kind |-> "completed", request |-> job.id, design |-> d])
              /\ UNCHANGED planned
            BY <1>5, <2>1, <2>2 DEF Regenerate, JobDesign
        <3> QED
            BY <2>1, <3>1, CompletedJobKeeps
    <2>3. CASE job.id # NewestRequest
        <3>1. jobs' = jobs \ {job} /\ UNCHANGED <<params, built, planned, log>>
            BY <1>5, <2>3 DEF Regenerate
        <3> QED
            BY <3>1, EndedJobKeeps
    <2> QED
        BY <2>2, <2>3
<1>6. ASSUME NEW job \in jobs, GenerationFails(job)
      PROVE  HousingInv'
    BY <1>6, EndedJobKeeps DEF GenerationFails
<1>7. CASE UNCHANGED housing
    <2>1. UNCHANGED <<params, built, planned, log, jobs>>
        BY <1>7 DEF housing
    <2>2. Extends
        BY <2>1 DEF HousingInv, HousingTypes, Extends
    <2>3. (HousingTypes /\ PlansByAmount /\ BuiltDesignStands)'
        BY <2>1 DEF HousingInv, HousingTypes, PlansByAmount, BuiltDesignStands
    <2>4. Chained' /\ JobsAnswer'
        BY <2>1, <2>2, OldStays DEF Chained, JobsAnswer
    <2>5. (Of("completed"))' = Of("completed")
        BY <2>1 DEF Of
    <2>6. CompletedAnswer'
        BY <2>2, <2>5, OldStays DEF CompletedAnswer
    <2>7. Grounded' /\ LatestReturns'
        BY <2>1 DEF HousingInv, Grounded, LatestReturns, Undoable, Changes, Of, KeysOf, JobDesign
    <2> QED
        BY <2>3, <2>4, <2>6, <2>7 DEF HousingInv
<1> QED
    BY <1>1, <1>2, <1>3, <1>4, <1>5, <1>6, <1>7 DEF HousingNext

LEMMA HousingAlways == HousingSpec => []HousingInv
BY HousingInitially, HousingSteps, PTL DEF HousingSpec

\* Parameters stay lengths under known keys, designs and overrides whole
\* millimetres, every plan a list of operations of the grammar, every patch
\* a length with what was before it (change_planner.py, cad_regeneration.py).
THEOREM HousingTypesHold == HousingSpec => []HousingTypes
BY HousingAlways, PTL DEF HousingInv

\* What is generated for a change that was planned and applied on a settled
\* design has the patched dimensions and keeps all others, and a prompt for an
\* amount changes the height by that amount, whatever was planned, applied,
\* undone or superseded meanwhile (plan, apply_change_plan,
\* dimension_overrides_for_change, _complete_cad_regeneration).
THEOREM StepsStayExact == HousingSpec => []StepsAreExact
<1>1. HousingInv => StepsAreExact
    BY DEF HousingInv, CompletedAnswer, Answering, StepsAreExact
<1> QED
    BY <1>1, HousingAlways, PTL

\* The undo of the latest change of a settled design generates this design
\* again, if the new housing stores its total height and has a lid
\* (undo_change, physical_component_parameter, records_from_manifest).
THEOREM UndoAlwaysReturns ==
    ASSUME NewHousing
    PROVE  HousingSpec => []UndoReturnsToBuilt
<1>1. HousingInv => UndoReturnsToBuilt
    BY DEF HousingInv, CompletedAnswer, Answering, UndoReturnsToBuilt
<1> QED
    BY <1>1, HousingAlways, PTL

\* After a generation the parameters describe what was generated, so the next
\* change starts from it (records_from_manifest, physical_component_height).
THEOREM BuiltDesignAlwaysStands == HousingSpec => []BuiltDesignStands
BY HousingAlways, PTL DEF HousingInv
=============================================================================
