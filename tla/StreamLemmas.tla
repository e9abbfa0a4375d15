---------------------------- MODULE StreamLemmas ----------------------------
(***************************************************************************)
(* Facts about streams of events, whatever the events are: the last of     *)
(* some positions, what an append changes, and what it leaves of the       *)
(* prefixes.                                                               *)
(***************************************************************************)
EXTENDS Naturals, Sequences, FiniteSets, FiniteSetsExt, SequenceTheorems, WellFoundedInduction, TLAPS

\* A non-empty set of positions of a stream has a last one.
LEMMA LastPosition ==
    ASSUME NEW n \in Nat, NEW T \in SUBSET (1 .. n), T # {}
    PROVE  Max(T) \in T /\ \A y \in T : y <= Max(T)
<1> DEFINE Less     == {pair \in Nat \X Nat : pair[1] < pair[2]}
           Distance == {n - y : y \in T}
<1>1. IsWellFoundedOn(Less, Nat)
    BY NatLessThanWellFounded DEF OpToRel
<1>2. Distance \subseteq Nat /\ Distance # {}
    <2>1. PICK z \in T : TRUE
        OBVIOUS
    <2>2. \A y \in T : n - y \in Nat
        OBVIOUS
    <2> QED
        BY <2>1, <2>2
<1> HIDE DEF Less
<1>3. PICK d \in Distance : \A e \in Distance : <<e, d>> \notin Less
    BY <1>1, <1>2, WFMin
<1>4. PICK x0 \in T : d = n - x0
    BY <1>3
<1>5. ASSUME NEW y \in T
      PROVE  y <= x0
    <2>1. n - y \in Nat /\ d \in Nat /\ n - y \in Distance
        BY <1>2, <1>3
    <2>2. <<n - y, d>> \notin Less
        BY <1>3, <2>1
    <2>3. ~ (n - y < d)
        <3>1. <<n - y, d>> \in Nat \X Nat
            BY <2>1
        <3> QED
            BY <2>2, <3>1 DEF Less
    <2> QED
        BY <1>4, <2>1, <2>3
<1>6. x0 \in T /\ \A y \in T : x0 >= y
    BY <1>5
<1> QED
    BY <1>6 DEF Max

\* A position that is not below any other is the last one.
LEMMA LastIs ==
    ASSUME NEW n \in Nat, NEW T \in SUBSET (1 .. n), NEW x \in T, \A y \in T : y <= x
    PROVE  Max(T) = x
<1> DEFINE m == Max(T)
<1>1. m \in T /\ \A y \in T : y <= m
    BY LastPosition
<1> HIDE DEF m
<1>2. m \in Nat /\ x \in Nat
    BY <1>1
<1>3. x <= m /\ m <= x
    BY <1>1
<1>4. m = x
    BY <1>2, <1>3
<1> QED
    BY <1>4 DEF m

\* An event is appended behind the others, which stay where they are.
LEMMA AppendKeeps ==
    ASSUME NEW S, NEW s \in Seq(S), NEW e \in S
    PROVE  LET t == Append(s, e)
           IN  /\ t \in Seq(S)
               /\ Len(s) \in Nat /\ Len(t) = Len(s) + 1
               /\ DOMAIN s = 1 .. Len(s)
               /\ DOMAIN t = DOMAIN s \cup {Len(s) + 1}
               /\ t[Len(s) + 1] = e
               /\ \A i \in DOMAIN s : t[i] = s[i]
OBVIOUS

\* What lies before a position does not change by an append.
LEMMA AppendPrefix ==
    ASSUME NEW S, NEW s \in Seq(S), NEW e \in S, NEW i \in 1 .. Len(s) + 1
    PROVE  /\ SubSeq(s, 1, i - 1) \in Seq(S)
           /\ Len(SubSeq(s, 1, i - 1)) = i - 1
           /\ \A k \in 1 .. i - 1 : SubSeq(s, 1, i - 1)[k] = s[k]
           /\ SubSeq(Append(s, e), 1, i - 1) = SubSeq(s, 1, i - 1)
           /\ i = Len(s) + 1 => SubSeq(s, 1, i - 1) = s
<1> DEFINE t == Append(s, e)
           u == SubSeq(s, 1, i - 1)
           w == SubSeq(t, 1, i - 1)
<1>0. /\ i - 1 \in Nat /\ Len(s) \in Nat /\ i - 1 <= Len(s)
      /\ \A k \in 1 .. i - 1 : s[k] \in S /\ t[k] = s[k] /\ t[k] \in S
    OBVIOUS
<1> HIDE DEF t
<1>1. u \in Seq(S) /\ Len(u) = i - 1 /\ \A k \in 1 .. i - 1 : u[k] = s[k]
    BY <1>0, SubSeqProperties
<1>2. w \in Seq(S) /\ Len(w) = i - 1 /\ \A k \in 1 .. i - 1 : w[k] = t[k]
    BY <1>0, SubSeqProperties
<1> HIDE DEF u, w
<1>3. u = w
    BY <1>0, <1>1, <1>2
<1>4. i = Len(s) + 1 => u = s
    BY <1>0, <1>1
<1> QED
    BY <1>1, <1>3, <1>4 DEF t, u, w
=============================================================================
