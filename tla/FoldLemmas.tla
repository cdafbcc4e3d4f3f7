----------------------------- MODULE FoldLemmas -----------------------------
(***************************************************************************)
(* Induction and folds.  The library states both for operators, and none   *)
(* of the provers instantiates an operator; here induction is about the    *)
(* set of the numbers that have a property, and a fold is first shown to   *)
(* exist for a function.  A fold by an operator is then shown, where it is *)
(* needed, to run through the values FoldRun gives it.                     *)
(***************************************************************************)
EXTENDS SequencesExt, WellFoundedInduction, TLAPS

\* A set with zero and the successors of its members holds every number.
LEMMA Induction ==
  ASSUME NEW n \in Nat, NEW T,
         0 \in T,
         \A k \in 1 .. n : k - 1 \in T => k \in T
  PROVE  0 .. n \subseteq T
<1> DEFINE R == OpToRel(<, Nat)
           missing == {k \in 0 .. n : k \notin T}
<1> SUFFICES missing = {}
  OBVIOUS
<1> SUFFICES ASSUME missing # {} PROVE FALSE
  OBVIOUS
<1>1. IsWellFoundedOn(R, Nat)
  BY NatLessThanWellFounded
<1>2. \A x, y \in Nat : x < y <=> <<x, y>> \in R
  BY DEF OpToRel
<1> HIDE DEF R
<1>3. missing # {}
  OBVIOUS
<1>4. \E k \in missing : \A j \in missing : <<j, k>> \notin R
  <2>1. missing \subseteq Nat
    OBVIOUS
  <2> HIDE DEF missing
  <2> QED
    BY <1>1, <1>3, <2>1, WFMin
<1>5. PICK k \in missing : \A j \in missing : <<j, k>> \notin R
  BY <1>4
<1>6. k # 0 /\ k \in 1 .. n /\ k - 1 \in 0 .. n
  OBVIOUS
<1>7. k - 1 \in Nat /\ k \in Nat /\ k - 1 < k
  BY <1>6
<1>8. k - 1 \notin missing
  BY <1>2, <1>5, <1>7
<1> QED
  BY <1>6, <1>8

\* The largest of some numbers up to k with k among them.
LEMMA MaxIs ==
  ASSUME NEW k \in Nat, NEW t \in SUBSET (1 .. k), k \in t
  PROVE  Max(t) = k
<1>1. \A y \in t : k >= y
  OBVIOUS
<1>2. \A x \in t : (\A y \in t : x >= y) => x = k
  OBVIOUS
<1> QED
  BY <1>1, <1>2 DEF Max

\* Some numbers have a largest one.
LEMMA MaxIn ==
  ASSUME NEW n \in Nat, NEW t \in SUBSET (1 .. n), t # {}
  PROVE  Max(t) \in t
<1> DEFINE T == {k \in 0 .. n : \A s \in SUBSET (1 .. k) : s # {} => Max(s) \in s}
<1>1. 0 \in T
  <2>1. 0 \in 0 .. n /\ \A s \in SUBSET (1 .. 0) : s = {}
    OBVIOUS
  <2> QED
    BY <2>1
<1>2. ASSUME NEW k \in 1 .. n, k - 1 \in T
      PROVE  k \in T
  <2>1. k \in Nat /\ k \in 0 .. n
    OBVIOUS
  <2>2. ASSUME NEW s \in SUBSET (1 .. k), s # {}
        PROVE  Max(s) \in s
    <3>1. CASE k \in s
      BY <2>1, <3>1, MaxIs
    <3>2. CASE k \notin s
      <4>1. s \in SUBSET (1 .. k - 1)
        BY <2>1, <3>2
      <4> QED
        BY <1>2, <2>2, <4>1
    <3> QED
      BY <3>1, <3>2
  <2> QED
    BY <2>1, <2>2
<1>3. 0 .. n \subseteq T
  <2> HIDE DEF T
  <2> QED
    BY <1>1, <1>2, Induction
<1> QED
  BY <1>3

\* it is the fold of g on every set of numbers up to n.
IsFold(it, A, base, n, g) ==
  /\ it \in [SUBSET (1 .. n) -> A]
  /\ \A t \in SUBSET (1 .. n) :
       it[t] = IF t = {} THEN base ELSE g[it[t \ {Max(t)}], Max(t)]

\* There is one.
LEMMA FoldExists ==
  ASSUME NEW A, NEW base \in A, NEW n \in Nat, NEW g \in [A \X (1 .. n) -> A]
  PROVE  \E it : IsFold(it, A, base, n, g)
<1> DEFINE Fold(k, it) == IsFold(it, A, base, k, g)
           T == {k \in 0 .. n : \E it : Fold(k, it)}
<1>1. 0 \in T
  <2> DEFINE it == [t \in SUBSET (1 .. 0) |-> base]
  <2>1. \A t \in SUBSET (1 .. 0) : t = {}
    OBVIOUS
  <2>2. Fold(0, it)
    BY <2>1 DEF IsFold
  <2> HIDE DEF Fold
  <2> QED
    BY <2>2
<1>2. ASSUME NEW k \in 1 .. n, k - 1 \in T
      PROVE  k \in T
  <2>1. PICK it : Fold(k - 1, it)
    BY <1>2
  <2> DEFINE new == [t \in SUBSET (1 .. k) |->
                       IF k \in t THEN g[it[t \ {k}], k] ELSE it[t]]
  <2>2. \A t \in SUBSET (1 .. k) : t \ {k} \in SUBSET (1 .. k - 1)
    OBVIOUS
  <2>3. \A t \in SUBSET (1 .. k) : k \notin t => t \in SUBSET (1 .. k - 1)
    OBVIOUS
  <2>4. new \in [SUBSET (1 .. k) -> A]
    BY <2>1, <2>2, <2>3 DEF IsFold
  <2>5. ASSUME NEW t \in SUBSET (1 .. k)
        PROVE  new[t] = IF t = {} THEN base ELSE g[new[t \ {Max(t)}], Max(t)]
    <3>1. CASE k \in t
      <4>1. Max(t) = k
        BY <3>1, MaxIs
      <4>2. new[t] = g[it[t \ {k}], k]
        BY <3>1
      <4>3. new[t \ {k}] = it[t \ {k}]
        OBVIOUS
      <4> QED
        BY <3>1, <4>1, <4>2, <4>3
    <3>2. CASE k \notin t
      <4>1. new[t] = it[t] /\ new[t \ {Max(t)}] = it[t \ {Max(t)}]
        BY <3>2
      <4> QED
        BY <2>1, <2>3, <3>2, <4>1 DEF IsFold
    <3> QED
      BY <3>1, <3>2
  <2>6. Fold(k, new)
    BY <2>4, <2>5 DEF IsFold
  <2>7. k \in 0 .. n
    OBVIOUS
  <2> HIDE DEF Fold, new
  <2> QED
    BY <2>6, <2>7
<1>3. n \in T
  <2> HIDE DEF T
  <2> QED
    BY <1>1, <1>2, Induction
<1> QED
  BY <1>3
=============================================================================
