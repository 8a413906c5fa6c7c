------------------------------ MODULE Minimos ------------------------------
(***************************************************************************)
(* The least element of a set of numbers: what the searches of the servers *)
(* (first node, first block, first segment, first slot) rest on; and the   *)
(* induction that it gives, which their loops over n turns rest on.        *)
(***************************************************************************)
EXTENDS Naturals, FiniteSetsExt, WellFoundedInduction, TLAPS

MenorQue == {p \in Nat \X Nat : p[1] < p[2]}

LEMMA MenorQueFundado == IsWellFoundedOn(MenorQue, Nat)
  BY NatLessThanWellFounded DEF MenorQue, OpToRel

LEMMA HayMinimo ==
  ASSUME NEW S \in SUBSET Nat, S # {}
  PROVE  \E x \in S : \A y \in S : x <= y
  <1>1. PICK x \in S : \A y \in S : ~ (<<y, x>> \in MenorQue)
    BY MenorQueFundado, WFMin, S \subseteq Nat, Zenon
  <1>2. \A y \in S : <<y, x>> \in MenorQue <=> y < x
    BY DEF MenorQue
  <1>3. \A y \in S : ~(y < x)
    BY <1>1, <1>2
  <1>4. x \in Nat /\ \A y \in S : y \in Nat
    OBVIOUS
  <1>5. \A y \in S : x <= y
    BY <1>3, <1>4
  <1>6. QED
    BY <1>5

\* Induction up to N, on the set of the numbers that are reached.
LEMMA HastaN ==
  ASSUME NEW N \in Nat, NEW S, 0 \in S, \A n \in 0..N : n \in S /\ n # N => n + 1 \in S
  PROVE  0..N \subseteq S
  <1> DEFINE faltan == (0..N) \ S
  <1>1. ASSUME faltan # {} PROVE FALSE
    <2>1. PICK m \in faltan : \A h \in faltan : m <= h
      <3>1. faltan \in SUBSET Nat
        OBVIOUS
      <3> HIDE DEF faltan
      <3>2. QED
        BY <1>1, <3>1, HayMinimo
    <2>2. m # 0 /\ m - 1 \in 0..N /\ m - 1 # N
      OBVIOUS
    <2>3. m - 1 \notin faltan
      BY <2>1, <2>2
    <2>4. QED
      BY <2>2, <2>3
  <1>2. QED
    BY <1>1

\* The position that a search finds.
LEMMA PrimeroEsta ==
  ASSUME NEW S \in SUBSET Nat, S # {}
  PROVE  Min(S) \in S
  BY HayMinimo DEF Min
=============================================================================
