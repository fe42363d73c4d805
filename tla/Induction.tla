---------------------------- MODULE Induction -----------------------------
(***************************************************************************)
(* Facts about numbers that several proofs need.                           *)
(*                                                                         *)
(* The library's induction rules take the statement as an operator; here   *)
(* it is a set of numbers, whose complement would have a least element.    *)
(***************************************************************************)
EXTENDS NaturalsInduction, WellFoundedInduction, TLAPS

Smaller == {ss \in Nat \X Nat : ss[1] < ss[2]}

LEMMA SmallerWellFounded == IsWellFoundedOn(Smaller, Nat)
  BY NatLessThanWellFounded DEF OpToRel, Smaller

LEMMA SetInduction ==
  ASSUME NEW S, 0 \in S, \A n \in Nat : n \in S => n + 1 \in S
  PROVE  Nat \subseteq S
<1> DEFINE T == Nat \ S
<1>1. CASE T = {}
  BY <1>1
<1>2. CASE T # {}
  <2>1. PICK n \in T : \A m \in T : ~(<<m, n>> \in Smaller)
    BY <1>2, SmallerWellFounded, WFMin
  <2>2. n \in Nat /\ n # 0
    BY <2>1
  <2>3. n - 1 \in Nat /\ <<n - 1, n>> \in Smaller
    BY <2>2 DEF Smaller
  <2>4. n - 1 \in S
    BY <2>1, <2>3
  <2>5. (n - 1) + 1 \in S
    BY <2>3, <2>4
  <2> QED BY <2>1, <2>2, <2>5
<1> QED BY <1>1, <1>2

LEMMA LeastElement ==
  ASSUME NEW S \in SUBSET Nat, S # {}
  PROVE  \E n \in S : \A m \in S : n <= m
<1>1. PICK n \in S : \A m \in S : ~(<<m, n>> \in Smaller)
  BY SmallerWellFounded, WFMin
<1>2. ASSUME NEW m \in S, m < n
      PROVE  FALSE
  <2>1. <<m, n>> \in Smaller
    BY <1>2 DEF Smaller
  <2> QED BY <1>1, <2>1
<1> QED BY <1>2

\* A quotient lies between the bounds of its dividend.
LEMMA DivBounds ==
  ASSUME NEW n \in Nat, n > 0, NEW t \in Int, NEW lo \in Int, NEW hi \in Int,
         lo * n <= t, t <= hi * n
  PROVE  t \div n \in Int /\ lo <= t \div n /\ t \div n <= hi
<1> DEFINE q == t \div n
<1>1. q \in Int /\ n * q <= t /\ t < n * (q + 1)
  OBVIOUS
<1> HIDE DEF q
<1>2. lo <= q
  <2> SUFFICES ASSUME q + 1 <= lo PROVE FALSE
    BY <1>1
  <2>1. n * (q + 1) <= n * lo
    BY <1>1
  <2> QED BY <1>1, <2>1
<1>3. q <= hi
  <2> SUFFICES ASSUME hi + 1 <= q PROVE FALSE
    BY <1>1
  <2>1. n * (hi + 1) <= n * q
    BY <1>1
  <2>2. n * (hi + 1) = hi * n + n
    OBVIOUS
  <2> QED BY <1>1, <2>1, <2>2
<1> QED BY <1>1, <1>2, <1>3 DEF q

=============================================================================
