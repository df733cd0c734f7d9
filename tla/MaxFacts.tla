-------------------------------- MODULE MaxFacts --------------------------------
(***************************************************************************)
(* The community modules' Max is a CHOOSE.  These lemmas show that a       *)
(* bounded set of natural numbers has a greatest element, so that Max      *)
(* names it: SQLite's next row identifier is one more than the largest     *)
(* (Accounts, Bookmarks).                                                  *)
(***************************************************************************)
EXTENDS Integers, FiniteSetsExt, WellFoundedInduction, TLAPS

\* A nonempty set of natural numbers has a least element.
LEMMA LeastElement ==
    ASSUME NEW T, T \subseteq Nat, T # {}
    PROVE  \E x \in T : \A y \in T : x <= y
  <1>1. IsWellFoundedOn(OpToRel(<, Nat), Nat)
    BY NatLessThanWellFounded
  <1>2. \E x \in T : \A y \in T : ~(<<y, x>> \in OpToRel(<, Nat))
    BY <1>1, WFMin
  <1>3. \A x, y \in Nat : <<y, x>> \in OpToRel(<, Nat) <=> y < x
    BY DEF OpToRel
  <1>4. PICK x \in T : \A y \in T : ~(<<y, x>> \in OpToRel(<, Nat))
    BY <1>2
  <1>5. \A y \in T : ~(y < x)
    BY <1>3, <1>4
  <1> QED  BY <1>5

\* One with an upper bound has a greatest.
LEMMA MaxOfBounded ==
    ASSUME NEW S, S \subseteq Nat, S # {}, NEW n \in Nat, \A x \in S : x <= n
    PROVE  Max(S) \in S /\ \A x \in S : x <= Max(S)
  <1> DEFINE T == {m \in Nat : \A x \in S : x <= m}
  <1>1. n \in T /\ T \subseteq Nat
    OBVIOUS
  <1>2. PICK m \in T : \A y \in T : m <= y
    BY <1>1, LeastElement
  <1>3. m \in S
    <2> SUFFICES ASSUME m \notin S PROVE FALSE
      OBVIOUS
    <2>1. \A x \in S : x <= m - 1
      BY <1>2
    <2>2. m - 1 \in Nat
      <3>1. PICK x \in S : TRUE
        OBVIOUS
      <3>2. x \in Nat /\ x <= m - 1 /\ m \in Nat
        BY <1>2, <2>1, <3>1
      <3> QED  BY <3>2
    <2>3. m - 1 \in T
      BY <2>1, <2>2
    <2> QED  BY <1>2, <2>3
  <1>4. \A x \in S : m >= x
    BY <1>2
  <1> QED  BY <1>3, <1>4 DEF Max
================================================================================
