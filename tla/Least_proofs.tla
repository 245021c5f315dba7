---------------------------- MODULE Least_proofs ----------------------------
(***************************************************************************)
(* A nonempty set of naturals has a least member.  The lists of the source  *)
(* are walked from their first entry: the modules name a first class, a     *)
(* first IA or a free identifier by the least number of a set.              *)
(***************************************************************************)
EXTENDS Integers, WellFoundedInduction, TLAPS

\* The least member of a set of naturals, whatever the set.
LEMMA LeastExists ==
  ASSUME NEW S, S \subseteq Nat, S # {}
  PROVE  \E m \in S : \A n \in S : m <= n
<1>1. PICK m \in S : \A n \in S : <<n, m>> \notin OpToRel(<, Nat)
  BY NatLessThanWellFounded, WFMin
<1>2. \A n \in S : m <= n
  <2>1. TAKE n \in S
  <2>2. m \in Nat /\ n \in Nat
    OBVIOUS
  <2>3. <<n, m>> \notin {p \in Nat \X Nat : p[1] < p[2]}
    BY <1>1 DEF OpToRel
  <2> QED
    BY <2>2, <2>3
<1> QED
  BY <1>2

=============================================================================
