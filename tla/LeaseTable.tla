----------------------------- MODULE LeaseTable -----------------------------
(***************************************************************************)
(* What the lease database of a dibbler server promises, without saying     *)
(* how: every address has at most one holder; it passes from one holder to  *)
(* another through being free, or to the quarantine of declined addresses;  *)
(* and a crash brings back the holders of the last save, those of the       *)
(* moment, or, where a save was cut short, some of the latter.              *)
(***************************************************************************)
CONSTANTS
  Address, Holder,
  Quarantine,        \* the holder of declined addresses
  Free               \* the holder of an address nobody holds: no Holder

VARIABLES owner, saved

tvars == <<owner, saved>>

TableInit ==
  /\ owner = [a \in Address |-> Free]
  /\ saved = owner

Take(a, h) ==
  /\ owner[a] = Free
  /\ owner' = [owner EXCEPT ![a] = h]
  /\ UNCHANGED saved

Give(a) ==
  /\ owner' = [owner EXCEPT ![a] = Free]
  /\ UNCHANGED saved

Confine(a) ==
  /\ owner[a] # Free
  /\ owner' = [owner EXCEPT ![a] = Quarantine]
  /\ UNCHANGED saved

Save ==
  /\ saved' = owner
  /\ UNCHANGED owner

Lose(kept) ==
  /\ \E image \in {owner, saved} :
       owner' = [a \in Address |-> IF a \in kept THEN image[a] ELSE Free]
  /\ saved' = owner'

TableNext ==
  \/ \E a \in Address :
       \/ \E h \in Holder \ {Quarantine} : Take(a, h)
       \/ Give(a)
       \/ Confine(a)
  \/ Save
  \/ \E kept \in SUBSET Address : Lose(kept)

TableSpec == TableInit /\ [][TableNext]_tvars
=============================================================================
