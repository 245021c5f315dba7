-------------------------- MODULE MC_SrvTemporary -------------------------
(***************************************************************************)
(* A small configuration of SrvTemporary for TLC.                           *)
(***************************************************************************)
EXTENDS SrvTemporary, TLC

CONSTANTS c1, c2, a1, a2

\* The first ta-class that supports c2 has the smaller pool
Pools == (c1 :> {a1, a2}) @@ (c2 :> {a1})
============================================================================
