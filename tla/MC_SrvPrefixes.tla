-------------------------- MODULE MC_SrvPrefixes --------------------------
(***************************************************************************)
(* A small configuration of SrvPrefixes for TLC.                            *)
(***************************************************************************)
EXTENDS SrvPrefixes

CONSTANTS c1, c2, c3, p1, p2, p3

\* The first class has two prefixes and is closed to c2, the second has one in
\* each of two pools.  The reservation of c3 lies in the second; it is kept as it
\* was written, here with bits behind the delegated length.
TwoClasses    == (1 :> <<p1>>) @@ (2 :> <<p2, p3>>)
TwoAndOne     == (1 :> 2) @@ (2 :> 1)
FirstNotForC2 == (1 :> {c1, c3}) @@ (2 :> {c1, c2, c3})
ReservedForC3 == [c \in Clients |-> IF c = c3 THEN [pool |-> p2, net |-> 0, tail |-> 1]
                                    ELSE NoPrefix]
===========================================================================
