---------------------------- MODULE MC_ClntTimers ----------------------------
(***************************************************************************)
(* Clients with short leases and short retransmission times for TLC.       *)
(***************************************************************************)
EXTENDS ClntTimers

Apart    == [ia \in IA |-> ia]
\* Both on one interface (README, where a lease is lost early).
Together == [ia \in IA |-> 1]

\* T1 and T2 as the server says, and as the client chooses them (7 and 9)
Own     == [t1 |-> 4, t2 |-> 10, pref |-> 12, valid |-> 20]
Default == [t1 |-> 0, t2 |-> 0, pref |-> 14, valid |-> 16]
Both    == {Own, Default}
==============================================================================
