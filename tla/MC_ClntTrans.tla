---------------------------- MODULE MC_ClntTrans ----------------------------
(* Instances of ClntTrans: one or two IAs, on one or two interfaces. *)
EXTENDS ClntTrans

OneEach == [ia \in IA |-> ia]        \* interface 1 has IA 1, interface 2 IA 2
\* Both on interface 1 (README, what one IA does not show).
Together == [ia \in IA |-> 1]
Everywhere == [s \in Server |-> Iface]
\* Each interface has a server of its own.
Apart == [s \in Server |-> IF s = "s1" THEN {1} ELSE {2}]
\* Only the first server's ADVERTISE ends the waiting.
Preferences == [s \in Server |-> IF s = "s1" THEN 255 ELSE 0]
=============================================================================
