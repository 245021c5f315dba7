--------------------------- MODULE MC_SrvLeases ---------------------------
(***************************************************************************)
(* Small configurations of SrvLeases for TLC.  Clients, addresses and       *)
(* interfaces are model values; a configuration is a choice of the          *)
(* definitions below, made in a .cfg file.                                  *)
(***************************************************************************)
EXTENDS SrvLeases

CONSTANTS c1, c2, a1, a2, a3, i1, i2

\* A class on each of two interfaces, or two classes on one; a pool of one address each
TwoClassIface == (1 :> i1) @@ (2 :> i2)
BothClassesIface == (1 :> i1) @@ (2 :> i1)
OneEach   == (1 :> {a1}) @@ (2 :> {a2})

Limit(n)  == [k \in Classes |-> n]
LimitFive == Limit(5)
NoLists   == [k \in Classes |-> {}]
FirstClassForC2     == (1 :> {c2}) @@ (2 :> {})

\* Reservations: none; a3, outside the pools, for c1
NoExceptions == [x \in Ifaces \X Clients |-> NoAddr]
OutOfPool    == [NoExceptions EXCEPT ![<<i1, c1>>] = a3]

LeasesOne == [i \in Ifaces |-> 1]
LeasesTwo == [i \in Ifaces |-> 2]
Rapid     == [i \in Ifaces |-> TRUE]
NotRapid  == [i \in Ifaces |-> FALSE]

=============================================================================
