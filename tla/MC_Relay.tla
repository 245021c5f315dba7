----------------------------- MODULE MC_Relay -----------------------------
(***************************************************************************)
(* Networks of relays for TLC: a relay behind a relay, and two in a circle. *)
(***************************************************************************)
EXTENDS Relay, TLC

CONSTANTS c1, c2, c3, r1, r2, i0, i1, i2, i3, s1, s2, s3

FirstOf == (r1 :> i1) @@ (r2 :> i2)

\* r1 has a client at each of its links i1 and i3; at i1 there is also r2, with
\* a client behind it
Cascade == Restrict(
  (c1 :> {<<r2, i2>>}) @@ (c2 :> {<<r1, i3>>}) @@ (c3 :> {<<r1, i1>>})
    @@ (r1 :> {<<Server, i0>>}) @@ (r2 :> {<<r1, i1>>}),
  Nodes)

\* each relay is at a link of the other
Circle == Restrict(
  (c1 :> {<<r1, i3>>})
    @@ (r1 :> {<<Server, i0>>, <<r2, i2>>}) @@ (r2 :> {<<r1, i1>>}),
  Nodes)

ById   == (i0 :> NoSubnet) @@ (i1 :> s1) @@ (i2 :> s2) @@ (i3 :> s3)
ByLink == [p \in Ports |-> IF p[1] = Server THEN NoSubnet ELSE ById[p[2]]]
NoLinks == [p \in Ports |-> NoSubnet]
=============================================================================
