---------------------------- MODULE SrvTemporary ---------------------------
(***************************************************************************)
(* Temporary addresses (IA_TA) in the dibbler server: the limits that       *)
(* TSrvOptTA::solicitRequest computes, the choice of an address, what is    *)
(* recorded of it, RELEASE, DECLINE, expiry and a restart, together with    *)
(* the addresses the clients believe to be theirs.                          *)
(*                                                                         *)
(* The other leases (IA_NA, IA_PD) share two limits with the temporary      *)
(* ones and are counted here, not told apart: "normal" leases are addresses *)
(* of the address class, "beside" it are prefixes and addresses reserved    *)
(* outside the pools.  SrvLeases and SrvPrefixes say which they are.  There *)
(* is one interface with one address class, whose pool does not overlap     *)
(* those of the ta-classes.  A SOLICIT that is answered by an ADVERTISE     *)
(* changes nothing: its address is drawn and not recorded, and to take it   *)
(* back (releaseAllAddrs) looks among the normal leases.                    *)
(***************************************************************************)
EXTENDS Integers, FiniteSets, Functions

CONSTANTS
  Clients,       \* clients that send messages (their DUIDs)
  IAIDs,         \* identifiers of the IA_TAs of a client
  Addrs,         \* the temporary addresses
  TaPool,        \* pool of the first ta-class that supports a client, {} if none does
  Supported,     \* clients the address class supports
  Exempt,        \* clients a reservation or a list of prefixes takes past the limit
  ClassMaxLease, \* class-max-lease of the address class
  IfaceMaxLease, \* iface-max-lease
  ClntMaxLease,  \* client-max-lease
  RapidCommit,   \* is rapid-commit on?
  ULong,         \* number of values of an unsigned long
  MaxOther,      \* BOUND on the normal leases, and on those beside of a client
  MaxRestarts    \* BOUND on restarts

ASSUME TemporaryAssumption ==
  /\ IsFiniteSet(Clients) /\ IsFiniteSet(IAIDs) /\ IsFiniteSet(Addrs)
  /\ TaPool \in [Clients -> SUBSET Addrs]
  /\ Supported \subseteq Clients /\ Exempt \subseteq Clients
  /\ {ClassMaxLease, IfaceMaxLease, ClntMaxLease, MaxOther, MaxRestarts} \subseteq Nat
  /\ RapidCommit \in BOOLEAN
  /\ ULong \in Nat /\ ULong > ClassMaxLease + ClntMaxLease

Temp == [clnt : Clients, iaid : IAIDs, addr : Addrs]

VARIABLES
  temps,     \* temporary leases in the database: a set of Temp
  ended,     \* those whose valid lifetime has run out
  used,      \* temporary addresses the clients hold: a set of Temp
  unrecorded, \* those of them the server did not record, or forgot at a restart
  normal,    \* number of normal leases of a client
  beside,    \* number of its leases beside the class
  restarts   \* restarts so far

others == <<normal, beside>>
vars   == <<temps, ended, used, unrecorded, others, restarts>>

Init ==
  /\ temps = {} /\ ended = {} /\ used = {} /\ unrecorded = {}
  /\ normal = [c \in Clients |-> 0] /\ beside = [c \in Clients |-> 0]
  /\ restarts = 0

-----------------------------------------------------------------------------
(* The limits                                                               *)

\* The difference of two unsigned longs
Minus(a, b) == IF a >= b THEN a - b ELSE ULong + a - b

\* AddrsAssigned of the address class: SrvLeases shows that it is exact while no
\* SOLICIT repeats an IAID, which is left out here
Assigned == FoldFunction(+, 0, normal)

getLeaseCount(c) ==
  normal[c] + Cardinality({t \in temps : t.clnt = c}) + beside[c]

\* What the address class has left for a client, cut at what the interface has
\* left; the latter is a difference of doubles, and a negative one becomes a
\* large number when it is returned
countAvailAddrs(c) ==
  LET free == Minus(ClassMaxLease, Assigned)
      left == IfaceMaxLease - Assigned
      n    == IF free > left THEN left ELSE free
  IN  IF c \notin Supported THEN 0 ELSE IF n < 0 THEN ULong + n ELSE n

\* FAULTY VARIANT of WillAssign: a client at its limit gets one more
WillAssign_OneMore(c) ==
  /\ getLeaseCount(c) <= ClntMaxLease
  /\ 1 <= countAvailAddrs(c)

\* willAssign, 1 unless one of the limits is below that
WillAssign(c) ==
  /\ 1 <= Minus(ClntMaxLease, getLeaseCount(c))
  /\ 1 <= countAvailAddrs(c)

\* FAULTY VARIANT of taAddrIsFree: only the first IA_TA of a client is looked at
taAddrIsFree_FirstTA(a) ==
  \A t \in temps : t.addr = a => \E u \in temps : u.clnt = t.clnt /\ u.iaid < t.iaid

\* Only temporary addresses are looked at, expired ones too
taAddrIsFree(a) == \A t \in temps : t.addr # a

\* One of the addresses a hundred draws can end at; when all of them fail the
\* client gets a status code and nothing changes
Drawn(c) == {a \in TaPool[c] : taAddrIsFree(a)}

-----------------------------------------------------------------------------
(* Messages with an IA_TA                                                   *)

\* A REQUEST takes a new address each time, whatever the IA_TA has.  The REPLY
\* may be lost; the client then sends its REQUEST again.
Request(c, i) ==
  /\ WillAssign(c)
  /\ \E a \in Drawn(c), arrives \in BOOLEAN :
       LET t == [clnt |-> c, iaid |-> i, addr |-> a] IN
       /\ temps' = temps \cup {t}
       /\ used' = IF arrives THEN used \cup {t} ELSE used
       /\ unrecorded' = unrecorded \ {t}
  /\ UNCHANGED <<ended, others, restarts>>

\* A SOLICIT that asks for rapid commit is answered by a REPLY, but only a
\* REQUEST has its address recorded
RapidSolicit(c, i) ==
  /\ RapidCommit
  /\ WillAssign(c)
  /\ \E a \in Drawn(c) :
       LET t == [clnt |-> c, iaid |-> i, addr |-> a] IN
       /\ used' = used \cup {t}
       /\ unrecorded' = unrecorded \cup {t}
  /\ UNCHANGED <<temps, ended, others, restarts>>

\* A client no longer uses some addresses
Forget(ts) == used' = used \ ts /\ unrecorded' = unrecorded \ ts

\* A client gives addresses of an IA_TA back; the RELEASE may be lost
Release(c, i) ==
  \E as \in SUBSET Addrs \ {{}}, arrives \in BOOLEAN :
    LET ts == {t \in used : t.clnt = c /\ t.iaid = i /\ t.addr \in as} IN
    /\ as = {t.addr : t \in ts}
    /\ Forget(ts)
    /\ temps' = IF arrives THEN temps \ ts ELSE temps
    /\ ended' = IF arrives THEN ended \ ts ELSE ended
    /\ UNCHANGED <<others, restarts>>

\* A DECLINE of temporary addresses is ignored
Decline(t) ==
  /\ t \in used
  /\ Forget({t})
  /\ UNCHANGED <<temps, ended, others, restarts>>

-----------------------------------------------------------------------------
(* The other leases                                                         *)

\* IA_NA: an address of the class, while the client is below its limit
AssignNormal(c) ==
  /\ c \in Supported
  /\ getLeaseCount(c) < ClntMaxLease
  /\ Assigned < ClassMaxLease /\ Assigned < MaxOther
  /\ normal' = [normal EXCEPT ![c] = @ + 1]
  /\ UNCHANGED <<temps, ended, used, unrecorded, beside, restarts>>

\* IA_PD: a prefix, while the client is below its limit
AssignPrefix(c) ==
  /\ getLeaseCount(c) < ClntMaxLease
  /\ beside[c] < MaxOther
  /\ beside' = [beside EXCEPT ![c] = @ + 1]
  /\ UNCHANGED <<temps, ended, used, unrecorded, normal, restarts>>

\* A fixed lease, in the pool of the class or beside it, and the further prefixes
\* of a list, whatever the limits are
AssignFixed(c) ==
  /\ c \in Exempt
  /\ \/ /\ Assigned < MaxOther
        /\ normal' = [normal EXCEPT ![c] = @ + 1]
        /\ UNCHANGED beside
     \/ /\ beside[c] < MaxOther
        /\ beside' = [beside EXCEPT ![c] = @ + 1]
        /\ UNCHANGED normal
  /\ UNCHANGED <<temps, ended, used, unrecorded, restarts>>

\* FAULTY VARIANT of EndOther: a release of a lease that was released already
EndOther_NoBinding(c) ==
  /\ normal' = [normal EXCEPT ![c] = @ - 1]
  /\ UNCHANGED <<temps, ended, used, unrecorded, beside, restarts>>

\* One of the other leases is released or expires
EndOther(c) ==
  /\ \/ /\ normal[c] > 0
        /\ normal' = [normal EXCEPT ![c] = @ - 1]
        /\ UNCHANGED beside
     \/ /\ beside[c] > 0
        /\ beside' = [beside EXCEPT ![c] = @ - 1]
        /\ UNCHANGED normal
  /\ UNCHANGED <<temps, ended, used, unrecorded, restarts>>

-----------------------------------------------------------------------------
(* Time and restarts                                                        *)

\* The valid lifetime of an address runs out, at the client and at the server
TimeOut(t) ==
  /\ t \in used \cup (temps \ ended)
  /\ Forget({t})
  /\ ended' = IF t \in temps THEN ended \cup {t} ELSE ended
  /\ UNCHANGED <<temps, others, restarts>>

\* FAULTY VARIANT of Ended: with one address the whole IA_TA ends
Ended_WholeIA(t) == \E u \in ended : u.clnt = t.clnt /\ u.iaid = t.iaid

\* FAULTY VARIANT of Ended: the greatest timeout of the IA_TA is looked at
Ended_Greatest(t) == \A u \in temps : u.clnt = t.clnt /\ u.iaid = t.iaid => u \in ended

\* doDuties: an IA_TA is looked at when the least of its timeouts is 0
Ended(t) == t \in ended

Duties ==
  /\ \E t \in temps : Ended(t)
  /\ temps' = {t \in temps : ~Ended(t)}
  /\ ended' = {t \in ended : ~Ended(t)}
  /\ UNCHANGED <<used, unrecorded, others, restarts>>

\* server-AddrMgr.xml holds all leases, but parseAddrTA skips the temporary ones
Restart ==
  /\ restarts < MaxRestarts
  /\ restarts' = restarts + 1
  /\ temps' = {} /\ ended' = {}
  /\ unrecorded' = used
  /\ UNCHANGED <<used, others>>

Next ==
  \/ \E c \in Clients, i \in IAIDs : Request(c, i) \/ RapidSolicit(c, i) \/ Release(c, i)
  \/ \E c \in Clients : AssignNormal(c) \/ AssignPrefix(c) \/ AssignFixed(c) \/ EndOther(c)
  \/ \E t \in Temp : Decline(t) \/ TimeOut(t)
  \/ Duties
  \/ Restart

\* Time passes for every lease, and the server's loop wakes up for one that ends
Fairness ==
  /\ \A t \in Temp : WF_vars(TimeOut(t))
  /\ WF_vars(Duties)

Spec == Init /\ [][Next]_vars /\ Fairness

-----------------------------------------------------------------------------
(* Properties                                                               *)

\* The variables have their types, no lease is given back that is not there, and
\* no expired address is forgotten before doDuties removes it.
TypeOK ==
  /\ temps \subseteq Temp /\ used \subseteq Temp /\ ended \subseteq temps
  /\ unrecorded \subseteq used
  /\ normal \in [Clients -> Nat] /\ beside \in [Clients -> Nat]
  /\ restarts \in 0..MaxRestarts

\* A temporary address that was recorded for a client that still uses it is in the
\* database and has not ended there, whatever messages are lost, repeated or
\* declined (TSrvOptTA::assignAddr).  RapidSolicit and Restart are the only ways
\* to use an address the server knows nothing of.
UsedIsLeased == used \ unrecorded \subseteq temps \ ended

\* No two IA_TAs use one address that was recorded for both of them
\* (SrvAddrMgr::taAddrIsFree), whoever asks, loses replies, declines or comes back
\* before the expired are removed, and whatever a restart forgets.
NotShared == \A t, u \in used \ unrecorded : t.addr = u.addr => t = u

\* IA_NA, IA_PD and IA_TA each look at client-max-lease with arithmetic of their
\* own (SrvOptTA.cpp:115 subtracts unsigned numbers): together they keep every
\* client that nothing takes past it at the limit, through losses and restarts.
ClientLimit == \A c \in Clients \ Exempt : getLeaseCount(c) <= ClntMaxLease

\* What a lost REPLY or RELEASE leaves behind in an IA_TA ends, however often the
\* client asks for more (SrvAddrMgr::doDuties).
LeftoversEnd == \A t \in Temp : (t \in temps) ~> (t \notin temps)

=============================================================================
