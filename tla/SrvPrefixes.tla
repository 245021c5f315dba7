---------------------------- MODULE SrvPrefixes ----------------------------
(***************************************************************************)
(* Prefix delegation in the dibbler server: the prefixes of the lease       *)
(* database, the counter of a pd-class (TSrvCfgPD), the choice of a prefix  *)
(* for an IA_PD (TSrvOptIA_PD), RENEW and RELEASE, the release of what an   *)
(* ADVERTISE offers, expiry, the dump and a restart.                        *)
(*                                                                         *)
(* A delegated prefix is stored as an address, and two leases are compared  *)
(* as addresses: besides the number of the prefix within its pool a prefix  *)
(* here has a tail, the bits behind the delegated length, 0 when they are   *)
(* clear.  A prefix in the cache is used exactly as a hint of the client    *)
(* would be, so the cache is one of the hints a client may send.  There is  *)
(* one interface.  REBIND, CONFIRM and DECLINE change no prefix.            *)
(***************************************************************************)
EXTENDS Integers, FiniteSets, SequencesExt

CONSTANTS
  Clients,       \* clients that send messages (their DUIDs)
  IAIDs,         \* identifiers of the IA_PDs of a client
  Classes,       \* pd-classes, numbered in configuration order
  PoolIds,       \* the prefix pools
  Pools,         \* the pools of a class, in order
  Size,          \* number of prefixes in each pool of a class, a power of two
  Tails,         \* values of the bits behind the delegated length
  Supported,     \* clients the allow and deny lists of a class let in
  Exception,     \* the prefix reserved for a client, or NoPrefix
  NoPrefix,      \* "no prefix": a null pointer, or the hint ::
  ClntMaxLease,  \* client-max-lease
  ULong,         \* number of values of an unsigned long
  MaxOptions,    \* BOUND on the IA_PD options of a message
  MaxRestarts    \* BOUND on crashes and restarts

NoClass == 0

Nets   == UNION {0..(Size[k] - 1) : k \in Classes}
Prefix == [pool : PoolIds, net : Nets, tail : Tails]

ASSUME PrefixAssumption ==
  /\ IsFiniteSet(Clients) /\ IsFiniteSet(IAIDs) /\ IsFiniteSet(Tails)
  /\ IsFiniteSet(PoolIds) /\ IsFiniteSet(Classes)
  /\ Classes \subseteq Nat \ {NoClass} /\ Classes # {}
  /\ Pools \in [Classes -> Seq(PoolIds) \ {<<>>}]
  /\ Size \in [Classes -> Nat \ {0}]
  /\ 0 \in Tails
  /\ Supported \in [Classes -> SUBSET Clients]
  /\ Exception \in [Clients -> Prefix \cup {NoPrefix}]
  /\ NoPrefix \notin Prefix
  /\ ClntMaxLease \in Nat /\ MaxOptions \in Nat /\ MaxRestarts \in Nat
  /\ ULong \in Nat \ {0}

Lease  == [clnt : Clients, iaid : IAIDs, pfx : Prefix]
NoMsg  == [type |-> "none"]
Message == [type : {"solicit", "request", "renew", "release"}, clnt : Clients]
Phases == {"select", "process", "dump", "spin"}

\* A prefix of an ADVERTISE: it stands in one of its IA_PD options
Offer == [option : 1..MaxOptions, lease : Lease]

VARIABLES
  leases,    \* the prefixes in the lease database: a set of Lease
  expired,   \* those whose valid lifetime has run out
  assigned,  \* number of prefixes a class counts as assigned
  disk,      \* the leases in server-AddrMgr.xml
  phase,     \* what the server's thread is doing
  msg,       \* the message being processed, NoMsg if none is
  options,   \* how many of its IA_PD options are processed
  offered,   \* the prefixes an ADVERTISE will give back: a set of Offer
  repeated,  \* HISTORY: since start-up a SOLICIT asked twice for one IA_PD
  restarts   \* crashes and restarts so far

jobVars == <<phase, msg, options, offered>>
vars    == <<leases, expired, assigned, disk, jobVars, repeated, restarts>>

-----------------------------------------------------------------------------
(* Configuration                                                            *)

PoolsOf(k) == {Pools[k][j] : j \in DOMAIN Pools[k]}

\* The class of a prefix; the prefixes of other pools are not counted
getClassByPrefix(p) ==
  LET found == {k \in Classes : p.pool \in PoolsOf(k) /\ p.net < Size[k]}
  IN  IF found = {} THEN NoClass ELSE Min(found)

FirstClass == Min(Classes)

prefixReserved(p) == \E c \in Clients : Exception[c] = p
checkReservedPrefix(p, c) == \E d \in Clients \ {c} : Exception[d] = p

truncate(p) == [p EXCEPT !.tail = 0]

\* The number of leases in L that count for class k
CountIn(L, k) == Cardinality({l \in L : getClassByPrefix(l.pfx) = k})

incrAssigned(L) == [k \in Classes |-> (assigned[k] + CountIn(L, k)) % ULong]
decrAssigned(L) == [k \in Classes |-> (assigned[k] - CountIn(L, k)) % ULong]

\* The counters after an ADVERTISE: one less for each prefix in each option
decrOffered ==
  [k \in Classes |->
     (assigned[k] - Cardinality({o \in offered : getClassByPrefix(o.lease.pfx) = k})) % ULong]

\* The counters of a server that starts with the leases L
setCounters(L) == [k \in Classes |-> CountIn(L, k) % ULong]

-----------------------------------------------------------------------------
(* The lease database                                                       *)

IA(c, iaid) == {l \in leases : l.clnt = c /\ l.iaid = iaid}

\* FAULTY VARIANT of prefixIsFree: an expired lease is not seen any more
prefixIsFree_Unexpired(p) == \A l \in leases \ expired : l.pfx # p

prefixIsFree(p) == \A l \in leases : l.pfx # p

getLeaseCount(c) == Cardinality({l \in leases : l.clnt = c})

Init ==
  /\ leases = {} /\ expired = {} /\ disk = {}
  /\ assigned = [k \in Classes |-> 0]
  /\ phase = "select" /\ msg = NoMsg /\ options = 0 /\ offered = {}
  /\ repeated = FALSE /\ restarts = 0

-----------------------------------------------------------------------------
(* One message                                                              *)

Receive(t, c) ==
  /\ phase = "select"
  /\ phase' = "process"
  /\ msg' = [type |-> t, clnt |-> c]
  /\ UNCHANGED <<leases, expired, assigned, disk, options, offered, repeated, restarts>>

Advertised == {o.lease : o \in offered}

\* FAULTY VARIANT of Answer: an offer leaves the database but not the counter
Answer_KeepCount ==
  /\ phase = "process"
  /\ leases' = leases \ Advertised
  /\ expired' = expired \ Advertised
  /\ phase' = "dump" /\ msg' = NoMsg /\ options' = 0 /\ offered' = {}
  /\ UNCHANGED <<assigned, disk, repeated, restarts>>

\* All IA_PDs are processed.  An ADVERTISE gives back every prefix in it, those
\* of a lease that was there before among them, and lowers the counter once for
\* each option it stands in, without asking whether it is still leased
\* (releaseAllPrefixes).  A REPLY offers nothing.
Answer ==
  /\ phase = "process"
  /\ leases' = leases \ Advertised
  /\ expired' = expired \ Advertised
  /\ assigned' = decrOffered
  /\ phase' = "dump" /\ msg' = NoMsg /\ options' = 0 /\ offered' = {}
  /\ UNCHANGED <<disk, repeated, restarts>>

Dump ==
  /\ phase = "dump"
  /\ disk' = leases
  /\ phase' = "select"
  /\ UNCHANGED <<leases, expired, assigned, msg, options, offered, repeated, restarts>>

-----------------------------------------------------------------------------
(* SOLICIT and REQUEST: one IA_PD option                                    *)

\* The next IA_PD option of a message of one of these types.  Nothing keeps two
\* options from having the same IAID.
NextOption(types) == phase = "process" /\ msg.type \in types /\ options < MaxOptions

Assigning == NextOption({"solicit", "request"})

\* The leases L stand in the answer to this option, an ADVERTISE gives them back.
offer(L) ==
  /\ options' = options + 1
  /\ offered' = IF msg.type = "solicit"
                THEN offered \cup {[option |-> options + 1, lease |-> l] : l \in L}
                ELSE offered

\* The prefixes P go into the client's IA_PD, into the counters, also for an
\* offer, and into the answer.
assign(iaid, P) ==
  LET new == {[clnt |-> msg.clnt, iaid |-> iaid, pfx |-> p] : p \in P} IN
  /\ leases' = leases \cup new
  /\ assigned' = incrAssigned(new)
  /\ offer(new)
  /\ UNCHANGED <<expired, disk, phase, msg, repeated, restarts>>

\* Step 3: what the IA_PD has is sent again, even if an option before this one
\* put it there
existingLease(iaid) ==
  /\ Assigning /\ IA(msg.clnt, iaid) # {}
  /\ offer(IA(msg.clnt, iaid))
  /\ repeated' = (repeated \/ IA(msg.clnt, iaid) \cap Advertised # {})
  /\ UNCHANGED <<leases, expired, assigned, disk, phase, msg, restarts>>

\* Step 4: a reserved prefix is leased whether or not it is leased already
assignFixedLease(iaid) ==
  /\ Assigning /\ IA(msg.clnt, iaid) = {}
  /\ Exception[msg.clnt] # NoPrefix
  /\ assign(iaid, {Exception[msg.clnt]})

\* FAULTY VARIANT of AtClntMaxLease: one lease too many
AtClntMaxLease_OneMore == getLeaseCount(msg.clnt) > ClntMaxLease

AtClntMaxLease == getLeaseCount(msg.clnt) >= ClntMaxLease

\* Only the counter of the first class is looked at
Exhausted == assigned[FirstClass] >= Size[FirstClass]

\* The hint is in a class open to the client and not reserved for another client
HintUsable(hint) ==
  /\ hint # NoPrefix
  /\ getClassByPrefix(hint) # NoClass
  /\ msg.clnt \in Supported[getClassByPrefix(hint)]
  /\ ~checkReservedPrefix(truncate(hint), msg.clnt)

\* Case 2: the hint, cut to the delegated length, is free
assignHint(iaid, hint) ==
  /\ HintUsable(hint) /\ prefixIsFree(truncate(hint))
  /\ assign(iaid, {truncate(hint)})

\* What getRandomPrefix draws from the first pool of class k: an address
Drawn(k) == {p \in Prefix : p.pool = Head(Pools[k]) /\ p.net < Size[k]}

HintUsed(hint) == HintUsable(hint) /\ ~prefixIsFree(truncate(hint))

\* Case 3: the hint is used.  Addresses of the pool are drawn until one is not
\* leased; they are not cut to the delegated length.
assignOther(iaid, hint) ==
  /\ HintUsed(hint)
  /\ \E p \in Drawn(getClassByPrefix(hint)) : prefixIsFree(p) /\ assign(iaid, {p})

\* ... the search never ends when there is none.
searchSpins(hint) ==
  /\ HintUsed(hint)
  /\ \A p \in Drawn(getClassByPrefix(hint)) : ~prefixIsFree(p)
  /\ phase' = "spin"
  /\ UNCHANGED <<leases, expired, assigned, disk, msg, options, offered, repeated, restarts>>

\* The common part is cut one bit too far on the left, so that the upper half of
\* a pool is never drawn; the last prefix of the class is not drawn at all.
getRandomNet(k) ==
  LET top == IF Size[k] = 1 THEN 0 ELSE Size[k] \div 2 - 1
  IN  IF assigned[k] + 1 = Size[k] THEN {top} ELSE 0..top

\* One prefix of each pool, all with the same number
getRandomList(k, n) == {[pool |-> q, net |-> n, tail |-> 0] : q \in PoolsOf(k)}

AllFree(P) == \A p \in P : prefixIsFree(p) /\ ~prefixReserved(p)

\* The first class open to the client, NoClass if there is none
RandomClass ==
  LET open == {k \in Classes : msg.clnt \in Supported[k]}
  IN  IF open = {} THEN NoClass ELSE Min(open)

\* Cases 1 and 4: a list drawn from the first class open to the client
assignRandom(iaid, hint) ==
  /\ ~HintUsable(hint) /\ RandomClass # NoClass
  /\ \E n \in getRandomNet(RandomClass) :
       /\ AllFree(getRandomList(RandomClass, n))
       /\ assign(iaid, getRandomList(RandomClass, n))

\* No class for the client, or a hundred attempts that all met a prefix in use
findNothing(hint) ==
  /\ ~HintUsable(hint)
  /\ \/ RandomClass = NoClass
     \/ \E n \in getRandomNet(RandomClass) : ~AllFree(getRandomList(RandomClass, n))
  /\ options' = options + 1
  /\ UNCHANGED <<leases, expired, assigned, disk, phase, msg, offered, repeated, restarts>>

\* Steps 5 to 8 are reached: every choice of a prefix looks at the hint
getFreePrefixes(iaid) ==
  /\ Assigning /\ IA(msg.clnt, iaid) = {}
  /\ Exception[msg.clnt] = NoPrefix
  /\ ~AtClntMaxLease /\ ~Exhausted
  /\ \E hint \in Prefix \cup {NoPrefix} :
       \/ assignHint(iaid, hint)
       \/ assignOther(iaid, hint)
       \/ searchSpins(hint)
       \/ assignRandom(iaid, hint)
       \/ findNothing(hint)

\* The limit, or an exhausted class: the hint is not looked at
refuse(iaid) ==
  /\ Assigning /\ IA(msg.clnt, iaid) = {}
  /\ Exception[msg.clnt] = NoPrefix
  /\ AtClntMaxLease \/ Exhausted
  /\ options' = options + 1
  /\ UNCHANGED <<leases, expired, assigned, disk, phase, msg, offered, repeated, restarts>>

solicitRequest(iaid) ==
  \/ existingLease(iaid)
  \/ assignFixedLease(iaid)
  \/ getFreePrefixes(iaid)
  \/ refuse(iaid)

-----------------------------------------------------------------------------
(* RENEW, RELEASE, expiry, restart                                          *)

renew(iaid) ==
  /\ NextOption({"renew"})
  /\ expired' = expired \ IA(msg.clnt, iaid)
  /\ options' = options + 1
  /\ UNCHANGED <<leases, assigned, disk, phase, msg, offered, repeated, restarts>>

\* Of the prefixes P the client names, those of its IA_PD are removed
release(iaid, P) ==
  /\ NextOption({"release"})
  /\ LET gone == {l \in IA(msg.clnt, iaid) : l.pfx \in P} IN
     /\ leases' = leases \ gone
     /\ expired' = expired \ gone
     /\ assigned' = decrAssigned(gone)
  /\ options' = options + 1
  /\ UNCHANGED <<disk, phase, msg, offered, repeated, restarts>>

Expire(l) ==
  /\ phase = "select" /\ l \in leases \ expired
  /\ expired' = expired \cup {l}
  /\ UNCHANGED <<leases, assigned, disk, jobVars, repeated, restarts>>

\* FAULTY VARIANT of Duties: what expired is removed and stays on the list
Duties_KeepExpired ==
  /\ phase = "select" /\ expired # {}
  /\ leases' = leases \ expired
  /\ assigned' = decrAssigned(expired)
  /\ phase' = "dump"
  /\ UNCHANGED <<expired, disk, msg, options, offered, repeated, restarts>>

\* doDuties collects the expired leases, removeExpired removes and dumps them
Duties ==
  /\ phase = "select" /\ expired # {}
  /\ leases' = leases \ expired
  /\ assigned' = decrAssigned(expired)
  /\ expired' = {}
  /\ phase' = "dump"
  /\ UNCHANGED <<disk, msg, options, offered, repeated, restarts>>

\* The server stops anywhere and starts again from its file, which a dump may
\* have left cut; timestamps are read with another clock than they were taken.
Restart ==
  /\ restarts < MaxRestarts
  /\ \E L \in IF phase = "dump" THEN (SUBSET leases) \cup {disk} ELSE {disk} :
       /\ leases' = L
       /\ assigned' = setCounters(L)
       /\ disk' = L
       /\ expired' \in SUBSET L
  /\ phase' = "select" /\ msg' = NoMsg /\ options' = 0 /\ offered' = {}
  /\ repeated' = FALSE /\ restarts' = restarts + 1

Next ==
  \/ \E t \in {"solicit", "request", "renew", "release"}, c \in Clients : Receive(t, c)
  \/ \E iaid \in IAIDs : \/ solicitRequest(iaid)
                         \/ renew(iaid)
                         \/ \E P \in SUBSET {l.pfx : l \in leases} : release(iaid, P)
  \/ Answer \/ Dump
  \/ \E l \in leases : Expire(l)
  \/ Duties \/ Restart

Spec == Init /\ [][Next]_vars

-----------------------------------------------------------------------------
(* Properties                                                               *)

TypeOK ==
  /\ leases \subseteq Lease /\ expired \subseteq leases
  /\ assigned \in [Classes -> 0..(ULong - 1)]
  /\ disk \subseteq Lease
  /\ phase \in Phases
  /\ msg \in Message \cup {NoMsg}
  /\ phase \in {"process", "spin"} <=> msg # NoMsg
  /\ options \in 0..MaxOptions
  /\ offered \subseteq Offer /\ Advertised \subseteq leases
  /\ repeated \in BOOLEAN
  /\ restarts \in 0..MaxRestarts

\* An address is delegated once, whatever mixture of hints, draws, offers given
\* back, expiry and restarts came before; only a reserved prefix is leased to its
\* client without asking who else has it (TSrvOptIA_PD::getFreePrefixes).  So two
\* leases overlap only where one of them was drawn beside a used hint.
NotTwice ==
  \A l, m \in leases : l.pfx = m.pfx /\ l # m => prefixReserved(l.pfx)

\* A class counts exactly the prefixes leased from its pools, until a SOLICIT has
\* two IA_PDs of one IAID: each prefix was counted once, on whatever path it was
\* leased, and is counted back once, on whatever path it goes (incrPrefixCount,
\* decrPrefixCount, setCounters).  Both IA_PDs of such a SOLICIT have the same
\* prefixes, which are counted back twice; the next start-up puts that right.
CountersExact == ~repeated => assigned = setCounters(leases)

\* A client without a reservation holds no more prefixes than the limit and the
\* rest of the last list granted, over all its IA_PDs (step 5 of solicitRequest).
ClientLimit ==
  \A c \in Clients : Exception[c] = NoPrefix /\ ClntMaxLease > 0 =>
    \E k \in Classes : getLeaseCount(c) <= ClntMaxLease + Len(Pools[k]) - 1

\* While a message is processed and answered no other client's lease changes.
OthersUntouched ==
  [][phase = "process" /\ restarts' = restarts =>
       \A l \in leases \cup leases' :
         l.clnt # msg.clnt => l \in leases /\ l \in leases']_vars

=============================================================================
