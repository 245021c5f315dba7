----------------------------- MODULE SrvLeases -----------------------------
(***************************************************************************)
(* The address-lease core of the dibbler server: the lease database        *)
(* (TSrvAddrMgr), the pool usage counters (TSrvCfgAddrClass), the address   *)
(* cache, the lease assignment policy of an IA_NA (TSrvOptIA_NA), the       *)
(* handlers of the messages that create, refresh, move and remove leases    *)
(* (TSrvMsgAdvertise, TSrvMsgReply), expiry (TSrvTransMgr::doDuties), and   *)
(* what the two database files hold when the process stops at any point     *)
(* and starts again (TDHCPServer).                                          *)
(*                                                                         *)
(* The server is one thread around select(): a message is handled to its   *)
(* end before the next one is read.  The model splits a handler into steps  *)
(* (one IA or one address each) because a crash may fall between the        *)
(* answer and the database dump, and inside the dump.  The content of a     *)
(* message is chosen while it is read, one IA option at a time.             *)
(***************************************************************************)
EXTENDS Integers, FiniteSets, SequencesExt

CONSTANTS
  Clients,          \* clients that send messages (their DUIDs)
  Declined,         \* the dummy client "X" that holds declined addresses
  IAIDs,            \* identifiers of the clients' IAs; the dummy uses IAID 0
  Addrs,            \* addresses: those of the pools and of the reservations
  Ifaces,           \* configured interfaces
  Classes,          \* address classes, numbered in configuration order
  ClassIface,       \* the interface a class is configured on
  Pool,             \* the addresses of a class
  ClassMaxLease,    \* class-max-lease, as configured
  AcceptClnt,       \* white-list of a class (empty: no white-list)
  RejedClnt,        \* black-list of a class
  Exception,        \* address reserved for a client on an interface, or NoAddr
  NoAddr,           \* "no address": a null pointer in the code
  ClntMaxLease,     \* client-max-lease of an interface
  RapidCommit,      \* rapid-commit of an interface
  CacheMaxSize,     \* number of entries the address cache may hold
  PerformanceMode,  \* performance-mode: dump() writes nothing
  ULong,            \* number of values of an unsigned long
  MaxOptions,       \* BOUND on the IA options of a message
  MaxAssigned,      \* BOUND on the counters: a message that may raise one
                    \* arrives only while all are below it, or have just
                    \* wrapped below zero
  MaxRestarts       \* BOUND on crashes and restarts

NoClass == 0

ASSUME ClientsAssumption ==
  /\ Declined \notin Clients
  /\ IsFiniteSet(Clients) /\ IsFiniteSet(IAIDs) /\ 0 \in IAIDs
  /\ NoAddr \notin Addrs /\ IsFiniteSet(Addrs)
  /\ MaxOptions \in Nat /\ MaxAssigned \in Nat /\ MaxRestarts \in Nat

ASSUME ConfigAssumption ==
  /\ Classes \subseteq Nat \ {NoClass} /\ IsFiniteSet(Classes)
  /\ IsFiniteSet(Ifaces)
  /\ ClassIface \in [Classes -> Ifaces]
  /\ Pool \in [Classes -> SUBSET Addrs]
  /\ ClassMaxLease \in [Classes -> Nat]
  /\ AcceptClnt \in [Classes -> SUBSET Clients]
  /\ RejedClnt \in [Classes -> SUBSET Clients]
  /\ Exception \in [Ifaces \X Clients -> Addrs \cup {NoAddr}]
  /\ ClntMaxLease \in [Ifaces -> Nat]
  /\ RapidCommit \in [Ifaces -> BOOLEAN]
  /\ CacheMaxSize \in Nat
  /\ PerformanceMode \in BOOLEAN
  /\ ULong \in Nat \ {0}

AllClients == Clients \cup {Declined}

\* An address in an IA of a client.  The interface is the one the IA was
\* created with; an IA, and a client, exist only while they hold an address.
Lease == [clnt : AllClients, iaid : IAIDs, addr : Addrs, iface : Ifaces]

CacheEntry == [clnt : AllClients, addr : Addrs]

MsgTypes == {"solicit", "rapid", "request", "confirm", "renew", "rebind",
             "decline", "release"}

Message == [type : MsgTypes, clnt : Clients, iface : Ifaces]

NoMsg == [type |-> "none"]

Phases == {"select", "process", "release", "spin", "dumpDb", "dumpCache",
           "duties"}

VARIABLES
  leases,    \* the lease database: a set of Lease
  expired,   \* those of its leases whose valid lifetime has run out
  cache,     \* the address cache, oldest entry first
  assigned,  \* number of addresses a class counts as assigned
  disk,      \* what server-AddrMgr.xml and server-cache.xml hold
  phase,     \* what the server's thread is doing
  msg,       \* the message being processed, NoMsg if none is
  options,   \* how many of its IA options are processed
  todo,      \* a bag: the releases still to be made before this round ends
  repeated,  \* HISTORY: since start-up a SOLICIT asked twice for one IA
  restarts   \* crashes and restarts so far

dbVars  == <<leases, expired, cache, assigned>>
jobVars == <<phase, msg, options, todo>>
vars    == <<dbVars, jobVars, repeated, disk, restarts>>

-----------------------------------------------------------------------------
(* Configuration: classes, reservations, access lists                       *)

Reserved == {Exception[x] : x \in Ifaces \X Clients} \ {NoAddr}

getClassByAddr(i, a) ==
  LET found == {k \in Classes : ClassIface[k] = i /\ a \in Pool[k]}
  IN  IF found = {} THEN NoClass ELSE Min(found)

\* class-max-lease, cut to the size of the pool when the class is set up
getClassMaxLease(k) ==
  IF ClassMaxLease[k] > Cardinality(Pool[k])
  THEN Cardinality(Pool[k])
  ELSE ClassMaxLease[k]

clntSupported(k, c) ==
  /\ c \notin RejedClnt[k]
  /\ AcceptClnt[k] = {} \/ c \in AcceptClnt[k]

clntPrefered(k, c) == c \notin RejedClnt[k] /\ c \in AcceptClnt[k]

\* FAULTY VARIANT of hasRoom: one lease too many
hasRoom_OneMore(k) == assigned[k] <= getClassMaxLease(k)

hasRoom(k) == assigned[k] < getClassMaxLease(k)

\* TSrvCfgIface::getRandomClass: the first class whose white-list names the
\* client, even a full one; without such a class any that supports the
\* client and has room
getRandomClass(i, c) ==
  LET ofIface   == {k \in Classes : ClassIface[k] = i}
      preferred == {k \in ofIface : clntPrefered(k, c)}
  IN  IF preferred # {}
      THEN {Min(preferred)}
      ELSE {k \in ofIface : clntSupported(k, c) /\ hasRoom(k)}

\* The counters after address a was assigned, or given back, on interface i.
\* An address outside the interface's pools is not counted.
incrAssigned(i, a) ==
  [k \in Classes |-> IF k = getClassByAddr(i, a)
                     THEN (assigned[k] + 1) % ULong
                     ELSE assigned[k]]

decrAssigned(i, a) ==
  [k \in Classes |-> IF k = getClassByAddr(i, a)
                     THEN (assigned[k] - 1) % ULong
                     ELSE assigned[k]]

\* FAULTY VARIANT of setCounters: the dummy client's leases forgotten
setCounters_Clients(L) ==
  [k \in Classes |->
     Cardinality({l \in L : /\ l.clnt # Declined
                            /\ getClassByAddr(l.iface, l.addr) = k}) % ULong]

\* The counters of a server that starts with the leases L
setCounters(L) ==
  [k \in Classes |->
     Cardinality({l \in L : getClassByAddr(l.iface, l.addr) = k}) % ULong]

-----------------------------------------------------------------------------
(* The address cache (a list searched from its oldest entry)                *)

EntriesOf(s, c) == {i \in DOMAIN s : s[i].clnt = c}
EntriesFor(s, a) == {i \in DOMAIN s : s[i].addr = a}

delFirst(s, found) == IF found = {} THEN s ELSE RemoveAt(s, Min(found))

checkCacheSize(s) ==
  IF Len(s) > CacheMaxSize
  THEN SubSeq(s, Len(s) - CacheMaxSize + 1, Len(s))
  ELSE s

\* FAULTY VARIANT of addCachedEntry: the client's old entry stays
addCachedEntry_KeepOld(s, c, a) ==
  IF CacheMaxSize = 0 \/ a \in Reserved
  THEN s
  ELSE checkCacheSize(Append(s, [clnt |-> c, addr |-> a]))

addCachedEntry(s, c, a) ==
  IF CacheMaxSize = 0 \/ a \in Reserved
  THEN s
  ELSE checkCacheSize(Append(delFirst(s, EntriesOf(s, c)),
                             [clnt |-> c, addr |-> a]))

getCachedEntry(c) ==
  LET found == EntriesOf(cache, c)
  IN  IF CacheMaxSize = 0 \/ found = {} THEN NoAddr ELSE cache[Min(found)].addr

-----------------------------------------------------------------------------
(* The lease database                                                       *)

IA(L, c, iaid) == {l \in L : l.clnt = c /\ l.iaid = iaid}

\* FAULTY VARIANT of addrIsFree: declined addresses count as free
addrIsFree_Declined(a) == \A l \in leases : l.addr = a => l.clnt = Declined

addrIsFree(a) == \A l \in leases : l.addr # a

getLeaseCount(c) == Cardinality({l \in leases : l.clnt = c})

\* An IA that exists keeps its interface; adding an address it already has
\* changes nothing.
addClntAddr(L, c, i, iaid, a) ==
  LET ia == IA(L, c, iaid)
      if == IF ia = {} THEN i ELSE (CHOOSE l \in ia : TRUE).iface
  IN  IF \E l \in ia : l.addr = a
      THEN L
      ELSE L \cup {[clnt |-> c, iaid |-> iaid, addr |-> a, iface |-> if]}

\* FAULTY VARIANT of delClntAddr: a lease that ends stays on the expiry list
delClntAddr_StillExpired(l) ==
  /\ leases' = leases \ {l}
  /\ cache' = IF l \in leases THEN addCachedEntry(cache, l.clnt, l.addr)
                              ELSE cache
  /\ UNCHANGED expired

\* TSrvAddrMgr::delClntAddr of lease l: the address is remembered in the cache
delClntAddr(l) ==
  /\ leases' = leases \ {l}
  /\ expired' = expired \ {l}
  /\ cache' = IF l \in leases THEN addCachedEntry(cache, l.clnt, l.addr)
                              ELSE cache

Init ==
  /\ leases = {} /\ expired = {} /\ cache = <<>>
  /\ assigned = [k \in Classes |-> 0]
  /\ disk = [leases |-> {}, expired |-> {}, cache |-> <<>>]
  /\ phase = "duties" /\ msg = NoMsg /\ options = 0 /\ todo = EmptyBag
  /\ repeated = FALSE /\ restarts = 0

-----------------------------------------------------------------------------
(* The main loop: duties, select, one message                               *)

\* The valid lifetime of a lease runs out while the server waits.
Expire(l) ==
  /\ phase = "select"
  /\ l \in leases \ expired
  /\ expired' = expired \cup {l}
  /\ UNCHANGED <<leases, cache, assigned, jobVars, repeated, disk, restarts>>

\* select() timed out because a lease has expired
Timeout ==
  /\ phase = "select" /\ expired # {}
  /\ phase' = "duties"
  /\ UNCHANGED <<dbVars, msg, options, todo, repeated, disk, restarts>>

\* A message that passed check(), the interface and the access-list tests
Receive(t, c, i) ==
  /\ phase = "select"
  /\ t \in {"solicit", "rapid", "request"} =>
       \A k \in Classes : assigned[k] \notin MaxAssigned .. ULong - 2
  /\ phase' = "process"
  /\ msg' = [type |-> t, clnt |-> c, iface |-> i]
  /\ UNCHANGED <<dbVars, options, todo, repeated, disk, restarts>>

Processing(types) == phase = "process" /\ msg.type \in types

\* SOLICIT is answered with ADVERTISE, unless both sides want rapid commit.
Advertising ==
  \/ msg.type = "solicit"
  \/ msg.type = "rapid" /\ ~RapidCommit[msg.iface]

\* FAULTY VARIANT of Answer: no dump after a REPLY
Answer_NoDump ==
  /\ phase = "process"
  /\ options' = 0
  /\ IF Advertising
     THEN phase' = "release" /\ UNCHANGED msg
     ELSE phase' = "duties" /\ msg' = NoMsg
  /\ UNCHANGED <<dbVars, todo, repeated, disk, restarts>>

\* All IAs are processed: the answer is sent.  An ADVERTISE first gives back
\* every address it offers.
Answer ==
  /\ phase = "process"
  /\ options' = 0
  /\ IF Advertising
     THEN phase' = "release" /\ UNCHANGED msg
     ELSE phase' = "dumpDb" /\ msg' = NoMsg
  /\ UNCHANGED <<dbVars, todo, repeated, disk, restarts>>

\* FAULTY VARIANT of Duties: expired leases of the dummy client are not collected
Duties_SkipDeclined ==
  /\ phase = "duties"
  /\ todo' = SetToBag({l \in expired : l.clnt # Declined})
  /\ phase' = IF expired = {} THEN "select" ELSE "release"
  /\ UNCHANGED <<dbVars, msg, options, repeated, disk, restarts>>

\* doDuties collects the expired leases, removeExpired removes them
Duties ==
  /\ phase = "duties"
  /\ todo' = SetToBag(expired)
  /\ phase' = IF expired = {} THEN "select" ELSE "release"
  /\ UNCHANGED <<dbVars, msg, options, repeated, disk, restarts>>

\* One address of an ADVERTISE (counted on the interface of the message) or
\* one expired address (counted on the interface of its IA) is released.  Its
\* class counts one less even if the database does not hold it any more.
ReleaseOne(l) ==
  /\ phase = "release" /\ l \in BagToSet(todo)
  /\ delClntAddr(l)
  /\ assigned' = decrAssigned(IF msg = NoMsg THEN l.iface ELSE msg.iface, l.addr)
  /\ todo' = todo (-) SetToBag({l})
  /\ UNCHANGED <<phase, msg, options, repeated, disk, restarts>>

ReleaseDone ==
  /\ phase = "release" /\ todo = EmptyBag
  /\ phase' = "dumpDb" /\ msg' = NoMsg
  /\ UNCHANGED <<dbVars, options, todo, repeated, disk, restarts>>

-----------------------------------------------------------------------------
(* SOLICIT and REQUEST: the lease assignment policy of one IA option        *)

\* The next IA option of a message of one of these types.  Nothing keeps two
\* options from having the same IAID.
NextOption(types) == Processing(types) /\ options < MaxOptions

Assigning == NextOption({"solicit", "rapid", "request"})

\* FAULTY VARIANT of Binding: an expired lease is not seen any more
Binding_Unexpired(iaid) == IA(leases, msg.clnt, iaid) \ expired

Binding(iaid) == IA(leases, msg.clnt, iaid)
ReservedAddr  == Exception[<<msg.iface, msg.clnt>>]

\* Address a goes into the client's IA, and into the answer.
assignAddr(iaid, a) ==
  /\ leases' = addClntAddr(leases, msg.clnt, msg.iface, iaid, a)
  /\ assigned' = incrAssigned(msg.iface, a)
  /\ options' = options + 1
  /\ todo' = IF Advertising
             THEN todo (+) SetToBag({l \in IA(leases', msg.clnt, iaid) : l.addr = a})
             ELSE todo
  /\ UNCHANGED <<expired, phase, msg, repeated, disk, restarts>>

\* Step 3: the IA exists already, perhaps from an option before this one.  It
\* is renewed, and offered as it is.
AssignBound(iaid) ==
  /\ Assigning /\ Binding(iaid) # {}
  /\ expired' = expired \ Binding(iaid)
  /\ todo' = IF Advertising THEN todo (+) SetToBag(Binding(iaid)) ELSE todo
  /\ repeated' = (repeated \/ Binding(iaid) \cap BagToSet(todo) # {})
  /\ options' = options + 1
  /\ UNCHANGED <<leases, cache, assigned, phase, msg, disk, restarts>>

\* Step 4: an address is reserved for the client.  Nobody checks it is free.
AssignFixed(iaid) ==
  /\ Assigning /\ Binding(iaid) = {}
  /\ ReservedAddr # NoAddr
  /\ assignAddr(iaid, ReservedAddr)
  /\ UNCHANGED cache

\* FAULTY VARIANT of AtClntMaxLease: one lease too many
AtClntMaxLease_OneMore == getLeaseCount(msg.clnt) > ClntMaxLease[msg.iface]

AtClntMaxLease == getLeaseCount(msg.clnt) >= ClntMaxLease[msg.iface]

\* Step 5: the client has as many leases as it may have.
AssignRefused(iaid) ==
  /\ Assigning /\ Binding(iaid) = {}
  /\ ReservedAddr = NoAddr
  /\ AtClntMaxLease
  /\ options' = options + 1
  /\ UNCHANGED <<dbVars, phase, msg, todo, repeated, disk, restarts>>

\* Steps 6 to 8 take an address from a pool.
FromPool(iaid) ==
  /\ Assigning /\ Binding(iaid) = {}
  /\ ReservedAddr = NoAddr
  /\ ~AtClntMaxLease

CachedAddr == getCachedEntry(msg.clnt)

CachedUsable ==
  /\ CachedAddr # NoAddr
  /\ getClassByAddr(msg.iface, CachedAddr) # NoClass
  /\ addrIsFree(CachedAddr)
  /\ CachedAddr \notin Reserved

\* A cached address that cannot be used is forgotten: the oldest entry with
\* that address goes, whosever it is.
CacheMiss ==
  IF CachedAddr = NoAddr
  THEN cache
  ELSE delFirst(cache, EntriesFor(cache, CachedAddr))

\* Step 6: the address this client had before
AssignCached(iaid) ==
  /\ FromPool(iaid) /\ CachedUsable
  /\ assignAddr(iaid, CachedAddr)
  /\ UNCHANGED cache

\* FAULTY VARIANT of HintClass: access lists forgotten
HintClass_AnyClient(hint) ==
  IF hint \in Addrs \ Reserved
  THEN getClassByAddr(msg.iface, hint)
  ELSE NoClass

\* The class the hint is in, if the client may use it; no class for a
\* reserved address
HintClass(hint) ==
  LET k == IF hint \in Addrs \ Reserved
           THEN getClassByAddr(msg.iface, hint)
           ELSE NoClass
  IN  IF k # NoClass /\ clntSupported(k, msg.clnt) THEN k ELSE NoClass

\* The hint is taken by someone, but its class has room by its own count:
\* the code draws addresses of the class until it finds a free one.
HintSearches(hint) ==
  HintClass(hint) # NoClass /\ ~addrIsFree(hint) /\ hasRoom(HintClass(hint))

HintFree(hint) == HintClass(hint) # NoClass /\ addrIsFree(hint)

FreeIn(k) == {a \in Pool[k] : addrIsFree(a)}

\* Step 7: the address the client asked for, or one of the same class
AssignHint(iaid, hint) ==
  /\ FromPool(iaid) /\ ~CachedUsable
  /\ \/ HintFree(hint) /\ assignAddr(iaid, hint)
     \/ /\ HintSearches(hint)
        /\ \E a \in FreeIn(HintClass(hint)) : assignAddr(iaid, a)
  /\ cache' = CacheMiss

\* ... the search never ends when no address of the class is free.
AssignSpins(iaid, hint) ==
  /\ FromPool(iaid) /\ ~CachedUsable
  /\ HintSearches(hint) /\ FreeIn(HintClass(hint)) = {}
  /\ phase' = "spin"
  /\ cache' = CacheMiss
  /\ UNCHANGED <<leases, expired, assigned, msg, options, todo, repeated, disk, restarts>>

\* Step 8 is reached with the class the random choice fell on; a preferred
\* class may be full.
NoCandidate(iaid, hint) ==
  /\ FromPool(iaid) /\ ~CachedUsable
  /\ ~HintFree(hint) /\ ~HintSearches(hint)

RandomClasses ==
  {k \in getRandomClass(msg.iface, msg.clnt) :
     clntSupported(k, msg.clnt) /\ hasRoom(k)}

AssignRandom(iaid, hint) ==
  /\ NoCandidate(iaid, hint)
  /\ \E k \in RandomClasses, a \in Addrs :
       /\ a \in FreeIn(k) \ Reserved
       /\ assignAddr(iaid, a)
  /\ cache' = CacheMiss

\* No class, or a hundred draws that hit used or reserved addresses only
AssignNothing(iaid, hint) ==
  /\ NoCandidate(iaid, hint)
  /\ \/ RandomClasses = {}
     \/ \E k \in RandomClasses : Pool[k] # FreeIn(k) \ Reserved
  /\ cache' = CacheMiss
  /\ options' = options + 1
  /\ UNCHANGED <<leases, expired, assigned, phase, msg, todo, repeated, disk, restarts>>

AssignIA(iaid) ==
  \/ AssignBound(iaid)
  \/ AssignFixed(iaid)
  \/ AssignRefused(iaid)
  \/ AssignCached(iaid)
  \/ \E hint \in Addrs \cup {NoAddr} :
       \/ AssignHint(iaid, hint)
       \/ AssignSpins(iaid, hint)
       \/ AssignRandom(iaid, hint)
       \/ AssignNothing(iaid, hint)

-----------------------------------------------------------------------------
(* RENEW, REBIND, DECLINE, RELEASE.  CONFIRM changes no lease.              *)

\* The IA's addresses get a new timestamp; an unknown IA gets NoBinding.
RenewIA(iaid) ==
  /\ NextOption({"renew"})
  /\ expired' = expired \ Binding(iaid)
  /\ options' = options + 1
  /\ UNCHANGED <<leases, cache, assigned, phase, msg, todo, repeated, disk, restarts>>

RebindIA(iaid) ==
  /\ NextOption({"rebind"})
  /\ Binding(iaid) # {}
  /\ expired' = expired \ Binding(iaid)
  /\ options' = options + 1
  /\ UNCHANGED <<leases, cache, assigned, phase, msg, todo, repeated, disk, restarts>>

\* An unknown IA: the message is dropped, with its other IAs renewed or not.
RebindDiscarded(iaid) ==
  /\ NextOption({"rebind"})
  /\ Binding(iaid) = {}
  /\ phase' = "dumpDb" /\ msg' = NoMsg /\ options' = 0
  /\ UNCHANGED <<dbVars, todo, repeated, disk, restarts>>

\* The address moves to the dummy client; it stays counted as assigned.
DeclineAddr(iaid, l) ==
  /\ Processing({"decline"}) /\ l \in Binding(iaid)
  /\ leases' = addClntAddr(leases \ {l}, Declined, msg.iface, 0, l.addr)
  /\ expired' = expired \ {l}
  /\ cache' = addCachedEntry(cache, l.clnt, l.addr)
  /\ UNCHANGED <<assigned, jobVars, repeated, disk, restarts>>

\* FAULTY VARIANT of ReleaseAddr: the address is released whoever holds it
ReleaseAddr_Anyone(iaid, l) ==
  /\ Processing({"release"}) /\ l \in leases
  /\ delClntAddr(l)
  /\ assigned' = decrAssigned(msg.iface, l.addr)
  /\ UNCHANGED <<jobVars, repeated, disk, restarts>>

\* FAULTY VARIANT of ReleaseAddr: the counter is not lowered
ReleaseAddr_Uncounted(iaid, l) ==
  /\ Processing({"release"}) /\ l \in Binding(iaid)
  /\ delClntAddr(l)
  /\ UNCHANGED <<assigned, jobVars, repeated, disk, restarts>>

ReleaseAddr(iaid, l) ==
  /\ Processing({"release"}) /\ l \in Binding(iaid)
  /\ delClntAddr(l)
  /\ assigned' = decrAssigned(msg.iface, l.addr)
  /\ UNCHANGED <<jobVars, repeated, disk, restarts>>

-----------------------------------------------------------------------------
(* The database files, crashes and restarts                                 *)

\* dump() rewrites server-AddrMgr.xml in place, then server-cache.xml.
DumpDb ==
  /\ phase = "dumpDb"
  /\ disk' = IF PerformanceMode
             THEN disk
             ELSE [disk EXCEPT !.leases = leases, !.expired = expired]
  /\ phase' = "dumpCache"
  /\ UNCHANGED <<dbVars, msg, options, todo, repeated, restarts>>

DumpCache ==
  /\ phase = "dumpCache"
  /\ disk' = IF PerformanceMode THEN disk ELSE [disk EXCEPT !.cache = cache]
  /\ phase' = "duties"
  /\ UNCHANGED <<dbVars, msg, options, todo, repeated, restarts>>

Writing(p) == phase = p /\ ~PerformanceMode

\* What a crash may leave in the files.  A database cut short is read as some
\* of the leases, a cache cut short as its oldest entries.
CrashImages ==
  IF Writing("dumpDb")
  THEN {[leases |-> kept, expired |-> expired \cap kept, cache |-> disk.cache]
          : kept \in SUBSET leases}
  ELSE IF Writing("dumpCache")
  THEN {[disk EXCEPT !.cache = SubSeq(cache, 1, n)] : n \in 0 .. Len(cache)}
  ELSE {disk}

\* Start-up: load the files, count the leases, dump, enter the loop
Boot(image) ==
  /\ restarts < MaxRestarts
  /\ restarts' = restarts + 1
  /\ disk' = image
  /\ leases' = image.leases /\ expired' = image.expired
  /\ cache' = image.cache
  /\ assigned' = setCounters(image.leases)
  /\ phase' = "dumpDb" /\ msg' = NoMsg /\ options' = 0 /\ todo' = EmptyBag
  /\ repeated' = FALSE

Crash == \E image \in CrashImages : Boot(image)

\* An orderly stop: performance mode is left, both files are written.
Restart ==
  /\ phase = "select"
  /\ Boot([leases |-> leases, expired |-> expired, cache |-> cache])

-----------------------------------------------------------------------------

Handle ==
  \/ \E iaid \in IAIDs :
       \/ AssignIA(iaid)
       \/ RenewIA(iaid)
       \/ RebindIA(iaid)
       \/ RebindDiscarded(iaid)
       \/ \E l \in leases : DeclineAddr(iaid, l) \/ ReleaseAddr(iaid, l)
  \/ Answer

\* What the server's thread does without waiting for anyone
Work ==
  \/ Handle
  \/ Timeout
  \/ Duties
  \/ \E l \in BagToSet(todo) : ReleaseOne(l)
  \/ ReleaseDone
  \/ DumpDb
  \/ DumpCache

Environment ==
  \/ \E l \in leases : Expire(l)
  \/ \E t \in MsgTypes, c \in Clients, i \in Ifaces : Receive(t, c, i)

Next == Work \/ Environment \/ Crash \/ Restart

Spec == Init /\ [][Next]_vars

\* The thread runs whenever it has something to do.
FairSpec == Spec /\ WF_vars(Work)

-----------------------------------------------------------------------------
(* What the core promises                                                   *)

\* The variables stay within their types: the database, its image on disk
\* and the work list hold leases, and what is expired is leased.
TypeOK ==
  /\ leases \in SUBSET Lease /\ expired \in SUBSET leases
  /\ cache \in Seq(CacheEntry)
  /\ assigned \in [Classes -> 0 .. ULong - 1]
  /\ disk \in [leases : SUBSET Lease, expired : SUBSET Lease,
               cache : Seq(CacheEntry)]
  /\ phase \in Phases /\ msg \in Message \cup {NoMsg}
  /\ options \in 0 .. MaxOptions /\ repeated \in BOOLEAN
  /\ IsABag(todo) /\ BagToSet(todo) \in SUBSET Lease
  /\ restarts \in 0 .. MaxRestarts

\* No two IAs hold the same address, whichever of the hint, cache, random,
\* DECLINE and restart paths brought them there (SrvOptIA_NA.cpp, addrIsFree
\* before each assignAddr).  Reserved addresses are excepted: assignFixedLease
\* hands one to every IA of its client without looking.
Exclusive ==
  \A l, m \in leases : l.addr = m.addr /\ l.addr \notin Reserved => l = m

\* A client's IA holds at most one address: a second one is never added to an
\* IA that exists, since renew() answers for it (SrvOptIA_NA.cpp:123).
OneAddressPerIA ==
  \A l, m \in leases :
    l.clnt = m.clnt /\ l.iaid = m.iaid /\ l.clnt # Declined => l = m

\* The usage counter of a class never falls below the number of its addresses
\* that are leased through its interface, and never below zero, where it would
\* wrap and look full for ever (decrAssigned, unsigned long): however grants,
\* offers, declines, releases on another interface, expiry and restarts
\* interleave.  The one exception is a SOLICIT with two options for one IA: the
\* address is offered in both and given back for both, and the class counts one
\* lease too few from then on (SrvOptIA_NA.cpp:325).
CountersCover ==
  ~repeated => \A k \in Classes :
    /\ Cardinality({l \in leases : getClassByAddr(l.iface, l.addr) = k})
         <= assigned[k]
    /\ assigned[k] < ULong - 1

\* With one interface, and reservations outside the pools, nothing leaks
\* either: once the server waits, every unit of a counter stands for a lease of
\* the class (TSrvCfgMgr::addClntAddr, delClntAddr), as long as no SOLICIT has
\* two options for one IA.
CountersExact ==
  phase = "select" /\ ~repeated =>
    \A k \in Classes :
      assigned[k] =
        Cardinality({l \in leases : getClassByAddr(l.iface, l.addr) = k})

\* The search for an address near a hint finds one: the comment at
\* SrvOptIA_NA.cpp:620 reads "medium case: addess belongs to supported class,
\* but is used however the class pool is still free".  A class that counts too
\* few leases, after a SOLICIT with two options for one IA, is the exception.
HintSearchEnds == ~repeated => phase # "spin"

\* The cache holds one entry per client, within its size, and never an address
\* that is reserved (SrvAddrMgr.cpp, addCachedEntry and delCachedEntry).
CacheSound ==
  /\ Len(cache) <= CacheMaxSize
  /\ \A i, j \in DOMAIN cache : cache[i].clnt = cache[j].clnt => i = j
  /\ \A i \in DOMAIN cache : cache[i].addr \notin Reserved

\* A client without reservations holds at most client-max-lease leases, on
\* whichever of its IAs and by whichever path (SrvOptIA_NA.cpp:138).
ClientLimit ==
  \A c \in Clients :
    \/ \E i \in Ifaces : Exception[<<i, c>>] # NoAddr
    \/ \E i \in Ifaces : getLeaseCount(c) <= ClntMaxLease[i]

\* Outside reservations a client only holds addresses of classes whose white-
\* and black-lists admit it, though the cached address of step 6 is granted
\* without asking them (SrvOptIA_NA.cpp:212).
SupportedOnly ==
  \A l \in leases :
    l.clnt # Declined /\ l.addr \notin Reserved =>
      LET k == getClassByAddr(l.iface, l.addr)
      IN  k # NoClass /\ clntSupported(k, l.clnt)

\* When the server waits for the next message, the files hold what it would
\* need to go on after a crash: "save DB state regardless of action taken"
\* (SrvTransMgr.cpp:410).  A lease may have expired since.
Durable ==
  phase = "select" =>
    /\ disk.leases = leases /\ disk.cache = cache
    /\ disk.expired \subseteq expired

\* A lease ends by a message of the client that holds it, by its expiry, or by
\* a crash; never by what another client does.
NoForeignRevocation ==
  [][\A l \in leases \ leases' :
       \/ l \in expired
       \/ msg # NoMsg /\ msg.clnt = l.clnt
       \/ restarts' # restarts]_vars

\* The endless search at SrvOptIA_NA.cpp:634, which only a class that counts too
\* few leases can lead to
Stuck == repeated /\ phase = "spin"

\* Every message is dealt with and the server comes back to select(), and
\* every expired lease is removed or renewed, whatever keeps arriving, unless
\* the server is stuck in the search of a class it has miscounted.
AlwaysReturns == phase = "process" ~> phase = "select" \/ Stuck

ExpiredEnds == \A a \in Addrs :
  (\E l \in expired : l.addr = a) ~> (\A l \in expired : l.addr # a) \/ Stuck

=============================================================================
