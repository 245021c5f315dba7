-------------------------- MODULE SrvLeases_proofs --------------------------
(***************************************************************************)
(* Proofs about SrvLeases, for every configuration, any number of clients,  *)
(* IAs, addresses and restarts.                                             *)
(***************************************************************************)
EXTENDS SrvLeases, Least_proofs, FiniteSetTheorems, SequenceTheorems, TLAPS

-----------------------------------------------------------------------------
(* The library operators the model is built from                            *)

\* Min of a set of naturals is its least member: what getClassByAddr and the
\* searches of the cache list rely on.
LEMMA MinIsLeast ==
  ASSUME NEW S, S \subseteq Nat, S # {}
  PROVE  Min(S) \in S /\ \A n \in S : Min(S) <= n
BY LeastExists DEF Min

\* The list of the cache stays a list of entries when one is taken out.
LEMMA RemoveAtType ==
  ASSUME NEW X, NEW s \in Seq(X), NEW i \in 1 .. Len(s)
  PROVE  RemoveAt(s, i) \in Seq(X) /\ Len(RemoveAt(s, i)) = Len(s) - 1
<1> DEFINE front == SubSeq(s, 1, i - 1)
           back  == SubSeq(s, i + 1, Len(s))
<1>1. Len(s) \in Nat /\ i - 1 \in Nat
  BY LenProperties
<1>2. front \in Seq(X) /\ Len(front) = i - 1
  <2>1. \A n \in 1 .. i - 1 : s[n] \in X
    BY ElementOfSeq, <1>1
  <2> QED
    BY <1>1, <2>1, SubSeqProperties
<1>3. back \in Seq(X) /\ Len(back) = Len(s) - i
  BY <1>1, SubSeqProperties
<1>4. RemoveAt(s, i) = front \o back
  BY DEF RemoveAt
<1> HIDE DEF front, back
<1>5. front \o back \in Seq(X) /\ Len(front \o back) = Len(front) + Len(back)
  BY <1>2, <1>3, ConcatProperties
<1> QED
  BY <1>1, <1>2, <1>3, <1>4, <1>5

\* A number below the width of a counter is kept as it is.
LEMMA ModSmall ==
  ASSUME NEW u \in Nat \ {0}, NEW n \in 0 .. u - 1
  PROVE  n % u = n
OBVIOUS

\* A bag made of a set holds each of its members once.
LEMMA BagOfSet ==
  ASSUME NEW S
  PROVE  /\ IsABag(SetToBag(S)) /\ BagToSet(SetToBag(S)) = S
         /\ \A x \in S : SetToBag(S)[x] = 1
BY DEF IsABag, SetToBag, BagToSet

LEMMA BagOfNone == IsABag(EmptyBag) /\ BagToSet(EmptyBag) = {}
BY BagOfSet DEF EmptyBag

\* A set added to a bag adds one copy of each of its members.
LEMMA BagGrows ==
  ASSUME NEW B, IsABag(B), NEW S
  PROVE  /\ IsABag(B (+) SetToBag(S))
         /\ BagToSet(B (+) SetToBag(S)) = BagToSet(B) \cup S
         /\ \A x \in BagToSet(B) \ S : (B (+) SetToBag(S))[x] = B[x]
         /\ \A x \in S \ BagToSet(B) : (B (+) SetToBag(S))[x] = 1
BY DEF IsABag, SetToBag, BagToSet, (+)

\* A bag one copy of a member is taken from keeps the copies of the others.
LEMMA BagShrinks ==
  ASSUME NEW B, IsABag(B), NEW x \in BagToSet(B)
  PROVE  /\ IsABag(B (-) SetToBag({x}))
         /\ BagToSet(B (-) SetToBag({x})) \subseteq BagToSet(B)
         /\ B[x] = 1 => x \notin BagToSet(B (-) SetToBag({x}))
         /\ \A y \in BagToSet(B) \ {x} : (B (-) SetToBag({x}))[y] = B[y]
BY DEF IsABag, SetToBag, BagToSet, (-)

-----------------------------------------------------------------------------
(* The operators of the model                                               *)

\* getClassByAddr returns no class, or a class of the interface whose pool
\* holds the address.
LEMMA ClassByAddr ==
  ASSUME NEW i, NEW a, getClassByAddr(i, a) # NoClass
  PROVE  /\ getClassByAddr(i, a) \in Classes
         /\ ClassIface[getClassByAddr(i, a)] = i
         /\ a \in Pool[getClassByAddr(i, a)]
<1> DEFINE found == {k \in Classes : ClassIface[k] = i /\ a \in Pool[k]}
<1>1. found # {} /\ getClassByAddr(i, a) = Min(found)
  BY DEF getClassByAddr
<1>2. found \subseteq Nat
  BY ConfigAssumption
<1>3. Min(found) \in found
  <2> HIDE DEF found
  <2> QED BY <1>1, <1>2, MinIsLeast
<1> QED
  BY <1>1, <1>3

\* An address a class is found for is an address.
LEMMA PoolAddrs ==
  ASSUME NEW k \in Classes
  PROVE  Pool[k] \subseteq Addrs
BY ConfigAssumption

\* getRandomClass, with the test that follows it, gives classes of the
\* interface the client may use.
LEMMA RandomClassesType ==
  ASSUME NEW k \in RandomClasses
  PROVE  k \in Classes /\ ClassIface[k] = msg.iface /\ clntSupported(k, msg.clnt)
<1> DEFINE ofIface   == {n \in Classes : ClassIface[n] = msg.iface}
           preferred == {n \in ofIface : clntPrefered(n, msg.clnt)}
<1>1. k \in getRandomClass(msg.iface, msg.clnt) /\ clntSupported(k, msg.clnt)
  BY DEF RandomClasses
<1>2. CASE preferred = {}
  BY <1>1, <1>2 DEF getRandomClass
<1>3. CASE preferred # {}
  <2>1. k = Min(preferred)
    BY <1>1, <1>3 DEF getRandomClass
  <2>2. preferred \subseteq Nat
    BY ConfigAssumption
  <2>3. Min(preferred) \in preferred
    <3> HIDE DEF preferred
    <3> QED BY <1>3, <2>2, MinIsLeast
  <2> QED
    BY <1>1, <2>1, <2>3
<1> QED
  BY <1>2, <1>3

\* The cache after an entry is deleted is a cache, and no longer than before.
LEMMA DelFirstType ==
  ASSUME NEW s \in Seq(CacheEntry), NEW found \in SUBSET (DOMAIN s)
  PROVE  delFirst(s, found) \in Seq(CacheEntry) /\ Len(delFirst(s, found)) <= Len(s)
<1>1. Len(s) \in Nat /\ DOMAIN s = 1 .. Len(s)
  BY LenProperties
<1>2. CASE found = {}
  BY <1>1, <1>2 DEF delFirst
<1>3. CASE found # {}
  <2>1. found \subseteq Nat
    BY <1>1
  <2>2. Min(found) \in found
    BY <1>3, <2>1, MinIsLeast
  <2>3. Min(found) \in 1 .. Len(s)
    BY <1>1, <2>2
  <2>4. /\ RemoveAt(s, Min(found)) \in Seq(CacheEntry)
        /\ Len(RemoveAt(s, Min(found))) = Len(s) - 1
    BY <2>3, RemoveAtType
  <2> QED
    BY <1>1, <1>3, <2>4 DEF delFirst
<1> QED
  BY <1>2, <1>3

\* checkCacheSize keeps the youngest entries, at most CacheMaxSize of them.
LEMMA CheckCacheSizeType ==
  ASSUME NEW s \in Seq(CacheEntry)
  PROVE  /\ checkCacheSize(s) \in Seq(CacheEntry)
         /\ Len(checkCacheSize(s)) <= CacheMaxSize
<1>1. Len(s) \in Nat /\ CacheMaxSize \in Nat
  BY LenProperties, ConfigAssumption
<1>2. CASE Len(s) > CacheMaxSize
  <2> DEFINE m == Len(s) - CacheMaxSize + 1
  <2>1. m \in Int /\ m >= 1
    BY <1>1, <1>2
  <2>2. \A i \in m .. Len(s) : s[i] \in CacheEntry
    BY <1>1, <2>1, ElementOfSeq
  <2>3. SubSeq(s, m, Len(s)) \in Seq(CacheEntry)
    BY <1>1, <2>1, <2>2, SubSeqProperties
  <2>4. Len(SubSeq(s, m, Len(s))) = IF m <= Len(s) THEN Len(s) - m + 1 ELSE 0
    BY <1>1, <2>1, <2>2, SubSeqProperties
  <2>5. checkCacheSize(s) = SubSeq(s, m, Len(s))
    BY <1>2 DEF checkCacheSize
  <2> QED
    BY <1>1, <1>2, <2>3, <2>4, <2>5
<1>3. CASE ~(Len(s) > CacheMaxSize)
  BY <1>1, <1>3 DEF checkCacheSize
<1> QED
  BY <1>2, <1>3

\* addCachedEntry yields a cache.
LEMMA AddCachedEntryType ==
  ASSUME NEW s \in Seq(CacheEntry), NEW c \in AllClients, NEW a \in Addrs
  PROVE  addCachedEntry(s, c, a) \in Seq(CacheEntry)
<1> DEFINE e == [clnt |-> c, addr |-> a]
           t == delFirst(s, EntriesOf(s, c))
<1>1. e \in CacheEntry
  BY DEF CacheEntry
<1>2. t \in Seq(CacheEntry)
  BY DelFirstType DEF EntriesOf
<1>3. Append(t, e) \in Seq(CacheEntry)
  <2> HIDE DEF t, e
  <2> QED BY <1>1, <1>2, AppendProperties
<1>4. checkCacheSize(Append(t, e)) \in Seq(CacheEntry)
  BY <1>3, CheckCacheSizeType
<1> QED
  BY <1>4 DEF addCachedEntry

\* addClntAddr adds one lease of that client, IA and address; none if the IA
\* has the address.
LEMMA AddClntAddrEffect ==
  ASSUME NEW L \in SUBSET Lease, NEW c \in AllClients, NEW i \in Ifaces,
         NEW iaid \in IAIDs, NEW a \in Addrs
  PROVE  \/ addClntAddr(L, c, i, iaid, a) = L /\ \E m \in L : m.addr = a
         \/ \E n \in Lease : /\ n.clnt = c /\ n.iaid = iaid /\ n.addr = a
                             /\ addClntAddr(L, c, i, iaid, a) = L \cup {n}
<1> DEFINE ia == IA(L, c, iaid)
           if == IF ia = {} THEN i ELSE (CHOOSE l \in ia : TRUE).iface
           n  == [clnt |-> c, iaid |-> iaid, addr |-> a, iface |-> if]
<1>1. if \in Ifaces
  <2>1. CASE ia = {}
    BY <2>1
  <2>2. CASE ia # {}
    <3>1. (CHOOSE l \in ia : TRUE) \in ia
      BY <2>2
    <3> QED
      BY <2>2, <3>1 DEF IA, Lease
  <2> QED
    BY <2>1, <2>2
<1>2. n \in Lease
  BY <1>1 DEF Lease
<1>3. \/ addClntAddr(L, c, i, iaid, a) = L /\ \E m \in L : m.addr = a
      \/ addClntAddr(L, c, i, iaid, a) = L \cup {n}
  BY DEF addClntAddr, IA
<1> HIDE DEF if
<1> QED
  BY <1>2, <1>3

\* setCounters counts every class within the width of its counter.
LEMMA SetCountersType ==
  ASSUME NEW L, IsFiniteSet(L)
  PROVE  setCounters(L) \in [Classes -> 0 .. ULong - 1]
<1>1. SUFFICES ASSUME NEW k \in Classes
               PROVE  Cardinality({l \in L : getClassByAddr(l.iface, l.addr) = k}) % ULong
                        \in 0 .. ULong - 1
  BY DEF setCounters
<1> DEFINE K == {l \in L : getClassByAddr(l.iface, l.addr) = k}
<1>2. Cardinality(K) \in Nat
  <2>1. IsFiniteSet(K)
    BY FS_Subset
  <2> QED
    BY <2>1, FS_CardinalityType
<1>3. ULong \in Nat \ {0}
  BY ConfigAssumption
<1> HIDE DEF K
<1>4. Cardinality(K) % ULong \in 0 .. ULong - 1
  BY <1>2, <1>3
<1> QED
  BY <1>4 DEF K

-----------------------------------------------------------------------------
(* Type correctness.  TypeOK is not inductive: a restart takes its leases    *)
(* from the files, and counts them.                                         *)

TypeInv ==
  /\ TypeOK
  /\ disk.expired \subseteq disk.leases
  /\ IsFiniteSet(leases) /\ IsFiniteSet(disk.leases)

\* A message being processed is a message: NoMsg is of no type.
LEMMA ProcessingMsg ==
  ASSUME TypeInv, NEW types \in SUBSET MsgTypes, Processing(types)
  PROVE  /\ msg \in Message /\ msg.type \in types
         /\ msg.clnt \in Clients /\ msg.clnt # Declined /\ msg.iface \in Ifaces
<1>1. msg.type \in MsgTypes
  BY DEF Processing
<1>2. msg # NoMsg
  BY <1>1 DEF MsgTypes, NoMsg
<1> QED
  BY <1>2, ClientsAssumption DEF TypeInv, TypeOK, Message, Processing

\* The counters keep their width when one is raised or lowered.
LEMMA CountersType ==
  ASSUME TypeInv, NEW i, NEW a
  PROVE  /\ incrAssigned(i, a) \in [Classes -> 0 .. ULong - 1]
         /\ decrAssigned(i, a) \in [Classes -> 0 .. ULong - 1]
<1>1. \A n \in Int : n % ULong \in 0 .. ULong - 1
  BY ConfigAssumption
<1>2. \A k \in Classes : assigned[k] \in 0 .. ULong - 1
  BY DEF TypeInv, TypeOK
<1>3. \A k \in Classes : assigned[k] \in Int
  BY <1>2, ConfigAssumption
<1>4. \A k \in Classes : /\ (assigned[k] + 1) % ULong \in 0 .. ULong - 1
                         /\ (assigned[k] - 1) % ULong \in 0 .. ULong - 1
  BY <1>1, <1>3
<1> QED
  BY <1>2, <1>4 DEF incrAssigned, decrAssigned

\* The leases an ADVERTISE gives back for an address assigned in it
Offered(iaid, a) == {l \in IA(leases, msg.clnt, iaid) : l.addr = a}

\* What assignAddr does to the database: at most one lease of the client and
\* its IA is added, and goes on the work list of an ADVERTISE.
LEMMA AssignAddrEffect ==
  ASSUME TypeInv, NEW iaid \in IAIDs, NEW a \in Addrs,
         Assigning, assignAddr(iaid, a)
  PROVE  /\ \/ leases' = leases
            \/ \E n \in Lease : /\ n.clnt = msg.clnt /\ n.iaid = iaid
                                /\ n.addr = a /\ leases' = leases \cup {n}
         /\ leases' \in SUBSET Lease /\ leases \subseteq leases'
         /\ IsFiniteSet(leases')
         /\ \/ todo' = todo
            \/ Advertising /\ todo' = todo (+) SetToBag(Offered(iaid, a)')
<1>1. msg.clnt \in AllClients /\ msg.iface \in Ifaces
  BY ProcessingMsg DEF Assigning, NextOption, MsgTypes, AllClients
<1>2. leases' = addClntAddr(leases, msg.clnt, msg.iface, iaid, a)
  BY DEF assignAddr
<1>3. \/ leases' = leases
      \/ \E n \in Lease : /\ n.clnt = msg.clnt /\ n.iaid = iaid
                          /\ n.addr = a /\ leases' = leases \cup {n}
  <2>1. leases \in SUBSET Lease
    BY DEF TypeInv, TypeOK
  <2> QED
    BY <1>1, <1>2, <2>1, AddClntAddrEffect
<1>4. leases' \in SUBSET Lease /\ leases \subseteq leases'
  BY <1>3 DEF TypeInv, TypeOK
<1>5. IsFiniteSet(leases')
  BY <1>3, FS_AddElement DEF TypeInv
<1>6. \/ todo' = todo
      \/ Advertising /\ todo' = todo (+) SetToBag(Offered(iaid, a)')
  <2>1. Offered(iaid, a)' = {l \in IA(leases', msg.clnt, iaid) : l.addr = a}
    BY DEF assignAddr, Offered, IA
  <2> QED
    BY <2>1 DEF assignAddr
<1> QED
  BY <1>3, <1>4, <1>5, <1>6

\* An address the policy may grant: the client's reservation, or, to a client
\* below its limit, a free one of the interface's pools that it had before or
\* whose class supports it.
Grantable(a) ==
  \/ a = ReservedAddr /\ a \in Reserved
  \/ /\ ~AtClntMaxLease /\ addrIsFree(a)
     /\ \/ a = CachedAddr /\ getClassByAddr(msg.iface, a) # NoClass
        \/ \E k \in Classes : /\ ClassIface[k] = msg.iface /\ a \in Pool[k]
                              /\ clntSupported(k, msg.clnt)

\* Each case of the lease assignment policy leaves the database alone, or
\* grants the IA an address that is free or reserved, and only when the IA
\* had none.
LEMMA AssignOutcome ==
  ASSUME TypeInv, NEW iaid \in IAIDs, AssignIA(iaid)
  PROVE  /\ Assigning
         /\ \/ \E a \in Addrs : /\ assignAddr(iaid, a)
                                /\ addrIsFree(a) \/ a \in Reserved
                                /\ Binding(iaid) = {} /\ Grantable(a)
            \/ /\ leases' = leases /\ expired' \in SUBSET expired
               /\ \/ todo' = todo
                  \/ Advertising /\ todo' = todo (+) SetToBag(Binding(iaid))
               /\ repeated' \in BOOLEAN
               /\ ~repeated' => /\ ~repeated
                                /\ \/ todo' = todo
                                   \/ Binding(iaid) \cap BagToSet(todo) = {}
               /\ assigned' = assigned /\ options' \in {options, options + 1}
               /\ phase' \in {phase, "spin"} /\ UNCHANGED <<msg, disk, restarts>>
<1>1. CASE AssignBound(iaid)
  BY <1>1 DEF AssignBound, TypeInv, TypeOK
<1>2. CASE AssignFixed(iaid)
  <2>1. msg \in Message /\ msg.clnt \in Clients /\ msg.iface \in Ifaces
    BY <1>2, ProcessingMsg DEF AssignFixed, Assigning, NextOption, MsgTypes
  <2>2. ReservedAddr \in Reserved
    BY <1>2, <2>1 DEF AssignFixed, ReservedAddr, Reserved
  <2>3. ReservedAddr \in Addrs
    BY <2>2, ConfigAssumption DEF Reserved
  <2> QED
    BY <1>2, <2>2, <2>3 DEF AssignFixed, Grantable
<1>3. CASE AssignRefused(iaid)
  BY <1>3 DEF AssignRefused, dbVars, TypeInv, TypeOK
<1>4. CASE AssignCached(iaid)
  <2>1. getClassByAddr(msg.iface, CachedAddr) # NoClass /\ addrIsFree(CachedAddr)
    BY <1>4 DEF AssignCached, CachedUsable
  <2>2. CachedAddr \in Addrs
    BY <2>1, ClassByAddr, PoolAddrs
  <2> QED
    BY <1>4, <2>1, <2>2 DEF AssignCached, FromPool, Grantable
<1>5. ASSUME NEW hint \in Addrs \cup {NoAddr}, AssignHint(iaid, hint)
      PROVE  /\ Assigning /\ Binding(iaid) = {}
             /\ \E a \in Addrs : assignAddr(iaid, a) /\ addrIsFree(a) /\ Grantable(a)
  <2> DEFINE k == HintClass(hint)
  <2>1. k # NoClass
    BY <1>5 DEF AssignHint, HintFree, HintSearches
  <2>2. /\ hint \in Addrs \ Reserved /\ k = getClassByAddr(msg.iface, hint)
        /\ clntSupported(k, msg.clnt)
    BY <2>1 DEF HintClass
  <2>3. k \in Classes /\ ClassIface[k] = msg.iface /\ hint \in Pool[k]
    BY <2>1, <2>2, ClassByAddr
  <2>4. FreeIn(k) \subseteq Addrs
    BY <2>3, PoolAddrs DEF FreeIn
  <2>5. \A a \in FreeIn(k) : addrIsFree(a) /\ a \in Pool[k]
    BY DEF FreeIn
  <2>6. PICK a \in Addrs : assignAddr(iaid, a) /\ addrIsFree(a) /\ a \in Pool[k]
    BY <1>5, <2>2, <2>3, <2>4, <2>5 DEF AssignHint, HintFree
  <2>7. Assigning /\ Binding(iaid) = {} /\ ~AtClntMaxLease
    BY <1>5 DEF AssignHint, FromPool
  <2> HIDE DEF k
  <2>8. Grantable(a)
    BY <2>2, <2>3, <2>6, <2>7 DEF Grantable
  <2> QED
    BY <2>6, <2>7, <2>8
<1>6. ASSUME NEW hint \in Addrs \cup {NoAddr}, AssignSpins(iaid, hint)
      PROVE  /\ Assigning /\ leases' = leases /\ expired' = expired
             /\ todo' = todo /\ assigned' = assigned /\ options' = options
             /\ phase' = "spin" /\ UNCHANGED <<msg, repeated, disk, restarts>>
  BY <1>6 DEF AssignSpins, FromPool
<1>7. ASSUME NEW hint \in Addrs \cup {NoAddr}, AssignRandom(iaid, hint)
      PROVE  /\ Assigning /\ Binding(iaid) = {}
             /\ \E a \in Addrs : assignAddr(iaid, a) /\ addrIsFree(a) /\ Grantable(a)
  <2>1. PICK k \in RandomClasses, a \in Addrs : a \in FreeIn(k) /\ assignAddr(iaid, a)
    BY <1>7 DEF AssignRandom
  <2>2. Assigning /\ Binding(iaid) = {} /\ ~AtClntMaxLease
    BY <1>7 DEF AssignRandom, NoCandidate, FromPool
  <2>3. k \in Classes /\ ClassIface[k] = msg.iface /\ clntSupported(k, msg.clnt)
    BY RandomClassesType
  <2>4. a \in Pool[k] /\ addrIsFree(a)
    BY <2>1 DEF FreeIn
  <2>5. Grantable(a)
    BY <2>2, <2>3, <2>4 DEF Grantable
  <2> QED
    BY <2>1, <2>2, <2>4, <2>5
<1>8. ASSUME NEW hint \in Addrs \cup {NoAddr}, AssignNothing(iaid, hint)
      PROVE  /\ Assigning /\ leases' = leases /\ expired' = expired
             /\ todo' = todo /\ assigned' = assigned
             /\ options' = options + 1
             /\ phase' = phase /\ UNCHANGED <<msg, repeated, disk, restarts>>
  BY <1>8 DEF AssignNothing, NoCandidate, FromPool
<1> QED
  BY <1>1, <1>2, <1>3, <1>4, <1>5, <1>6, <1>7, <1>8 DEF AssignIA, TypeInv, TypeOK

\* An IA that has no address gets the one assigned, on the interface the
\* message came by, and the IA is new there.
GrantedLease(iaid, a) ==
  [clnt |-> msg.clnt, iaid |-> iaid, addr |-> a, iface |-> msg.iface]

LEMMA AssignGrants ==
  ASSUME TypeInv, NEW iaid \in IAIDs, NEW a \in Addrs,
         Assigning, assignAddr(iaid, a), Binding(iaid) = {}
  PROVE  /\ GrantedLease(iaid, a) \in Lease
         /\ leases' = leases \cup {GrantedLease(iaid, a)}
         /\ GrantedLease(iaid, a) \notin leases
<1>1. msg.clnt \in AllClients /\ msg.iface \in Ifaces
  BY ProcessingMsg DEF Assigning, NextOption, MsgTypes, AllClients
<1>2. IA(leases, msg.clnt, iaid) = {}
  BY DEF Binding
<1>3. leases' = leases \cup {GrantedLease(iaid, a)}
  BY <1>2 DEF assignAddr, addClntAddr, GrantedLease
<1>4. GrantedLease(iaid, a) \notin leases
  BY <1>2 DEF IA, GrantedLease
<1> QED
  BY <1>1, <1>3, <1>4 DEF GrantedLease, Lease

\* Whatever the policy does with the cache leaves it a cache.
LEMMA AssignCache ==
  ASSUME TypeInv, NEW iaid \in IAIDs, AssignIA(iaid)
  PROVE  cache' \in Seq(CacheEntry)
<1>1. cache \in Seq(CacheEntry)
  BY DEF TypeInv, TypeOK
<1>2. CacheMiss \in Seq(CacheEntry)
  BY <1>1, DelFirstType DEF CacheMiss, EntriesFor
<1>3. cache' \in {cache, CacheMiss}
  BY DEF AssignIA, AssignBound, AssignFixed, AssignRefused, AssignCached,
         AssignHint, AssignSpins, AssignRandom, AssignNothing, dbVars
<1> QED
  BY <1>1, <1>2, <1>3

\* delClntAddr takes one lease out of the database, and off the expiry list.
LEMMA DelClntAddrEffect ==
  ASSUME TypeInv, NEW l \in Lease, delClntAddr(l)
  PROVE  /\ leases' = leases \ {l} /\ expired' = expired \ {l}
         /\ leases' \in SUBSET Lease /\ expired' \in SUBSET leases'
         /\ IsFiniteSet(leases') /\ cache' \in Seq(CacheEntry)
<1>1. leases' = leases \ {l} /\ expired' = expired \ {l}
  BY DEF delClntAddr
<1>2. IsFiniteSet(leases')
  BY <1>1, FS_Subset DEF TypeInv
<1>3. l.clnt \in AllClients /\ l.addr \in Addrs /\ cache \in Seq(CacheEntry)
  BY DEF Lease, TypeInv, TypeOK
<1>4. addCachedEntry(cache, l.clnt, l.addr) \in Seq(CacheEntry)
  BY <1>3, AddCachedEntryType
<1>5. cache' \in Seq(CacheEntry)
  BY <1>3, <1>4 DEF delClntAddr
<1> QED
  BY <1>1, <1>2, <1>5 DEF TypeInv, TypeOK

\* A server that starts with an image of the right type is in a state of the
\* right type.
LEMMA BootType ==
  ASSUME TypeInv,
         NEW image \in [leases : SUBSET Lease, expired : SUBSET Lease,
                        cache : Seq(CacheEntry)],
         image.expired \subseteq image.leases, IsFiniteSet(image.leases),
         Boot(image)
  PROVE  TypeInv'
<1>1. assigned' \in [Classes -> 0 .. ULong - 1]
  BY SetCountersType DEF Boot
<1>2. restarts' \in 0 .. MaxRestarts
  BY ClientsAssumption DEF Boot, TypeInv, TypeOK
<1>3. leases' = image.leases /\ expired' = image.expired
      /\ cache' = image.cache /\ disk' = image
  BY DEF Boot
<1>4. phase' \in Phases /\ msg' \in Message \cup {NoMsg}
      /\ options' \in 0 .. MaxOptions
  BY ClientsAssumption DEF Boot, Phases
<1>5. IsABag(todo') /\ BagToSet(todo') = {}
  <2>1. todo' = EmptyBag
    BY DEF Boot
  <2> QED
    BY <2>1, BagOfNone
<1>6. repeated' \in BOOLEAN
  BY Zenon DEF Boot
<1> QED
  BY <1>1, <1>2, <1>3, <1>4, <1>5, <1>6 DEF TypeInv, TypeOK

\* What a crash leaves on disk has the right type, and lists as expired only
\* leases it holds.
LEMMA CrashImagesType ==
  ASSUME TypeInv, NEW image \in CrashImages
  PROVE  /\ image \in [leases : SUBSET Lease, expired : SUBSET Lease,
                       cache : Seq(CacheEntry)]
         /\ image.expired \subseteq image.leases /\ IsFiniteSet(image.leases)
         /\ image.leases \subseteq leases \/ image.leases = disk.leases
<1>1. disk \in [leases : SUBSET Lease, expired : SUBSET Lease,
                cache : Seq(CacheEntry)]
  BY DEF TypeInv, TypeOK
<1>2. CASE Writing("dumpDb")
  <2>1. PICK kept \in SUBSET leases :
               image = [leases  |-> kept, expired |-> expired \cap kept,
                        cache   |-> disk.cache]
    BY <1>2 DEF CrashImages
  <2>2. leases \in SUBSET Lease
    BY DEF TypeInv, TypeOK
  <2>3. IsFiniteSet(kept)
    BY FS_Subset DEF TypeInv
  <2> QED
    BY <1>1, <2>1, <2>2, <2>3
<1>3. CASE ~Writing("dumpDb") /\ Writing("dumpCache")
  <2>1. PICK n \in 0 .. Len(cache) :
               image = [disk EXCEPT !.cache = SubSeq(cache, 1, n)]
    BY <1>3 DEF CrashImages
  <2>2. cache \in Seq(CacheEntry) /\ Len(cache) \in Nat
    BY LenProperties DEF TypeInv, TypeOK
  <2>3. \A i \in 1 .. n : cache[i] \in CacheEntry
    BY <2>2, ElementOfSeq
  <2>4. SubSeq(cache, 1, n) \in Seq(CacheEntry)
    BY <2>2, <2>3, SubSeqProperties
  <2> QED
    BY <1>1, <2>1, <2>4 DEF TypeInv
<1>4. CASE ~Writing("dumpDb") /\ ~Writing("dumpCache")
  BY <1>1, <1>4 DEF CrashImages, TypeInv
<1> QED
  BY <1>2, <1>3, <1>4

\* Declining moves an address to the dummy client's IA.
LEMMA DeclineAddrEffect ==
  ASSUME TypeInv, NEW iaid \in IAIDs, NEW l \in leases, DeclineAddr(iaid, l)
  PROVE  /\ \/ /\ leases' = leases \ {l}
               /\ \E m \in leases \ {l} : m.addr = l.addr
            \/ \E n \in Lease : /\ n.clnt = Declined /\ n.iaid = 0 /\ n.addr = l.addr
                                /\ leases' = (leases \ {l}) \cup {n}
         /\ leases' \in SUBSET Lease /\ expired' \in SUBSET leases'
         /\ IsFiniteSet(leases') /\ cache' \in Seq(CacheEntry)
         /\ msg \in Message /\ msg.type = "decline" /\ l.clnt = msg.clnt
<1>1. msg \in Message /\ msg.type = "decline" /\ msg.iface \in Ifaces
  BY ProcessingMsg DEF DeclineAddr, MsgTypes
<1>2. l \in Lease /\ l.addr \in Addrs /\ l.clnt \in AllClients
  BY DEF TypeInv, TypeOK, Lease
<1>3. leases \ {l} \in SUBSET Lease
  BY DEF TypeInv, TypeOK
<1>4. Declined \in AllClients /\ 0 \in IAIDs
  BY ClientsAssumption DEF AllClients
<1>5. leases' = addClntAddr(leases \ {l}, Declined, msg.iface, 0, l.addr)
  BY DEF DeclineAddr
<1>6. \/ leases' = leases \ {l} /\ \E m \in leases \ {l} : m.addr = l.addr
      \/ \E n \in Lease : /\ n.clnt = Declined /\ n.iaid = 0 /\ n.addr = l.addr
                          /\ leases' = (leases \ {l}) \cup {n}
  <2> DEFINE L == leases \ {l}
  <2>1. L \in SUBSET Lease
    BY <1>3
  <2> HIDE DEF L
  <2>2. \/ /\ addClntAddr(L, Declined, msg.iface, 0, l.addr) = L
           /\ \E m \in L : m.addr = l.addr
        \/ \E n \in Lease :
             /\ n.clnt = Declined /\ n.iaid = 0 /\ n.addr = l.addr
             /\ addClntAddr(L, Declined, msg.iface, 0, l.addr) = L \cup {n}
    BY <1>1, <1>2, <1>4, <2>1, AddClntAddrEffect
  <2>3. leases' = addClntAddr(L, Declined, msg.iface, 0, l.addr)
    BY <1>5 DEF L
  <2> QED
    BY <2>2, <2>3 DEF L
<1>7. IsFiniteSet(leases \ {l})
  BY FS_Subset DEF TypeInv
<1>8. IsFiniteSet(leases')
  BY <1>6, <1>7, FS_AddElement
<1>9. leases' \in SUBSET Lease /\ leases \ {l} \subseteq leases'
  BY <1>3, <1>6
<1>10. expired' \in SUBSET leases'
  BY <1>9 DEF DeclineAddr, TypeInv, TypeOK
<1>11. cache' \in Seq(CacheEntry)
  BY <1>2, AddCachedEntryType DEF DeclineAddr, TypeInv, TypeOK
<1> QED
  BY <1>1, <1>6, <1>8, <1>9, <1>10, <1>11 DEF DeclineAddr, Binding, IA

\* The steps of the server's handlers keep the types.
LEMMA HandleType ==
  ASSUME TypeInv, Handle
  PROVE  TypeInv'
<1> USE DEF TypeInv, TypeOK
<1>1. ASSUME NEW iaid \in IAIDs, AssignIA(iaid)
      PROVE  TypeInv'
  <2>1. cache' \in Seq(CacheEntry)
    BY <1>1, AssignCache
  <2>2. CASE \E a \in Addrs : assignAddr(iaid, a)
    <3>1. PICK a \in Addrs : assignAddr(iaid, a)
      BY <2>2
    <3>2. Assigning
      BY <1>1, AssignOutcome
    <3>3. /\ leases' \in SUBSET Lease /\ leases \subseteq leases'
          /\ IsFiniteSet(leases')
          /\ \/ todo' = todo
             \/ todo' = todo (+) SetToBag(Offered(iaid, a)')
      BY <3>1, <3>2, AssignAddrEffect
    <3>5. IsABag(todo') /\ BagToSet(todo') \in SUBSET Lease
      <4>1. Offered(iaid, a)' \in SUBSET Lease
        BY <3>3 DEF Offered, IA
      <4> QED
        BY <3>3, <4>1, BagGrows
    <3>6. options' \in 0 .. MaxOptions
      BY <3>1, <3>2, ClientsAssumption DEF assignAddr, Assigning, NextOption
    <3>4. assigned' \in [Classes -> 0 .. ULong - 1]
      BY <3>1, CountersType DEF assignAddr
    <3> QED
      BY <2>1, <3>1, <3>3, <3>4, <3>5, <3>6 DEF assignAddr
  <2>3. CASE ~ \E a \in Addrs : assignAddr(iaid, a)
    <3>1. /\ leases' = leases /\ expired' \in SUBSET expired
          /\ todo' \in {todo, todo (+) SetToBag(Binding(iaid))}
          /\ repeated' \in BOOLEAN /\ Assigning
          /\ assigned' = assigned /\ options' \in {options, options + 1}
          /\ phase' \in {phase, "spin"} /\ UNCHANGED <<msg, disk, restarts>>
      BY <1>1, <2>3, AssignOutcome
    <3>2. IsABag(todo') /\ BagToSet(todo') \in SUBSET Lease
      <4>1. Binding(iaid) \in SUBSET Lease
        BY DEF Binding, IA
      <4> QED
        BY <3>1, <4>1, BagGrows
    <3>3. options' \in 0 .. MaxOptions
      BY <3>1, ClientsAssumption DEF Assigning, NextOption
    <3> QED
      BY <2>1, <3>1, <3>2, <3>3 DEF Phases
  <2> QED
    BY <2>2, <2>3
<1>2. ASSUME NEW iaid \in IAIDs, RenewIA(iaid)
      PROVE  TypeInv'
  BY <1>2, ClientsAssumption DEF RenewIA, NextOption
<1>3. ASSUME NEW iaid \in IAIDs, RebindIA(iaid)
      PROVE  TypeInv'
  BY <1>3, ClientsAssumption DEF RebindIA, NextOption
<1>4. ASSUME NEW iaid \in IAIDs, RebindDiscarded(iaid)
      PROVE  TypeInv'
  BY <1>4, ClientsAssumption DEF RebindDiscarded, dbVars, Phases
<1>5. ASSUME NEW iaid \in IAIDs, NEW l \in leases, DeclineAddr(iaid, l)
      PROVE  TypeInv'
  <2>1. /\ leases' \in SUBSET Lease /\ expired' \in SUBSET leases'
        /\ IsFiniteSet(leases') /\ cache' \in Seq(CacheEntry)
    BY <1>5, DeclineAddrEffect
  <2> QED
    BY <1>5, <2>1 DEF DeclineAddr, jobVars
<1>6. ASSUME NEW iaid \in IAIDs, NEW l \in leases, ReleaseAddr(iaid, l)
      PROVE  TypeInv'
  <2>1. /\ leases' \in SUBSET Lease /\ expired' \in SUBSET leases'
        /\ IsFiniteSet(leases') /\ cache' \in Seq(CacheEntry)
    <3>1. l \in Lease
      OBVIOUS
    <3> QED
      BY <1>6, <3>1, DelClntAddrEffect DEF ReleaseAddr
  <2>2. assigned' \in [Classes -> 0 .. ULong - 1]
    BY <1>6, CountersType DEF ReleaseAddr
  <2> QED
    BY <1>6, <2>1, <2>2 DEF ReleaseAddr, jobVars
<1>7. CASE Answer
  BY <1>7, ClientsAssumption DEF Answer, dbVars, Phases
<1> QED
  BY <1>1, <1>2, <1>3, <1>4, <1>5, <1>6, <1>7 DEF Handle

\* So do those of the main loop, the environment, crashes and restarts.
LEMMA TypeStep ==
  ASSUME TypeInv, [Next]_vars
  PROVE  TypeInv'
<1>1. CASE Handle
  BY <1>1, HandleType
<1>10. CASE Duties
  BY <1>10, BagOfSet DEF TypeInv, TypeOK, Duties, dbVars, Phases
<1>2. CASE Timeout \/ ReleaseDone \/ DumpCache
  BY <1>2 DEF TypeInv, TypeOK, Timeout, ReleaseDone, DumpCache, dbVars, Phases
<1>3. ASSUME NEW l \in BagToSet(todo), ReleaseOne(l)
      PROVE  TypeInv'
  <2>1. l \in Lease
    BY DEF TypeInv, TypeOK
  <2>2. /\ leases' \in SUBSET Lease /\ expired' \in SUBSET leases'
        /\ IsFiniteSet(leases') /\ cache' \in Seq(CacheEntry)
    BY <1>3, <2>1, DelClntAddrEffect DEF ReleaseOne
  <2>3. assigned' \in [Classes -> 0 .. ULong - 1]
    BY <1>3, CountersType DEF ReleaseOne
  <2>4. IsABag(todo') /\ BagToSet(todo') \in SUBSET Lease
    BY <1>3, BagShrinks DEF ReleaseOne, TypeInv, TypeOK
  <2> QED
    BY <1>3, <2>2, <2>3, <2>4 DEF ReleaseOne, TypeInv, TypeOK
<1>4. CASE DumpDb
  BY <1>4 DEF TypeInv, TypeOK, DumpDb, dbVars, Phases
<1>5. ASSUME NEW l \in leases, Expire(l)
      PROVE  TypeInv'
  BY <1>5 DEF TypeInv, TypeOK, Expire, jobVars
<1>6. ASSUME NEW t \in MsgTypes, NEW c \in Clients, NEW i \in Ifaces, Receive(t, c, i)
      PROVE  TypeInv'
  BY <1>6 DEF TypeInv, TypeOK, Receive, dbVars, Phases, Message
<1>7. CASE Crash
  BY <1>7, CrashImagesType, BootType DEF Crash
<1>8. CASE Restart
  <2> DEFINE image == [leases |-> leases, expired |-> expired, cache |-> cache]
  <2>1. image \in [leases : SUBSET Lease, expired : SUBSET Lease,
                   cache : Seq(CacheEntry)]
    BY DEF TypeInv, TypeOK
  <2>2. image.expired \subseteq image.leases /\ IsFiniteSet(image.leases)
    BY DEF TypeInv, TypeOK
  <2>3. Boot(image)
    BY <1>8 DEF Restart
  <2> HIDE DEF image
  <2> QED
    BY <2>1, <2>2, <2>3, BootType
<1>9. CASE UNCHANGED vars
  BY <1>9 DEF TypeInv, TypeOK, vars, dbVars, jobVars
<1> QED
  BY <1>1, <1>2, <1>3, <1>4, <1>5, <1>6, <1>7, <1>8, <1>9, <1>10
  DEF Next, Work, Environment

LEMMA TypeInit == Init => TypeInv
<1> SUFFICES ASSUME Init PROVE TypeInv
  OBVIOUS
<1>1. assigned \in [Classes -> 0 .. ULong - 1]
  BY ConfigAssumption DEF Init
<1>2. restarts \in 0 .. MaxRestarts
  BY ClientsAssumption DEF Init
<1>3. IsABag(todo) /\ BagToSet(todo) = {}
  <2>1. todo = EmptyBag
    BY DEF Init
  <2> QED
    BY <2>1, BagOfNone
<1>4. repeated \in BOOLEAN
  BY Zenon DEF Init
<1> QED
  BY <1>1, <1>2, <1>3, <1>4, FS_EmptySet, EmptySeq, ClientsAssumption DEF Init, TypeInv, TypeOK, Phases

LEMMA TypeInvariance == Spec => []TypeInv
<1>1. TypeInv /\ [Next]_vars => TypeInv'
  BY TypeStep
<1> QED
  BY TypeInit, <1>1, PTL DEF Spec

\* The variables stay within their types, whatever the configuration: in
\* particular a restart brings back nothing but leases, and no expiry list
\* names a lease the database does not hold.
THEOREM TypeCorrect == Spec => []TypeOK
<1>1. TypeInv => TypeOK
  BY DEF TypeInv
<1> QED
  BY TypeInvariance, <1>1, PTL

=============================================================================
