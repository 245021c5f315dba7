------------------------- MODULE SrvPrefixes_proofs -------------------------
(***************************************************************************)
(* Proofs about SrvPrefixes, for every configuration of classes, pools,     *)
(* reservations and limits, any number of clients, IAs and restarts.        *)
(***************************************************************************)
EXTENDS SrvPrefixes, Least_proofs, FiniteSetTheorems, SequenceTheorems, TLAPS

-----------------------------------------------------------------------------
(* The library operators and the counters' arithmetic                       *)

\* Min of a set of naturals is one of its members: getClassByPrefix and
\* RandomClass name a class.
LEMMA MinIsMember ==
  ASSUME NEW S, S \subseteq Nat, S # {}
  PROVE  Min(S) \in S
BY LeastExists DEF Min

\* Counting on modulo the width of the counter forgets nothing but the width.
LEMMA ModAdd ==
  ASSUME NEW U \in Nat \ {0}, NEW a \in Int, NEW n \in Int
  PROVE  /\ ((a % U) + n) % U = (a + n) % U
         /\ ((a % U) - n) % U = (a - n) % U
<1> DEFINE q == a \div U
           r == a % U
<1>1. q \in Int /\ r \in 0 .. U - 1 /\ a = U * q + r
  OBVIOUS
<1> HIDE DEF q, r
<1>2. ASSUME NEW m \in Int
      PROVE  (m + U * q) % U = m % U
  <2> DEFINE d == m \div U
             e == m % U
  <2>1. d \in Int /\ e \in 0 .. U - 1 /\ m = U * d + e
    OBVIOUS
  <2> HIDE DEF d, e
  <2>2. m + U * q = U * (d + q) + e
    BY <1>1, <2>1
  <2>3. (U * (d + q) + e) % U = e
    <3> DEFINE x == U * (d + q) + e
               f == x \div U
               g == x % U
    <3>1. x \in Int
      BY <1>1, <2>1
    <3>2. f \in Int /\ g \in 0 .. U - 1 /\ x = U * f + g
      <4> HIDE DEF x
      <4> QED BY <3>1
    <3> HIDE DEF f, g
    <3>3. U * (d + q - f) = g - e
      BY <1>1, <2>1, <3>2
    <3>4. d + q - f = 0
      <4> DEFINE h == d + q - f
      <4>1. h \in Int /\ U * h = g - e /\ g - e < U /\ g - e > -U
        BY <1>1, <2>1, <3>2, <3>3
      <4> HIDE DEF h
      <4>2. h >= 1 => U * h >= U
        BY <4>1
      <4>3. h <= -1 => U * h <= -U
        BY <4>1
      <4>4. h = 0
        BY <4>1, <4>2, <4>3
      <4> QED BY <4>4 DEF h
    <3>5. g = e
      BY <1>1, <2>1, <3>2, <3>3, <3>4
    <3> QED BY <3>5 DEF g
  <2> QED
    BY <2>2, <2>3 DEF e
<1>3. a + n = (r + n) + U * q /\ a - n = (r - n) + U * q
  BY <1>1
<1>4. r + n \in Int /\ r - n \in Int
  BY <1>1
<1>5. /\ ((r + n) + U * q) % U = (r + n) % U
      /\ ((r - n) + U * q) % U = (r - n) % U
  BY <1>2, <1>4
<1>6. (a + n) % U = (r + n) % U /\ (a - n) % U = (r - n) % U
  BY <1>3, <1>5
<1> QED
  BY <1>6 DEF r

\* The cardinalities of a disjoint union, of a rest, of anything finite.
LEMMA Counting ==
  ASSUME NEW A, IsFiniteSet(A), NEW B, IsFiniteSet(B)
  PROVE  /\ Cardinality(A) \in Nat
         /\ A \cap B = {} => Cardinality(A \cup B) = Cardinality(A) + Cardinality(B)
         /\ B \subseteq A => Cardinality(A \ B) = Cardinality(A) - Cardinality(B)
<1>1. Cardinality(A) \in Nat /\ Cardinality(B) \in Nat
  BY FS_CardinalityType
<1>2. ASSUME A \cap B = {}
      PROVE  Cardinality(A \cup B) = Cardinality(A) + Cardinality(B)
  <2>1. Cardinality(A \cap B) = 0
    BY <1>2, FS_EmptySet
  <2>2. Cardinality(A \cup B) = Cardinality(A) + Cardinality(B) - Cardinality(A \cap B)
    BY FS_Union
  <2>3. \A m, n \in Nat : m + n - 0 = m + n
    OBVIOUS
  <2> QED
    BY <1>1, <2>1, <2>2, <2>3
<1>3. ASSUME B \subseteq A
      PROVE  Cardinality(A \ B) = Cardinality(A) - Cardinality(B)
  <2>1. A \cap B = B
    BY <1>3
  <2> QED
    BY <2>1, FS_Difference
<1> QED
  BY <1>1, <1>2, <1>3

\* The prefixes of a class, of a set of leases and of another it shares none
\* with, and of a set without some of its leases.
LEMMA CountInParts ==
  ASSUME NEW L, IsFiniteSet(L), NEW N, IsFiniteSet(N), NEW k
  PROVE  /\ CountIn(L, k) \in Nat
         /\ L \cap N = {} => CountIn(L \cup N, k) = CountIn(L, k) + CountIn(N, k)
         /\ N \subseteq L => CountIn(L \ N, k) = CountIn(L, k) - CountIn(N, k)
<1> DEFINE A == {l \in L : getClassByPrefix(l.pfx) = k}
           B == {l \in N : getClassByPrefix(l.pfx) = k}
<1>1. IsFiniteSet(A) /\ IsFiniteSet(B)
  BY FS_Subset
<1>2. CountIn(L, k) = Cardinality(A) /\ CountIn(N, k) = Cardinality(B)
  BY DEF CountIn
<1>3. L \cap N = {} => CountIn(L \cup N, k) = Cardinality(A \cup B) /\ A \cap B = {}
  <2>1. {l \in L \cup N : getClassByPrefix(l.pfx) = k} = A \cup B
    OBVIOUS
  <2> QED
    BY <2>1 DEF CountIn
<1>4. N \subseteq L => CountIn(L \ N, k) = Cardinality(A \ B) /\ B \subseteq A
  <2>1. {l \in L \ N : getClassByPrefix(l.pfx) = k} = A \ B
    OBVIOUS
  <2> QED
    BY <2>1 DEF CountIn
<1> HIDE DEF A, B
<1>5. Cardinality(A) \in Nat
  BY <1>1, Counting
<1>6. A \cap B = {} => Cardinality(A \cup B) = Cardinality(A) + Cardinality(B)
  BY <1>1, Counting
<1>7. B \subseteq A => Cardinality(A \ B) = Cardinality(A) - Cardinality(B)
  BY <1>1, Counting
<1> QED
  BY <1>2, <1>3, <1>4, <1>5, <1>6, <1>7

-----------------------------------------------------------------------------
(* The operators of the model                                               *)

\* A reserved prefix, and a hint cut to the delegated length, are prefixes.
LEMMA PrefixTypes ==
  /\ \A p \in Prefix : truncate(p) \in Prefix
  /\ \A c \in Clients : Exception[c] # NoPrefix => Exception[c] \in Prefix
<1>1. \A p \in Prefix : truncate(p) \in Prefix
  BY PrefixAssumption DEF truncate, Prefix
<1>2. \A c \in Clients : Exception[c] # NoPrefix => Exception[c] \in Prefix
  BY PrefixAssumption
<1> QED
  BY <1>1, <1>2

\* The class a list is drawn from is one that is open to the client.
LEMMA RandomClassType ==
  ASSUME RandomClass # NoClass
  PROVE  RandomClass \in Classes /\ msg.clnt \in Supported[RandomClass]
<1> DEFINE open == {k \in Classes : msg.clnt \in Supported[k]}
<1>1. open # {} /\ RandomClass = Min(open)
  BY DEF RandomClass
<1>2. open \subseteq Nat
  BY PrefixAssumption
<1>3. Min(open) \in open
  <2> HIDE DEF open
  <2> QED BY <1>1, <1>2, MinIsMember
<1> QED
  BY <1>1, <1>3

\* A drawn list holds one prefix of each pool of the class at most.
LEMMA RandomListType ==
  ASSUME NEW k \in Classes, NEW n \in getRandomNet(k)
  PROVE  /\ getRandomList(k, n) \in SUBSET Prefix
         /\ IsFiniteSet(getRandomList(k, n))
         /\ Cardinality(getRandomList(k, n)) <= Len(Pools[k])
<1> DEFINE f == [j \in 1 .. Len(Pools[k]) |-> [pool |-> Pools[k][j], net |-> n, tail |-> 0]]
<1>1. /\ Pools[k] \in Seq(PoolIds) /\ Size[k] \in Nat \ {0}
      /\ Len(Pools[k]) \in Nat /\ DOMAIN Pools[k] = 1 .. Len(Pools[k])
  BY PrefixAssumption, LenProperties
<1>2. n \in 0 .. Size[k] - 1
  <2> DEFINE top == IF Size[k] = 1 THEN 0 ELSE Size[k] \div 2 - 1
  <2>1. top \in 0 .. Size[k] - 1
    <3>1. \A m \in Nat \ {0, 1} : m \div 2 - 1 \in 0 .. m - 1
      OBVIOUS
    <3> QED
      BY <1>1, <3>1
  <2>2. n = top \/ n \in 0 .. top
    BY DEF getRandomNet
  <2> HIDE DEF top
  <2> QED
    BY <1>1, <2>1, <2>2
<1>3. n \in Nets
  BY <1>2 DEF Nets
<1>4. getRandomList(k, n) = {f[j] : j \in 1 .. Len(Pools[k])}
  BY <1>1 DEF getRandomList, PoolsOf
<1>5. \A j \in 1 .. Len(Pools[k]) : f[j] \in Prefix
  BY <1>1, <1>3, ElementOfSeq, PrefixAssumption DEF Prefix
<1>6. IsFiniteSet(1 .. Len(Pools[k])) /\ Cardinality(1 .. Len(Pools[k])) = Len(Pools[k])
  BY <1>1, FS_Interval
<1>7. f \in Surjection(1 .. Len(Pools[k]), getRandomList(k, n))
  BY <1>4 DEF Surjection
<1> HIDE DEF f
<1>8. /\ IsFiniteSet(getRandomList(k, n))
      /\ Cardinality(getRandomList(k, n)) <= Cardinality(1 .. Len(Pools[k]))
  BY <1>6, <1>7, FS_Surjection
<1> QED
  BY <1>4, <1>5, <1>6, <1>8

\* The leases made of prefixes are as many at most, and one to a prefix.
New(c, iaid, P) == {[clnt |-> c, iaid |-> iaid, pfx |-> p] : p \in P}

LEMMA NewLeases ==
  ASSUME NEW c \in Clients, NEW iaid \in IAIDs, NEW P \in SUBSET Prefix, IsFiniteSet(P)
  PROVE  /\ New(c, iaid, P) \in SUBSET Lease /\ IsFiniteSet(New(c, iaid, P))
         /\ Cardinality(New(c, iaid, P)) <= Cardinality(P)
         /\ \A l \in New(c, iaid, P) : l.clnt = c /\ l.iaid = iaid /\ l.pfx \in P
         /\ \A l, m \in New(c, iaid, P) : l.pfx = m.pfx => l = m
<1> DEFINE f == [p \in P |-> [clnt |-> c, iaid |-> iaid, pfx |-> p]]
<1>1. f \in Surjection(P, New(c, iaid, P))
  BY DEF Surjection, New
<1> HIDE DEF f
<1>2. /\ IsFiniteSet(New(c, iaid, P))
      /\ Cardinality(New(c, iaid, P)) <= Cardinality(P)
  BY <1>1, FS_Surjection
<1> QED
  BY <1>2 DEF Lease, New

\* Counters of any leases keep their width.
LEMMA CountersType ==
  ASSUME assigned \in [Classes -> 0 .. ULong - 1], NEW L, IsFiniteSet(L)
  PROVE  /\ incrAssigned(L) \in [Classes -> 0 .. ULong - 1]
         /\ decrAssigned(L) \in [Classes -> 0 .. ULong - 1]
         /\ setCounters(L) \in [Classes -> 0 .. ULong - 1]
<1>1. \A n \in Int : n % ULong \in 0 .. ULong - 1
  BY PrefixAssumption
<1>2. \A k \in Classes : CountIn(L, k) \in Nat
  BY CountInParts
<1>3. \A k \in Classes : assigned[k] \in Int
  BY PrefixAssumption
<1>4. \A k \in Classes : /\ assigned[k] + CountIn(L, k) \in Int
                         /\ assigned[k] - CountIn(L, k) \in Int
                         /\ CountIn(L, k) \in Int
  BY <1>2, <1>3
<1>5. \A k \in Classes : /\ (assigned[k] + CountIn(L, k)) % ULong \in 0 .. ULong - 1
                         /\ (assigned[k] - CountIn(L, k)) % ULong \in 0 .. ULong - 1
                         /\ CountIn(L, k) % ULong \in 0 .. ULong - 1
  BY <1>1, <1>4
<1> QED
  BY <1>5 DEF incrAssigned, decrAssigned, setCounters

-----------------------------------------------------------------------------
(* The offers of an ADVERTISE                                               *)

\* The leases L in the option that is processed now.
Stands(L) == {[option |-> options + 1, lease |-> l] : l \in L}

LEMMA StandsType ==
  ASSUME NEW L, IsFiniteSet(L)
  PROVE  /\ IsFiniteSet(Stands(L))
         /\ {o.lease : o \in Stands(L)} = L
         /\ \A o \in Stands(L) : o.option = options + 1 /\ o.lease \in L
         /\ \A o, q \in Stands(L) : o.lease = q.lease => o = q
<1> DEFINE f == [l \in L |-> [option |-> options + 1, lease |-> l]]
<1>1. f \in Surjection(L, Stands(L))
  BY DEF Surjection, Stands
<1> HIDE DEF f
<1>2. IsFiniteSet(Stands(L))
  BY <1>1, FS_Surjection
<1>3. {o.lease : o \in Stands(L)} = L
  <2>1. ASSUME NEW l \in L
        PROVE  \E o \in Stands(L) : o.lease = l
    <3>1. [option |-> options + 1, lease |-> l] \in Stands(L)
      BY DEF Stands
    <3> QED
      BY <3>1
  <2>2. \A o \in Stands(L) : o.lease \in L
    BY DEF Stands
  <2> QED
    BY <2>1, <2>2
<1>4. \A o \in Stands(L) : o.option = options + 1 /\ o.lease \in L
  BY DEF Stands
<1>5. \A o, q \in Stands(L) : o.lease = q.lease => o = q
  BY DEF Stands
<1> QED
  BY <1>2, <1>3, <1>4, <1>5

\* Offers of which no two are of one lease are as many as the leases.
LEMMA OncePerLease ==
  ASSUME IsFiniteSet(offered), \A o, q \in offered : o.lease = q.lease => o = q
  PROVE  decrOffered = decrAssigned(Advertised)
<1>1. ASSUME NEW k \in Classes
      PROVE  Cardinality({o \in offered : getClassByPrefix(o.lease.pfx) = k})
               = CountIn(Advertised, k)
  <2> DEFINE A == {o \in offered : getClassByPrefix(o.lease.pfx) = k}
             B == {l \in Advertised : getClassByPrefix(l.pfx) = k}
             f == [o \in A |-> o.lease]
  <2>1. IsFiniteSet(A)
    BY FS_Subset
  <2>2. f \in [A -> B] /\ \A l \in B : \E o \in A : f[o] = l
    BY DEF Advertised
  <2>3. \A o, q \in A : f[o] = f[q] => o = q
    OBVIOUS
  <2>4. f \in Surjection(A, B)
    BY <2>2 DEF Surjection
  <2>5. f \in Injection(A, B)
    BY <2>2, <2>3 DEF Injection, IsInjective
  <2>6. CountIn(Advertised, k) = Cardinality(B)
    BY DEF CountIn
  <2> HIDE DEF A, B, f
  <2>7. Cardinality(B) = Cardinality(A)
    BY <2>1, <2>4, <2>5, FS_Surjection
  <2> QED
    BY <2>6, <2>7 DEF A
<1> QED
  BY <1>1 DEF decrOffered, decrAssigned

-----------------------------------------------------------------------------
(* Type correctness.  Beside the types: the database is finite, so that it   *)
(* can be counted, an ADVERTISE offers what belongs to its client, and each  *)
(* lease once unless a SOLICIT asked for it twice.                          *)

Once == \A o, q \in offered : o.lease = q.lease => o = q

TypeInv ==
  /\ TypeOK
  /\ IsFiniteSet(leases) /\ IsFiniteSet(disk) /\ IsFiniteSet(offered)
  /\ offered # {} => msg.type = "solicit"
  /\ \A l \in Advertised : l.clnt = msg.clnt
  /\ ~repeated => Once

\* While a message is processed it is one.
LEMMA ProcessedMsg ==
  ASSUME TypeInv, phase = "process"
  PROVE  msg \in Message /\ msg.clnt \in Clients
BY DEF TypeInv, TypeOK, Message

\* What one IA_PD gets: new leases of the client, each of a prefix that was free
\* or is reserved, and within the limit unless the client has a reservation.
Granted(N) ==
  /\ N \in SUBSET Lease /\ IsFiniteSet(N) /\ N \cap leases = {}
  /\ \A l \in N : l.clnt = msg.clnt
  /\ \A l \in N : prefixIsFree(l.pfx) \/ prefixReserved(l.pfx)
  /\ \A l, m \in N : l.pfx = m.pfx => l = m
  /\ Exception[msg.clnt] = NoPrefix =>
       /\ ~AtClntMaxLease
       /\ \E k \in Classes : Cardinality(N) <= Len(Pools[k])
  /\ leases' = leases \cup N
  /\ assigned' = incrAssigned(N)
  /\ offered' = IF msg.type = "solicit" THEN offered \cup Stands(N) ELSE offered
  /\ options' = options + 1
  /\ UNCHANGED <<expired, disk, phase, msg, repeated, restarts>>

\* ... or nothing: what it has is sent again, it is refused, the search hangs.
NotGranted(iaid) ==
  /\ UNCHANGED <<leases, expired, assigned, disk, msg, restarts>>
  /\ phase' \in {"process", "spin"}
  /\ options' \in {options, options + 1}
  /\ \/ offered' = offered
     \/ msg.type = "solicit" /\ offered' = offered \cup Stands(IA(msg.clnt, iaid))
  /\ ~repeated' => /\ ~repeated
                   /\ offered' = offered \/ IA(msg.clnt, iaid) \cap Advertised = {}

\* assign grants what its caller has found.
LEMMA AssignGrants ==
  ASSUME TypeInv, NEW iaid \in IAIDs, Assigning, IA(msg.clnt, iaid) = {},
         NEW P \in SUBSET Prefix, IsFiniteSet(P), assign(iaid, P),
         \A p \in P : prefixIsFree(p) \/ prefixReserved(p),
         Exception[msg.clnt] = NoPrefix =>
            /\ ~AtClntMaxLease
            /\ \E k \in Classes : Cardinality(P) <= Len(Pools[k])
  PROVE  \E N : Granted(N)
<1> DEFINE N == New(msg.clnt, iaid, P)
<1>1. msg.clnt \in Clients
  BY ProcessedMsg DEF Assigning, NextOption
<1>2. /\ leases' = leases \cup N /\ assigned' = incrAssigned(N)
      /\ offered' = IF msg.type = "solicit" THEN offered \cup Stands(N) ELSE offered
      /\ options' = options + 1
      /\ UNCHANGED <<expired, disk, phase, msg, repeated, restarts>>
  BY DEF assign, offer, Stands, New
<1>3. /\ N \in SUBSET Lease /\ IsFiniteSet(N) /\ Cardinality(N) <= Cardinality(P)
      /\ \A l \in N : l.clnt = msg.clnt /\ l.iaid = iaid /\ l.pfx \in P
      /\ \A l, m \in N : l.pfx = m.pfx => l = m
  BY <1>1, NewLeases
<1> HIDE DEF N
<1>4. N \cap leases = {}
  BY <1>3 DEF IA
<1>5. \A l \in N : prefixIsFree(l.pfx) \/ prefixReserved(l.pfx)
  BY <1>3
<1>6. Exception[msg.clnt] = NoPrefix => \E k \in Classes : Cardinality(N) <= Len(Pools[k])
  <2> SUFFICES ASSUME Exception[msg.clnt] = NoPrefix
               PROVE  \E k \in Classes : Cardinality(N) <= Len(Pools[k])
    OBVIOUS
  <2>1. PICK k \in Classes : Cardinality(P) <= Len(Pools[k])
    OBVIOUS
  <2>2. Len(Pools[k]) \in Nat /\ Cardinality(P) \in Nat /\ Cardinality(N) \in Nat
    BY <1>3, FS_CardinalityType, PrefixAssumption, LenProperties
  <2> QED
    BY <1>3, <2>1, <2>2
<1> QED
  BY <1>2, <1>3, <1>4, <1>5, <1>6 DEF Granted

\* A single prefix is within the length of every class's list.
LEMMA OnePrefix ==
  ASSUME NEW p
  PROVE  IsFiniteSet({p}) /\ \E k \in Classes : Cardinality({p}) <= Len(Pools[k])
<1>1. IsFiniteSet({p}) /\ Cardinality({p}) = 1
  BY FS_Singleton
<1>2. PICK k \in Classes : TRUE
  BY PrefixAssumption
<1>3. Len(Pools[k]) \in Nat /\ Len(Pools[k]) # 0
  BY PrefixAssumption, LenProperties, EmptySeq
<1> QED
  BY <1>1, <1>3

\* Every way through the assignment policy grants or grants nothing.
LEMMA FreePrefixesOutcome ==
  ASSUME TypeInv, NEW iaid \in IAIDs, getFreePrefixes(iaid)
  PROVE  (\E N : Granted(N)) \/ NotGranted(iaid)
<1>1. /\ Assigning /\ IA(msg.clnt, iaid) = {} /\ ~AtClntMaxLease
      /\ phase = "process"
  BY DEF getFreePrefixes, Assigning, NextOption
<1>2. ASSUME NEW hint \in Prefix \cup {NoPrefix}, assignHint(iaid, hint)
      PROVE  \E N : Granted(N)
  <2>1. /\ hint \in Prefix /\ prefixIsFree(truncate(hint))
        /\ assign(iaid, {truncate(hint)})
    BY <1>2 DEF assignHint, HintUsable
  <2>2. {truncate(hint)} \in SUBSET Prefix
    BY <2>1, PrefixTypes
  <2> QED
    BY <1>1, <2>1, <2>2, OnePrefix, AssignGrants
<1>3. ASSUME NEW hint \in Prefix \cup {NoPrefix}, assignOther(iaid, hint)
      PROVE  \E N : Granted(N)
  <2>1. PICK p \in Drawn(getClassByPrefix(hint)) : prefixIsFree(p) /\ assign(iaid, {p})
    BY <1>3 DEF assignOther
  <2>2. {p} \in SUBSET Prefix
    BY DEF Drawn
  <2> QED
    BY <1>1, <2>1, <2>2, OnePrefix, AssignGrants
<1>4. ASSUME NEW hint \in Prefix \cup {NoPrefix}, searchSpins(hint)
      PROVE  NotGranted(iaid)
  BY <1>4 DEF searchSpins, NotGranted
<1>5. ASSUME NEW hint \in Prefix \cup {NoPrefix}, assignRandom(iaid, hint)
      PROVE  \E N : Granted(N)
  <2>1. RandomClass \in Classes
    BY <1>5, RandomClassType DEF assignRandom
  <2>2. PICK n \in getRandomNet(RandomClass) :
             /\ AllFree(getRandomList(RandomClass, n))
             /\ assign(iaid, getRandomList(RandomClass, n))
    BY <1>5 DEF assignRandom
  <2> DEFINE P == getRandomList(RandomClass, n)
  <2>3. /\ P \in SUBSET Prefix /\ IsFiniteSet(P)
        /\ Cardinality(P) <= Len(Pools[RandomClass])
    BY <2>1, RandomListType
  <2>4. \A p \in P : prefixIsFree(p)
    BY <2>2 DEF AllFree
  <2>5. assign(iaid, P)
    BY <2>2
  <2> HIDE DEF P
  <2> QED
    BY <1>1, <2>1, <2>3, <2>4, <2>5, AssignGrants
<1>6. ASSUME NEW hint \in Prefix \cup {NoPrefix}, findNothing(hint)
      PROVE  NotGranted(iaid)
  BY <1>1, <1>6 DEF findNothing, NotGranted
<1> QED
  BY <1>2, <1>3, <1>4, <1>5, <1>6 DEF getFreePrefixes

LEMMA SolicitOutcome ==
  ASSUME TypeInv, NEW iaid \in IAIDs, solicitRequest(iaid)
  PROVE  Assigning /\ ((\E N : Granted(N)) \/ NotGranted(iaid))
<1>1. CASE existingLease(iaid)
  <2>1. ~repeated' => ~repeated /\ IA(msg.clnt, iaid) \cap Advertised = {}
    BY <1>1, Zenon DEF existingLease
  <2> QED
    BY <1>1, <2>1 DEF existingLease, offer, Stands, NotGranted, Assigning, NextOption
<1>2. CASE assignFixedLease(iaid)
  <2>1. Assigning /\ msg.clnt \in Clients
    BY <1>2, ProcessedMsg DEF assignFixedLease, Assigning, NextOption
  <2>2. Exception[msg.clnt] \in Prefix /\ prefixReserved(Exception[msg.clnt])
    BY <1>2, <2>1, PrefixTypes DEF assignFixedLease, prefixReserved
  <2>3. {Exception[msg.clnt]} \in SUBSET Prefix /\ IsFiniteSet({Exception[msg.clnt]})
    BY <2>2, FS_Singleton
  <2> QED
    BY <1>2, <2>1, <2>2, <2>3, AssignGrants DEF assignFixedLease
<1>3. CASE getFreePrefixes(iaid)
  BY <1>3, FreePrefixesOutcome DEF getFreePrefixes
<1>4. CASE refuse(iaid)
  BY <1>4 DEF refuse, NotGranted, Assigning, NextOption
<1> QED
  BY <1>1, <1>2, <1>3, <1>4 DEF solicitRequest

\* What happens to a database when leases of it end.
Removed(N) ==
  /\ N \in SUBSET leases
  /\ leases' = leases \ N
  /\ assigned' \in [Classes -> 0 .. ULong - 1]
  /\ ~repeated => assigned' = decrAssigned(N)
  /\ expired' \in SUBSET (expired \ N)
  /\ UNCHANGED <<disk, repeated, restarts>>

LEMMA RemovedType ==
  ASSUME TypeInv, NEW N, Removed(N)
  PROVE  /\ leases' \in SUBSET Lease /\ IsFiniteSet(leases') /\ expired' \subseteq leases'
         /\ assigned' \in [Classes -> 0 .. ULong - 1]
         /\ IsFiniteSet(N)
<1>1. IsFiniteSet(N) /\ IsFiniteSet(leases \ N)
  BY FS_Subset DEF TypeInv, Removed
<1> QED
  BY <1>1 DEF TypeInv, TypeOK, Removed

\* The ways a message or the duties end leases.
LEMMA ReleaseRemoves ==
  ASSUME TypeInv, NEW iaid \in IAIDs, NEW P, release(iaid, P)
  PROVE  \E N : Removed(N) /\ \A l \in N : l.clnt = msg.clnt
<1> DEFINE N == {l \in IA(msg.clnt, iaid) : l.pfx \in P}
<1>1. N \in SUBSET leases /\ \A l \in N : l.clnt = msg.clnt
  BY DEF IA
<1>2. leases' = leases \ N /\ assigned' = decrAssigned(N) /\ expired' = expired \ N
  BY DEF release
<1> HIDE DEF N
<1>3. IsFiniteSet(N)
  BY <1>1, FS_Subset DEF TypeInv
<1>4. assigned' \in [Classes -> 0 .. ULong - 1]
  BY <1>2, <1>3, CountersType DEF TypeInv, TypeOK
<1> QED
  BY <1>1, <1>2, <1>4 DEF Removed, release

LEMMA AnswerRemoves ==
  ASSUME TypeInv, Answer
  PROVE  Removed(Advertised) /\ \A l \in Advertised : l.clnt = msg.clnt
<1>1. assigned' \in [Classes -> 0 .. ULong - 1]
  <2>1. \A n \in Int : n % ULong \in 0 .. ULong - 1
    BY PrefixAssumption
  <2>2. ASSUME NEW k \in Classes
        PROVE  assigned[k] - Cardinality({o \in offered : getClassByPrefix(o.lease.pfx) = k})
                 \in Int
    <3> DEFINE A == {o \in offered : getClassByPrefix(o.lease.pfx) = k}
    <3>1. IsFiniteSet(A)
      BY FS_Subset DEF TypeInv
    <3> HIDE DEF A
    <3>2. Cardinality(A) \in Nat /\ assigned[k] \in Int
      BY <3>1, FS_CardinalityType, PrefixAssumption DEF TypeInv, TypeOK
    <3>3. assigned[k] - Cardinality(A) \in Int
      BY <3>2
    <3> QED
      BY <3>3 DEF A
  <2> QED
    BY <2>1, <2>2 DEF Answer, decrOffered
<1>2. ~repeated => assigned' = decrAssigned(Advertised)
  BY OncePerLease DEF Answer, TypeInv, Once
<1> QED
  BY <1>1, <1>2 DEF Answer, Removed, TypeInv, TypeOK

LEMMA DutiesRemoves ==
  ASSUME TypeInv, Duties
  PROVE  Removed(expired) /\ phase = "select"
<1>1. IsFiniteSet(expired)
  BY FS_Subset DEF TypeInv, TypeOK
<1>2. assigned' \in [Classes -> 0 .. ULong - 1]
  BY <1>1, CountersType DEF Duties, TypeInv, TypeOK
<1> QED
  BY <1>2 DEF Duties, Removed, TypeInv, TypeOK

\* New offers of a client's leases, none offered before unless repeated.
LEMMA OffersType ==
  ASSUME TypeInv, NextOption({"solicit", "request"}), NEW L \in SUBSET Lease, IsFiniteSet(L),
         L \subseteq leases', \A l \in L : l.clnt = msg.clnt,
         leases \subseteq leases', msg' = msg, options' = options + 1, msg.type = "solicit",
         ~repeated' => ~repeated /\ L \cap Advertised = {},
         offered' = offered \cup Stands(L)
  PROVE  /\ options' \in 0 .. MaxOptions /\ IsFiniteSet(offered')
         /\ offered' \subseteq Offer /\ Advertised' \subseteq leases'
         /\ \A l \in Advertised' : l.clnt = msg.clnt
         /\ ~repeated' => Once'
<1>1. /\ IsFiniteSet(Stands(L)) /\ {o.lease : o \in Stands(L)} = L
      /\ \A o \in Stands(L) : o.option = options + 1 /\ o.lease \in L
      /\ \A o, q \in Stands(L) : o.lease = q.lease => o = q
  BY StandsType
<1>2. IsFiniteSet(offered')
  BY <1>1, FS_Union DEF TypeInv
<1>3. options + 1 \in 1 .. MaxOptions
  BY PrefixAssumption DEF NextOption, TypeInv, TypeOK
<1>4. Stands(L) \subseteq Offer
  BY <1>3 DEF Stands, Offer
<1>5. Advertised' = Advertised \cup L
  BY <1>1 DEF Advertised
<1>6. ~repeated' => Once'
  <2> SUFFICES ASSUME ~repeated', NEW o \in offered', NEW q \in offered', o.lease = q.lease
               PROVE  o = q
    BY DEF Once
  <2>1. L \cap Advertised = {}
    OBVIOUS
  <2>2. \A x, y \in offered : x.lease = y.lease => x = y
    BY DEF TypeInv, Once
  <2>3. \A x \in offered : x.lease \in Advertised
    BY DEF Advertised
  <2> QED
    BY <1>1, <2>1, <2>2, <2>3
<1> QED
  BY <1>2, <1>3, <1>4, <1>5, <1>6, PrefixAssumption DEF TypeInv, TypeOK

LEMMA TypeStep ==
  ASSUME TypeInv, [Next]_vars
  PROVE  TypeInv'
<1>1. ASSUME NEW t \in {"solicit", "request", "renew", "release"}, NEW c \in Clients,
             Receive(t, c)
      PROVE  TypeInv'
  <2>1. msg' \in Message /\ msg' # NoMsg
    BY <1>1 DEF Receive, Message, NoMsg
  <2>2. offered = {} /\ Advertised = {} /\ Advertised' = {}
    BY <1>1 DEF Receive, TypeInv, TypeOK, NoMsg, Advertised
  <2>3. repeated' \in BOOLEAN
    BY <1>1, Zenon DEF Receive, TypeInv, TypeOK
  <2> QED
    BY <1>1, <2>1, <2>2, <2>3 DEF Receive, TypeInv, TypeOK, Phases, Once
<1>2. ASSUME NEW iaid \in IAIDs, solicitRequest(iaid)
      PROVE  TypeInv'
  <2>1. Assigning /\ phase = "process" /\ options' \in 0 .. MaxOptions
    <3>1. options' \in {options, options + 1} /\ Assigning
      BY <1>2, SolicitOutcome DEF Granted, NotGranted
    <3> QED
      BY <3>1, PrefixAssumption DEF Assigning, NextOption, TypeInv, TypeOK
  <2>2. repeated' \in BOOLEAN
    BY <1>2, Zenon DEF solicitRequest, existingLease, assignFixedLease, getFreePrefixes,
       refuse, assignHint, assignOther, searchSpins, assignRandom, findNothing, assign,
       TypeInv, TypeOK
  <2>3. ASSUME NEW N, Granted(N)
        PROVE  TypeInv'
    <3>1. IsFiniteSet(leases \cup N)
      BY <2>3, FS_Union DEF TypeInv, Granted
    <3>2. assigned' \in [Classes -> 0 .. ULong - 1]
      BY <2>3, CountersType DEF TypeInv, TypeOK, Granted
    <3>3. ~repeated' => ~repeated
      BY <2>3, Zenon DEF Granted
    <3>4. /\ leases' = leases \cup N /\ leases' \in SUBSET Lease /\ N \in SUBSET Lease
          /\ IsFiniteSet(N) /\ N \cap leases = {} /\ \A l \in N : l.clnt = msg.clnt
          /\ UNCHANGED <<expired, disk, phase, msg, restarts>>
      BY <2>3 DEF Granted, TypeInv, TypeOK
    <3>5. /\ IsFiniteSet(offered') /\ offered' \subseteq Offer /\ Advertised' \subseteq leases'
          /\ \A l \in Advertised' : l.clnt = msg.clnt
          /\ ~repeated' => Once'
          /\ offered' # {} => msg.type = "solicit"
      <4>1. CASE msg.type = "solicit"
        <5>1. N \cap Advertised = {}
          BY <3>4 DEF TypeInv, TypeOK
        <5>2. offered' = offered \cup Stands(N) /\ options' = options + 1
          BY <2>3, <4>1 DEF Granted
        <5> QED
          BY <2>1, <3>3, <3>4, <4>1, <5>1, <5>2, OffersType DEF Assigning
      <4>2. CASE msg.type # "solicit"
        <5>1. offered' = {} /\ Advertised' = {}
          BY <2>3, <4>2 DEF Granted, TypeInv, Advertised
        <5> QED
          BY <5>1, <4>2, FS_EmptySet DEF Once
      <4> QED
        BY <4>1, <4>2
    <3> QED
      BY <2>1, <2>2, <3>1, <3>2, <3>4, <3>5 DEF TypeInv, TypeOK
  <2>4. CASE NotGranted(iaid)
    <3>1. /\ UNCHANGED <<leases, expired, assigned, disk, msg, restarts>>
          /\ phase' \in {"process", "spin"}
      BY <2>4 DEF NotGranted
    <3>2. /\ IsFiniteSet(offered') /\ offered' \subseteq Offer /\ Advertised' \subseteq leases'
          /\ \A l \in Advertised' : l.clnt = msg.clnt
          /\ ~repeated' => Once'
          /\ offered' # {} => msg.type = "solicit"
      <4>1. CASE offered' = offered
        <5>1. Advertised' = Advertised
          BY <4>1 DEF Advertised
        <5>2. ~repeated' => ~repeated
          BY <2>4, Zenon DEF NotGranted
        <5> QED
          BY <3>1, <4>1, <5>1, <5>2 DEF TypeInv, TypeOK, Once
      <4>2. CASE offered' # offered
        <5> DEFINE L == IA(msg.clnt, iaid)
        <5>1. msg.type = "solicit" /\ offered' = offered \cup Stands(L)
          BY <2>4, <4>2 DEF NotGranted
        <5>2. ~repeated' => ~repeated /\ L \cap Advertised = {}
          BY <2>4, <4>2 DEF NotGranted
        <5>3. options' = options + 1
          BY <1>2, <4>2 DEF solicitRequest, existingLease, assignFixedLease, getFreePrefixes,
             refuse, assignHint, assignOther, searchSpins, assignRandom, findNothing, assign,
             offer
        <5>4. L \in SUBSET leases /\ \A l \in L : l.clnt = msg.clnt
          BY DEF IA
        <5> HIDE DEF L
        <5>5. IsFiniteSet(L) /\ L \in SUBSET Lease
          BY <5>4, FS_Subset DEF TypeInv, TypeOK
        <5> QED
          BY <2>1, <3>1, <5>1, <5>2, <5>3, <5>4, <5>5, OffersType DEF Assigning
      <4> QED
        BY <4>1, <4>2
    <3> QED
      BY <2>1, <2>2, <3>1, <3>2 DEF TypeInv, TypeOK, Phases
  <2> QED
    BY <1>2, <2>3, <2>4, SolicitOutcome
<1>3. ASSUME NEW iaid \in IAIDs, renew(iaid)
      PROVE  TypeInv'
  <2>1. repeated' \in BOOLEAN
    BY <1>3, Zenon DEF renew, TypeInv, TypeOK
  <2>2. options' \in 0 .. MaxOptions
    BY <1>3, PrefixAssumption DEF renew, NextOption, TypeInv, TypeOK
  <2>3. /\ offered' = {} /\ Advertised' = {}
        /\ UNCHANGED <<leases, assigned, disk, phase, msg, restarts>>
        /\ expired' \in SUBSET expired
    BY <1>3 DEF renew, NextOption, TypeInv, Advertised
  <2> QED
    BY <2>1, <2>2, <2>3, FS_EmptySet DEF TypeInv, TypeOK, Once
<1>4. ASSUME NEW iaid \in IAIDs, NEW P, release(iaid, P)
      PROVE  TypeInv'
  <2>1. PICK N : Removed(N)
    BY <1>4, ReleaseRemoves
  <2>2. /\ offered' = {} /\ Advertised' = {} /\ phase' = phase /\ msg' = msg
        /\ options' = options + 1
    BY <1>4 DEF release, NextOption, TypeInv, Advertised
  <2>3. options' \in 0 .. MaxOptions
    BY <1>4, <2>2, PrefixAssumption DEF release, NextOption, TypeInv, TypeOK
  <2>4. leases' \in SUBSET Lease /\ IsFiniteSet(leases') /\ expired' \subseteq leases'
        /\ assigned' \in [Classes -> 0 .. ULong - 1]
    BY <2>1, RemovedType
  <2>5. repeated' \in BOOLEAN
    BY <2>1, Zenon DEF Removed, TypeInv, TypeOK
  <2>6. UNCHANGED <<disk, restarts>>
    BY <2>1 DEF Removed
  <2> QED
    BY <2>2, <2>3, <2>4, <2>5, <2>6, FS_EmptySet DEF TypeInv, TypeOK, Once
<1>5. CASE Answer
  <2>1. Removed(Advertised)
    BY <1>5, AnswerRemoves
  <2>2. leases' \in SUBSET Lease /\ IsFiniteSet(leases') /\ expired' \subseteq leases'
        /\ assigned' \in [Classes -> 0 .. ULong - 1]
    BY <2>1, RemovedType
  <2>3. UNCHANGED <<disk, restarts>>
    BY <2>1 DEF Removed
  <2>4. /\ phase' = "dump" /\ msg' = NoMsg /\ options' = 0 /\ offered' = {}
        /\ Advertised' = {}
    BY <1>5 DEF Answer, Advertised
  <2>5. repeated' \in BOOLEAN
    BY <2>1, Zenon DEF Removed, TypeInv, TypeOK
  <2>6. 0 \in 0 .. MaxOptions
    BY PrefixAssumption
  <2> QED
    BY <2>2, <2>3, <2>4, <2>5, <2>6, FS_EmptySet DEF TypeInv, TypeOK, Phases, Once
<1>6. CASE Dump
  <2>1. repeated' \in BOOLEAN
    BY <1>6, Zenon DEF Dump, TypeInv, TypeOK
  <2>2. offered' = {} /\ Advertised' = {}
    BY <1>6 DEF Dump, TypeInv, TypeOK, NoMsg, Advertised
  <2> QED
    BY <1>6, <2>1, <2>2, FS_EmptySet DEF Dump, TypeInv, TypeOK, Phases, Once
<1>7. ASSUME NEW l \in leases, Expire(l)
      PROVE  TypeInv'
  <2>1. repeated' \in BOOLEAN
    BY <1>7, Zenon DEF Expire, TypeInv, TypeOK
  <2>2. offered' = {} /\ Advertised' = {}
    BY <1>7 DEF Expire, jobVars, TypeInv, TypeOK, NoMsg, Advertised
  <2> QED
    BY <1>7, <2>1, <2>2, FS_EmptySet DEF Expire, jobVars, TypeInv, TypeOK, Once
<1>8. CASE Duties
  <2>1. Removed(expired)
    BY <1>8, DutiesRemoves
  <2>2. leases' \in SUBSET Lease /\ IsFiniteSet(leases') /\ expired' \subseteq leases'
        /\ assigned' \in [Classes -> 0 .. ULong - 1]
    BY <2>1, RemovedType
  <2>3. offered' = {} /\ Advertised' = {}
    BY <1>8 DEF Duties, TypeInv, TypeOK, NoMsg, Advertised
  <2>4. repeated' \in BOOLEAN
    BY <2>1, Zenon DEF Removed, TypeInv, TypeOK
  <2> QED
    BY <1>8, <2>2, <2>3, <2>4, FS_EmptySet DEF Duties, TypeInv, TypeOK, Phases, Once
<1>9. CASE Restart
  <2>1. PICK L \in (SUBSET leases) \cup {disk} :
             leases' = L /\ assigned' = setCounters(L) /\ disk' = L /\ expired' \in SUBSET L
    BY <1>9 DEF Restart
  <2>2. IsFiniteSet(L) /\ L \in SUBSET Lease
    BY <2>1, FS_Subset DEF TypeInv, TypeOK
  <2>3. assigned' \in [Classes -> 0 .. ULong - 1]
    BY <2>1, <2>2, CountersType DEF TypeInv, TypeOK
  <2>4. restarts' \in 0 .. MaxRestarts /\ 0 \in 0 .. MaxOptions
    BY <1>9, PrefixAssumption DEF Restart, TypeInv, TypeOK
  <2>5. repeated' \in BOOLEAN
    BY <1>9, Zenon DEF Restart
  <2>6. /\ phase' = "select" /\ msg' = NoMsg /\ options' = 0 /\ offered' = {}
        /\ Advertised' = {}
    BY <1>9 DEF Restart, Advertised
  <2> QED
    BY <2>1, <2>2, <2>3, <2>4, <2>5, <2>6, FS_EmptySet DEF TypeInv, TypeOK, Phases, Once
<1>10. CASE UNCHANGED vars
  <2>1. repeated' \in BOOLEAN /\ (~repeated' => ~repeated)
    BY <1>10, Zenon DEF vars, TypeInv, TypeOK
  <2>2. Advertised' = Advertised
    BY <1>10 DEF vars, jobVars, Advertised
  <2> QED
    BY <1>10, <2>1, <2>2 DEF vars, jobVars, TypeInv, TypeOK, Once
<1> QED
  BY <1>1, <1>2, <1>3, <1>4, <1>5, <1>6, <1>7, <1>8, <1>9, <1>10 DEF Next

LEMMA TypeInvariance == Spec => []TypeInv
<1>1. Init => TypeInv
  <2> SUFFICES ASSUME Init
               PROVE  TypeInv
    OBVIOUS
  <2>1. assigned \in [Classes -> 0 .. ULong - 1]
    BY PrefixAssumption DEF Init
  <2>2. repeated \in BOOLEAN
    BY Zenon DEF Init
  <2> QED
    BY <2>1, <2>2, FS_EmptySet, PrefixAssumption
       DEF Init, TypeInv, TypeOK, Phases, Advertised, Once
<1> QED
  BY <1>1, TypeStep, PTL DEF Spec

\* The variables of the prefix database stay within their types: what an answer
\* offers is held by the client it goes to, also after a restart or an expiry.
THEOREM PrefixTypeCorrect == Spec => []TypeOK
<1>1. TypeInv => TypeOK
  BY DEF TypeInv
<1> QED
  BY TypeInvariance, <1>1, PTL

-----------------------------------------------------------------------------
(* What a step can do to the database                                       *)

Grants == \E N : Granted(N) /\ phase = "process" /\ msg.clnt \in Clients
Ends   == \E N : Removed(N) /\ (phase = "process" => \A l \in N : l.clnt = msg.clnt)
Starts == /\ leases' \in (SUBSET leases) \cup {disk}
          /\ assigned' = setCounters(leases') /\ disk' = leases'
          /\ restarts' # restarts
Stays  == /\ UNCHANGED <<leases, assigned, restarts>>
          /\ disk' \in {disk, leases}
          /\ ~repeated' => ~repeated

LEMMA StepOutcome ==
  ASSUME TypeInv, [Next]_vars
  PROVE  Grants \/ Ends \/ Starts \/ Stays
<1>1. ASSUME NEW iaid \in IAIDs, solicitRequest(iaid)
      PROVE  Grants \/ Stays
  <2>1. phase = "process" /\ msg.clnt \in Clients
    BY <1>1, SolicitOutcome, ProcessedMsg DEF Assigning, NextOption
  <2> QED
    BY <1>1, <2>1, SolicitOutcome DEF Grants, NotGranted, Stays
<1>2. ASSUME NEW iaid \in IAIDs, NEW P, release(iaid, P)
      PROVE  Ends
  BY <1>2, ReleaseRemoves DEF Ends
<1>3. CASE Answer
  BY <1>3, AnswerRemoves DEF Ends
<1>4. CASE Duties
  BY <1>4, DutiesRemoves DEF Ends
<1>5. CASE Restart
  BY <1>5 DEF Restart, Starts, TypeInv, TypeOK
<1>6. CASE Dump
  BY <1>6 DEF Dump, Stays
<1>7. ASSUME NEW t, NEW c, Receive(t, c)
      PROVE  Stays
  BY <1>7 DEF Receive, Stays
<1>8. ASSUME NEW iaid, renew(iaid)
      PROVE  Stays
  BY <1>8 DEF renew, Stays
<1>9. ASSUME NEW l, Expire(l)
      PROVE  Stays
  BY <1>9 DEF Expire, Stays
<1>10. CASE UNCHANGED vars
  BY <1>10 DEF vars, Stays
<1> QED
  BY <1>1, <1>2, <1>3, <1>4, <1>5, <1>6, <1>7, <1>8, <1>9, <1>10 DEF Next

-----------------------------------------------------------------------------
(* No address is delegated twice                                            *)

NotTwiceIn(L) == \A l, m \in L : l.pfx = m.pfx /\ l # m => prefixReserved(l.pfx)

LEMMA NotTwiceStep ==
  ASSUME TypeInv, NotTwiceIn(leases), NotTwiceIn(disk), [Next]_vars
  PROVE  (NotTwiceIn(leases) /\ NotTwiceIn(disk))'
<1>1. CASE Grants
  <2>1. PICK N : Granted(N)
    BY <1>1 DEF Grants
  <2>2. ASSUME NEW l \in leases \cup N, NEW m \in leases \cup N, l.pfx = m.pfx, l # m
        PROVE  prefixReserved(l.pfx)
    <3>1. CASE l \in N
      BY <2>1, <2>2, <3>1 DEF Granted, prefixIsFree
    <3>2. CASE m \in N
      BY <2>1, <2>2, <3>2 DEF Granted, prefixIsFree
    <3>3. CASE l \in leases /\ m \in leases
      BY <2>2, <3>3 DEF NotTwiceIn
    <3> QED
      BY <3>1, <3>2, <3>3
  <2> QED
    BY <2>1, <2>2 DEF Granted, NotTwiceIn, prefixReserved
<1>2. CASE Ends
  BY <1>2 DEF Ends, Removed, NotTwiceIn, prefixReserved
<1>3. CASE Starts
  BY <1>3 DEF Starts, NotTwiceIn, prefixReserved
<1>4. CASE Stays
  BY <1>4 DEF Stays, NotTwiceIn, prefixReserved
<1> QED
  BY <1>1, <1>2, <1>3, <1>4, StepOutcome

\* An address is delegated once whatever hints, draws, offers given back, expiry
\* and restarts came before; only a reserved prefix is leased without asking.
THEOREM NotTwiceHolds == Spec => []NotTwice
<1>1. Init => NotTwiceIn(leases) /\ NotTwiceIn(disk)
  BY DEF Init, NotTwiceIn
<1>2. NotTwiceIn(leases) => NotTwice
  BY DEF NotTwiceIn, NotTwice
<1> QED
  BY TypeInvariance, NotTwiceStep, <1>1, <1>2, PTL DEF Spec

-----------------------------------------------------------------------------
(* The counters                                                             *)

LEMMA CountersStep ==
  ASSUME TypeInv, CountersExact, [Next]_vars
  PROVE  CountersExact'
<1> SUFFICES ASSUME ~repeated'
             PROVE  assigned' = setCounters(leases)'
  BY DEF CountersExact
<1>1. ULong \in Nat \ {0}
  BY PrefixAssumption
<1>2. CASE Grants
  <2>1. PICK N : Granted(N)
    BY <1>2 DEF Grants
  <2>2. IsFiniteSet(leases) /\ IsFiniteSet(N) /\ leases \cap N = {}
    BY <2>1 DEF TypeInv, Granted
  <2>5. ~repeated
    BY <2>1, Zenon DEF Granted
  <2>3. ASSUME NEW k \in Classes
        PROVE  (assigned[k] + CountIn(N, k)) % ULong = CountIn(leases \cup N, k) % ULong
    <3>1. CountIn(leases, k) \in Nat /\ CountIn(N, k) \in Nat
      <4>1. CountIn(leases, k) \in Nat
        BY <2>2, CountInParts
      <4>2. CountIn(N, k) \in Nat
        BY <2>2, CountInParts
      <4> QED
        BY <4>1, <4>2
    <3>2. CountIn(leases \cup N, k) = CountIn(leases, k) + CountIn(N, k)
      BY <2>2, CountInParts
    <3>3. assigned[k] = CountIn(leases, k) % ULong
      BY <2>5 DEF CountersExact, setCounters
    <3> QED
      BY <1>1, <3>1, <3>2, <3>3, ModAdd
  <2>4. incrAssigned(N) = setCounters(leases \cup N)
    BY <2>3 DEF incrAssigned, setCounters
  <2> QED
    BY <2>1, <2>4 DEF Granted, setCounters, CountIn
<1>3. CASE Ends
  <2>1. PICK N : Removed(N)
    BY <1>3 DEF Ends
  <2>2. IsFiniteSet(leases) /\ IsFiniteSet(N) /\ N \subseteq leases
    BY <2>1, RemovedType DEF TypeInv, Removed
  <2>5. ~repeated
    BY <2>1, Zenon DEF Removed
  <2>3. ASSUME NEW k \in Classes
        PROVE  (assigned[k] - CountIn(N, k)) % ULong = CountIn(leases \ N, k) % ULong
    <3>1. CountIn(leases, k) \in Nat /\ CountIn(N, k) \in Nat
      <4>1. CountIn(leases, k) \in Nat
        BY <2>2, CountInParts
      <4>2. CountIn(N, k) \in Nat
        BY <2>2, CountInParts
      <4> QED
        BY <4>1, <4>2
    <3>2. CountIn(leases \ N, k) = CountIn(leases, k) - CountIn(N, k)
      BY <2>2, CountInParts
    <3>3. assigned[k] = CountIn(leases, k) % ULong
      BY <2>5 DEF CountersExact, setCounters
    <3> QED
      BY <1>1, <3>1, <3>2, <3>3, ModAdd
  <2>4. decrAssigned(N) = setCounters(leases \ N)
    BY <2>3 DEF decrAssigned, setCounters
  <2> QED
    BY <2>1, <2>4, <2>5 DEF Removed, setCounters, CountIn
<1>4. CASE Starts
  BY <1>4 DEF Starts, setCounters, CountIn
<1>5. CASE Stays
  BY <1>5 DEF Stays, CountersExact, setCounters, CountIn
<1> QED
  BY <1>2, <1>3, <1>4, <1>5, StepOutcome

\* A class counts the prefixes leased from its pools, on whatever path they were
\* leased and given back, until a SOLICIT has two IA_PDs of one IAID (then both
\* give the same prefixes back), and again after the next start-up; also when its
\* counter is narrower than the pools.
THEOREM PrefixCountersExact == Spec => []CountersExact
<1>1. Init => CountersExact
  <2>1. \A k \in Classes : CountIn({}, k) = 0
    BY FS_EmptySet DEF CountIn
  <2>2. 0 % ULong = 0
    BY PrefixAssumption
  <2>3. setCounters({}) = [k \in Classes |-> 0]
    BY <2>1, <2>2 DEF setCounters
  <2> QED
    BY <2>3 DEF Init, CountersExact
<1> QED
  BY TypeInvariance, CountersStep, <1>1, PTL DEF Spec

-----------------------------------------------------------------------------
(* The limit of a client                                                    *)

CountOf(L, c) == Cardinality({l \in L : l.clnt = c})

WithinLimit(L) ==
  \A c \in Clients : Exception[c] = NoPrefix /\ ClntMaxLease > 0 =>
    \E k \in Classes : CountOf(L, c) <= ClntMaxLease + Len(Pools[k]) - 1

\* Fewer leases are fewer leases of each client.
LEMMA FewerWithinLimit ==
  ASSUME NEW L, IsFiniteSet(L), WithinLimit(L), NEW M \in SUBSET L
  PROVE  WithinLimit(M)
<1>1. ASSUME NEW c
      PROVE  /\ CountOf(M, c) \in Nat /\ CountOf(L, c) \in Nat
             /\ CountOf(M, c) <= CountOf(L, c)
  <2> DEFINE A == {l \in L : l.clnt = c}
             B == {l \in M : l.clnt = c}
  <2>1. IsFiniteSet(A) /\ B \in SUBSET A
    BY FS_Subset
  <2> HIDE DEF A, B
  <2>2. IsFiniteSet(B) /\ Cardinality(B) <= Cardinality(A)
    BY <2>1, FS_Subset
  <2>3. Cardinality(A) \in Nat /\ Cardinality(B) \in Nat
    BY <2>1, <2>2, FS_CardinalityType
  <2> QED
    BY <2>2, <2>3 DEF CountOf, A, B
<1>2. \A k \in Classes : ClntMaxLease + Len(Pools[k]) - 1 \in Int
  BY PrefixAssumption, LenProperties
<1>3. \A a, b \in Nat, n \in Int : a <= b /\ b <= n => a <= n
  OBVIOUS
<1> QED
  BY <1>1, <1>2, <1>3 DEF WithinLimit

LEMMA LimitStep ==
  ASSUME TypeInv, WithinLimit(leases), WithinLimit(disk), [Next]_vars
  PROVE  (WithinLimit(leases) /\ WithinLimit(disk))'
<1>1. CASE Grants
  <2>1. PICK N : Granted(N)
    BY <1>1 DEF Grants
  <2>2. ASSUME NEW c \in Clients, Exception[c] = NoPrefix, ClntMaxLease > 0
        PROVE  \E k \in Classes : CountOf(leases \cup N, c) <= ClntMaxLease + Len(Pools[k]) - 1
    <3>1. CASE c # msg.clnt
      <4>1. {l \in leases \cup N : l.clnt = c} = {l \in leases : l.clnt = c}
        BY <2>1, <3>1 DEF Granted
      <4>2. CountOf(leases \cup N, c) = CountOf(leases, c)
        BY <4>1 DEF CountOf
      <4> QED
        BY <2>2, <4>2 DEF WithinLimit
    <3>2. CASE c = msg.clnt
      <4> DEFINE A == {l \in leases : l.clnt = c}
      <4>1. {l \in leases \cup N : l.clnt = c} = A \cup N /\ A \cap N = {}
        BY <2>1, <3>2 DEF Granted
      <4>2. IsFiniteSet(A) /\ IsFiniteSet(N)
        BY <2>1, FS_Subset DEF TypeInv, Granted
      <4>3. ~(Cardinality(A) >= ClntMaxLease)
        BY <2>1, <2>2, <3>2 DEF Granted, AtClntMaxLease, getLeaseCount
      <4>4. PICK k \in Classes : Cardinality(N) <= Len(Pools[k])
        BY <2>1, <2>2, <3>2 DEF Granted
      <4>5. CountOf(leases \cup N, c) = Cardinality(A \cup N)
        BY <4>1 DEF CountOf
      <4> HIDE DEF A
      <4>6. Cardinality(A) \in Nat /\ Cardinality(N) \in Nat
        BY <4>2, FS_CardinalityType
      <4>7. A \cap N = {} => Cardinality(A \cup N) = Cardinality(A) + Cardinality(N)
        BY <4>2, Counting
      <4>8. ClntMaxLease \in Nat /\ Len(Pools[k]) \in Nat
        BY PrefixAssumption, LenProperties
      <4>9. CountOf(leases \cup N, c) <= ClntMaxLease + Len(Pools[k]) - 1
        BY <4>1, <4>3, <4>4, <4>5, <4>6, <4>7, <4>8
      <4> QED
        BY <4>9
    <3> QED
      BY <3>1, <3>2
  <2>3. WithinLimit(leases \cup N)
    BY <2>2 DEF WithinLimit
  <2> QED
    BY <2>1, <2>3 DEF Granted, WithinLimit, CountOf
<1>2. CASE Ends
  <2>1. leases' \in SUBSET leases /\ disk' = disk
    BY <1>2 DEF Ends, Removed
  <2>2. WithinLimit(leases')
    BY <2>1, FewerWithinLimit DEF TypeInv
  <2> QED
    BY <2>1, <2>2 DEF WithinLimit, CountOf
<1>3. CASE Starts
  <2>1. WithinLimit(leases')
    BY <1>3, FewerWithinLimit DEF Starts, TypeInv
  <2> QED
    BY <1>3, <2>1 DEF Starts, WithinLimit, CountOf
<1>4. CASE Stays
  BY <1>4 DEF Stays, WithinLimit, CountOf
<1> QED
  BY <1>1, <1>2, <1>3, <1>4, StepOutcome

\* A client without a reservation holds no more prefixes than client-max-lease
\* and the rest of one list, over all its IA_PDs.
THEOREM ClientLimitHolds == Spec => []ClientLimit
<1>1. Init => WithinLimit(leases) /\ WithinLimit(disk)
  <2>1. \A c : CountOf({}, c) = 0
    BY FS_EmptySet DEF CountOf
  <2>2. \A k \in Classes : Len(Pools[k]) \in Nat
    BY PrefixAssumption, LenProperties
  <2>3. \E k \in Classes : TRUE
    BY PrefixAssumption
  <2>4. WithinLimit({})
    BY <2>1, <2>2, <2>3, PrefixAssumption DEF WithinLimit
  <2> QED
    BY <2>4 DEF Init
<1>2. WithinLimit(leases) => ClientLimit
  BY DEF WithinLimit, ClientLimit, CountOf, getLeaseCount
<1> QED
  BY TypeInvariance, LimitStep, <1>1, <1>2, PTL DEF Spec

-----------------------------------------------------------------------------
(* The leases of others                                                     *)

\* While a message is processed and answered no other client's lease comes or
\* goes, but by a restart.
THEOREM OthersUntouchedHolds == Spec => OthersUntouched
<1> DEFINE Own == phase = "process" /\ restarts' = restarts =>
                    \A l \in leases \cup leases' :
                      l.clnt # msg.clnt => l \in leases /\ l \in leases'
<1>1. TypeInv /\ [Next]_vars => [Own]_vars
  <2> SUFFICES ASSUME TypeInv, [Next]_vars
               PROVE  Own
    OBVIOUS
  <2>1. CASE Grants
    BY <2>1 DEF Grants, Granted
  <2>2. CASE Ends
    BY <2>2 DEF Ends, Removed
  <2>3. CASE Starts \/ Stays
    BY <2>3 DEF Starts, Stays
  <2> QED
    BY <2>1, <2>2, <2>3, StepOutcome
<1> QED
  BY TypeInvariance, <1>1, PTL DEF Spec, OthersUntouched

=============================================================================
