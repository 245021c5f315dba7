----------------------- MODULE SrvLeasesSafety_proofs -----------------------
(***************************************************************************)
(* The safety properties of SrvLeases, and that it implements LeaseTable.    *)
(* All of them rest on what one step can do to the database (LeasesStep),   *)
(* to the files (DiskStep), to the cache (CacheStep) and to the work list   *)
(* (WorkInv).  What a property needs of the configuration beyond            *)
(* ConfigAssumption is defined where its section begins and assumed by its  *)
(* theorem: disjoint pools, addresses offered on one interface, wide        *)
(* counters.                                                                *)
(***************************************************************************)
EXTENDS SrvLeases_proofs, SrvLeasesTable

-----------------------------------------------------------------------------
(* The work list                                                            *)

\* The releases of the duties are those of the expired leases, one each; those
\* of an ADVERTISE are of the client's leases, and unless a SOLICIT asked twice
\* for one IA, each is held and to be released once.  No list is left over when
\* a round is done.
WorkInv ==
  /\ \A l \in BagToSet(todo) : msg = NoMsg => l \in expired /\ todo[l] = 1
  /\ \A l \in BagToSet(todo) : msg # NoMsg => l.clnt = msg.clnt /\ Advertising
  /\ \A l \in BagToSet(todo) : msg # NoMsg /\ ~repeated => l \in leases /\ todo[l] = 1
  /\ phase \in {"process", "spin"} => msg # NoMsg
  /\ phase \in {"select", "dumpDb", "dumpCache", "duties"} => msg = NoMsg /\ todo = EmptyBag

\* What is released twice is what a SOLICIT asked for twice.
LEMMA WorkHeld ==
  ASSUME TypeInv, WorkInv, ~repeated, NEW l \in BagToSet(todo)
  PROVE  l \in leases /\ todo[l] = 1
BY DEF WorkInv, TypeInv, TypeOK

\* Only the messages an ADVERTISE may answer have a work list.
LEMMA NoWorkList ==
  ASSUME TypeInv, WorkInv, NEW types \in SUBSET {"request", "renew", "rebind",
                                                 "decline", "release"},
         Processing(types)
  PROVE  BagToSet(todo) = {} /\ ~Advertising /\ msg # NoMsg
<1>1. msg.type \notin {"solicit", "rapid"}
  BY DEF Processing
<1>2. ~Advertising
  BY <1>1 DEF Advertising
<1>3. msg # NoMsg
  BY DEF WorkInv, Processing
<1> QED
  BY <1>2, <1>3 DEF WorkInv

LEMMA BagIsEmpty ==
  ASSUME NEW B, IsABag(B), BagToSet(B) = {}
  PROVE  B = EmptyBag
BY DEF IsABag, BagToSet, EmptyBag, SetToBag

LEMMA WorkStep ==
  ASSUME TypeInv, WorkInv, [Next]_vars
  PROVE  WorkInv'
<1>1. ASSUME NEW iaid \in IAIDs, AssignIA(iaid)
      PROVE  WorkInv'
  <2>1. Assigning
    BY <1>1, AssignOutcome
  <2>2. phase = "process" /\ msg # NoMsg
    BY <2>1 DEF Assigning, NextOption, Processing, WorkInv
  <2>3. CASE \E a \in Addrs : assignAddr(iaid, a) /\ Binding(iaid) = {}
    <3>1. PICK a \in Addrs : assignAddr(iaid, a) /\ Binding(iaid) = {}
      BY <2>3
    <3> DEFINE n == GrantedLease(iaid, a)
    <3>2. leases' = leases \cup {n} /\ n \notin leases
      BY <2>1, <3>1, AssignGrants
    <3>3. msg' = msg /\ phase' = phase /\ repeated' = repeated
      BY <3>1 DEF assignAddr
    <3>4. n.clnt = msg.clnt
      BY DEF GrantedLease
    <3> HIDE DEF n
    <3>5. Offered(iaid, a)' \subseteq {n}
      BY <3>1, <3>2, <3>3 DEF Offered, IA, Binding
    <3>6. CASE todo' = todo
      BY <2>2, <3>2, <3>3, <3>6 DEF WorkInv, Advertising
    <3>7. CASE Advertising /\ todo' = todo (+) SetToBag(Offered(iaid, a)')
      <4> DEFINE S == Offered(iaid, a)'
      <4>1. todo' = todo (+) SetToBag(S)
        BY <3>7
      <4>2. S \subseteq {n}
        BY <3>5
      <4> HIDE DEF S
      <4>3. /\ BagToSet(todo') = BagToSet(todo) \cup S
            /\ \A x \in BagToSet(todo) \ S : todo'[x] = todo[x]
            /\ \A x \in S \ BagToSet(todo) : todo'[x] = 1
        BY <4>1, BagGrows DEF TypeInv, TypeOK
      <4>4. ~repeated => \A l \in BagToSet(todo) : l \in leases /\ todo[l] = 1
        BY WorkHeld
      <4>5. ~repeated => n \notin BagToSet(todo)
        BY <3>2, <4>4
      <4>6. \A l \in BagToSet(todo') : ~repeated => l \in leases' /\ todo'[l] = 1
        BY <3>2, <4>2, <4>3, <4>4, <4>5
      <4>7. \A l \in BagToSet(todo') : l.clnt = msg.clnt
        BY <2>2, <3>4, <4>2, <4>3 DEF WorkInv
      <4> QED
        BY <2>2, <3>3, <3>7, <4>6, <4>7 DEF WorkInv, Advertising
    <3> QED
      BY <2>1, <3>1, <3>6, <3>7, AssignAddrEffect
  <2>4. CASE ~ \E a \in Addrs : assignAddr(iaid, a) /\ Binding(iaid) = {}
    <3>1. /\ leases' = leases /\ msg' = msg /\ phase' \in {phase, "spin"}
          /\ \/ todo' = todo
             \/ Advertising /\ todo' = todo (+) SetToBag(Binding(iaid))
          /\ ~repeated' => /\ ~repeated
                           /\ \/ todo' = todo
                              \/ Binding(iaid) \cap BagToSet(todo) = {}
      BY <1>1, <2>4, AssignOutcome
    <3>2. CASE todo' = todo
      <4>1. ~repeated' => ~repeated
        BY <3>1, Zenon
      <4> QED
        BY <2>2, <3>1, <3>2, <4>1 DEF WorkInv, Advertising
    <3>3. CASE todo' # todo
      <4>1. Advertising /\ todo' = todo (+) SetToBag(Binding(iaid))
        BY <3>1, <3>3
      <4> DEFINE S == Binding(iaid)
      <4>2. /\ BagToSet(todo') = BagToSet(todo) \cup S
            /\ \A x \in BagToSet(todo) \ S : todo'[x] = todo[x]
            /\ \A x \in S \ BagToSet(todo) : todo'[x] = 1
        BY <4>1, BagGrows DEF TypeInv, TypeOK
      <4>3. S \subseteq leases /\ \A l \in S : l.clnt = msg.clnt
        BY DEF Binding, IA
      <4>4. ~repeated' => ~repeated /\ S \cap BagToSet(todo) = {}
        BY <3>1, <3>3
      <4> HIDE DEF S
      <4>5. ~repeated => \A l \in BagToSet(todo) : l \in leases /\ todo[l] = 1
        BY WorkHeld
      <4>6. \A l \in BagToSet(todo') : ~repeated' => l \in leases' /\ todo'[l] = 1
        BY <3>1, <4>2, <4>3, <4>4, <4>5
      <4>7. \A l \in BagToSet(todo') : l.clnt = msg.clnt
        BY <2>2, <4>2, <4>3 DEF WorkInv
      <4> QED
        BY <2>2, <3>1, <4>1, <4>6, <4>7 DEF WorkInv, Advertising
    <3> QED
      BY <3>2, <3>3
  <2> QED
    BY <2>3, <2>4
<1>2. ASSUME NEW iaid \in IAIDs, RenewIA(iaid)
      PROVE  WorkInv'
  <2>1. BagToSet(todo) = {} /\ msg # NoMsg
    BY <1>2, NoWorkList DEF RenewIA, NextOption
  <2> QED
    BY <1>2, <2>1 DEF RenewIA, NextOption, WorkInv, Processing
<1>3. ASSUME NEW iaid \in IAIDs, RebindIA(iaid)
      PROVE  WorkInv'
  <2>1. BagToSet(todo) = {} /\ msg # NoMsg
    BY <1>3, NoWorkList DEF RebindIA, NextOption
  <2> QED
    BY <1>3, <2>1 DEF RebindIA, NextOption, WorkInv, Processing
<1>4. ASSUME NEW iaid \in IAIDs, RebindDiscarded(iaid)
      PROVE  WorkInv'
  <2>1. todo = EmptyBag
    BY <1>4, NoWorkList, BagIsEmpty DEF RebindDiscarded, NextOption, TypeInv, TypeOK
  <2> QED
    BY <1>4, <2>1, BagOfNone DEF RebindDiscarded, WorkInv
<1>5. ASSUME NEW iaid \in IAIDs, NEW l \in leases, DeclineAddr(iaid, l)
      PROVE  WorkInv'
  <2>1. BagToSet(todo) = {} /\ msg # NoMsg
    BY <1>5, NoWorkList DEF DeclineAddr
  <2> QED
    BY <1>5, <2>1 DEF DeclineAddr, jobVars, WorkInv, Processing
<1>6. ASSUME NEW iaid \in IAIDs, NEW l \in leases, ReleaseAddr(iaid, l)
      PROVE  WorkInv'
  <2>1. BagToSet(todo) = {} /\ msg # NoMsg
    BY <1>6, NoWorkList DEF ReleaseAddr
  <2> QED
    BY <1>6, <2>1 DEF ReleaseAddr, jobVars, WorkInv, Processing
<1>7. CASE Answer
  <2>1. CASE Advertising
    BY <1>7, <2>1 DEF Answer, dbVars, WorkInv, Advertising
  <2>2. CASE ~Advertising
    <3>1. BagToSet(todo) = {}
      BY <1>7, <2>2 DEF Answer, WorkInv
    <3>2. todo = EmptyBag
      BY <3>1, BagIsEmpty DEF TypeInv, TypeOK
    <3> QED
      BY <1>7, <2>2, <3>1, <3>2 DEF Answer, WorkInv
  <2> QED
    BY <2>1, <2>2
<1>8. CASE Timeout \/ ReleaseDone \/ DumpDb \/ DumpCache
  BY <1>8, BagOfNone DEF Timeout, ReleaseDone, DumpDb, DumpCache, dbVars, WorkInv
<1>9. CASE Duties
  <2>1. /\ msg' = NoMsg /\ todo' = SetToBag(expired) /\ expired' = expired
        /\ phase' = IF expired = {} THEN "select" ELSE "release"
    BY <1>9 DEF Duties, dbVars, WorkInv
  <2>2. /\ BagToSet(todo') = expired
        /\ \A l \in expired : todo'[l] = 1
    BY <2>1, BagOfSet
  <2>3. expired = {} => todo' = EmptyBag
    BY <2>1 DEF EmptyBag
  <2> QED
    BY <2>1, <2>2, <2>3 DEF WorkInv
<1>10. ASSUME NEW l \in BagToSet(todo), ReleaseOne(l)
       PROVE  WorkInv'
  <2>1. /\ todo' = todo (-) SetToBag({l}) /\ leases' = leases \ {l}
        /\ expired' = expired \ {l} /\ phase' = "release" /\ msg' = msg
        /\ repeated' = repeated
    BY <1>10 DEF ReleaseOne, delClntAddr
  <2>2. /\ BagToSet(todo') \subseteq BagToSet(todo)
        /\ todo[l] = 1 => l \notin BagToSet(todo')
        /\ \A m \in BagToSet(todo) \ {l} : todo'[m] = todo[m]
    BY <2>1, BagShrinks DEF TypeInv, TypeOK
  <2> QED
    BY <2>1, <2>2 DEF WorkInv, Advertising
<1>11. ASSUME NEW l \in leases, Expire(l)
       PROVE  WorkInv'
  BY <1>11, BagOfNone DEF Expire, jobVars, WorkInv
<1>12. ASSUME NEW t \in MsgTypes, NEW c \in Clients, NEW i \in Ifaces, Receive(t, c, i)
       PROVE  WorkInv'
  BY <1>12, BagOfNone DEF Receive, dbVars, WorkInv, NoMsg
<1>13. CASE Crash \/ Restart
  BY <1>13, BagOfNone DEF Crash, Restart, Boot, WorkInv
<1>14. CASE UNCHANGED vars
  BY <1>14 DEF vars, dbVars, jobVars, WorkInv, Advertising
<1> QED
  BY <1>1, <1>2, <1>3, <1>4, <1>5, <1>6, <1>7, <1>8, <1>9, <1>10, <1>11, <1>12,
     <1>13, <1>14 DEF Next, Work, Handle, Environment

LEMMA WorkInvariance == Spec => [](TypeInv /\ WorkInv)
<1>1. Init => WorkInv
  BY BagOfNone DEF Init, WorkInv
<1>2. TypeInv /\ WorkInv /\ [Next]_vars => WorkInv'
  BY WorkStep
<1> QED
  BY TypeInvariance, <1>1, <1>2, PTL DEF Spec

-----------------------------------------------------------------------------
(* What a step can do to the database and to the files                      *)

\* One lease ends: it expired, or its client said so.
Ends ==
  \E l \in leases : /\ leases' = leases \ {l}
                    /\ \/ l \in expired
                       \/ msg # NoMsg /\ l.clnt = msg.clnt

\* One lease begins: of the client whose message is processed, on its
\* interface, of a free or reserved address the policy may grant, in an IA
\* that had none.
Begins ==
  \E n \in Lease : /\ leases' = leases \cup {n} /\ n.clnt # Declined
                   /\ addrIsFree(n.addr) \/ n.addr \in Reserved
                   /\ IA(leases, n.clnt, n.iaid) = {}
                   /\ msg \in Message /\ n.clnt = msg.clnt /\ n.iface = msg.iface
                   /\ Grantable(n.addr)

\* A client's address goes to the dummy client.
Moves ==
  \E l \in leases, n \in Lease :
    /\ leases' = (leases \ {l}) \cup {n}
    /\ n.clnt = Declined /\ n.iaid = 0 /\ n.addr = l.addr
    /\ msg # NoMsg /\ l.clnt = msg.clnt

\* The server starts again, with leases it had or leases of the files.
Restarts ==
  /\ leases' \subseteq leases \/ leases' = disk.leases
  /\ restarts' # restarts

LEMMA LeasesStep ==
  ASSUME TypeInv, WorkInv, [Next]_vars
  PROVE  leases' = leases \/ Ends \/ Begins \/ Moves \/ Restarts
<1>1. ASSUME NEW iaid \in IAIDs, AssignIA(iaid), leases' # leases
      PROVE  Begins
  <2>1. Assigning
    BY <1>1, AssignOutcome
  <2>2. PICK a \in Addrs : /\ assignAddr(iaid, a)
                           /\ addrIsFree(a) \/ a \in Reserved
                           /\ Binding(iaid) = {} /\ Grantable(a)
    BY <1>1, AssignOutcome
  <2> DEFINE n == GrantedLease(iaid, a)
  <2>3. n \in Lease /\ leases' = leases \cup {n}
    BY <2>1, <2>2, AssignGrants
  <2>4. n.clnt = msg.clnt /\ n.iaid = iaid /\ n.addr = a /\ n.iface = msg.iface
    BY DEF GrantedLease
  <2> HIDE DEF n
  <2>5. n.clnt # Declined /\ msg \in Message
    BY <2>1, <2>4, ProcessingMsg DEF Assigning, NextOption, MsgTypes
  <2>6. IA(leases, n.clnt, n.iaid) = {}
    BY <2>2, <2>4 DEF Binding
  <2> QED
    BY <2>2, <2>3, <2>4, <2>5, <2>6 DEF Begins
<1>2. ASSUME NEW iaid \in IAIDs, NEW l \in leases, DeclineAddr(iaid, l)
      PROVE  Ends \/ Moves
  <2>1. msg # NoMsg
    BY <1>2, NoWorkList DEF DeclineAddr
  <2> QED
    BY <1>2, <2>1, DeclineAddrEffect DEF Ends, Moves
<1>3. ASSUME NEW iaid \in IAIDs, NEW l \in leases, ReleaseAddr(iaid, l)
      PROVE  Ends
  <2>1. msg # NoMsg
    BY <1>3, NoWorkList DEF ReleaseAddr
  <2>2. l.clnt = msg.clnt
    BY <1>3 DEF ReleaseAddr, Binding, IA
  <2> QED
    BY <1>3, <2>1, <2>2 DEF ReleaseAddr, delClntAddr, Ends
<1>4. ASSUME NEW l \in BagToSet(todo), ReleaseOne(l), leases' # leases
      PROVE  Ends
  <2>1. l \in leases
    BY <1>4 DEF ReleaseOne, delClntAddr
  <2>2. l \in expired \/ (msg # NoMsg /\ l.clnt = msg.clnt)
    <3>1. l \in BagToSet(todo)
      BY <1>4
    <3>2. CASE msg = NoMsg
      BY <3>1, <3>2 DEF WorkInv
    <3>3. CASE msg # NoMsg
      BY <3>1, <3>3 DEF WorkInv
    <3> QED
      BY <3>2, <3>3
  <2>3. leases' = leases \ {l}
    BY <1>4 DEF ReleaseOne, delClntAddr
  <2> QED
    BY <2>1, <2>2, <2>3 DEF Ends
<1>5. ASSUME Crash \/ Restart
      PROVE  Restarts
  <2>1. restarts' # restarts
    BY <1>5 DEF Crash, Restart, Boot, TypeInv, TypeOK
  <2>2. leases' \subseteq leases \/ leases' = disk.leases
    BY <1>5, CrashImagesType DEF Crash, Restart, Boot
  <2> QED
    BY <2>1, <2>2 DEF Restarts
<1>6. ASSUME NEW iaid \in IAIDs, RenewIA(iaid) \/ RebindIA(iaid) \/ RebindDiscarded(iaid)
      PROVE  leases' = leases
  BY <1>6 DEF RenewIA, RebindIA, RebindDiscarded, dbVars
<1>7. ASSUME Answer \/ Timeout \/ Duties \/ ReleaseDone \/ DumpDb \/ DumpCache
      PROVE  leases' = leases
  BY <1>7 DEF Answer, Timeout, Duties, ReleaseDone, DumpDb, DumpCache, dbVars
<1>8. ASSUME Environment \/ UNCHANGED vars
      PROVE  leases' = leases
  BY <1>8 DEF Environment, Expire, Receive, dbVars, vars
<1> QED
  BY <1>1, <1>2, <1>3, <1>4, <1>5, <1>6, <1>7, <1>8 DEF Next, Work, Handle

\* The files change by a dump, which leaves the database alone, and by a
\* restart, which makes them the database.
LEMMA DiskStep ==
  ASSUME TypeInv, [Next]_vars
  PROVE  \/ disk'.leases = disk.leases /\ restarts' = restarts
         \/ disk'.leases = leases' /\ leases' = leases
         \/ disk'.leases = leases' /\ Restarts
<1>1. ASSUME NEW iaid \in IAIDs, AssignIA(iaid)
      PROVE  disk' = disk /\ restarts' = restarts
  BY <1>1, AssignOutcome DEF assignAddr
<1>2. ASSUME NEW iaid \in IAIDs, RenewIA(iaid) \/ RebindIA(iaid) \/ RebindDiscarded(iaid)
      PROVE  disk' = disk /\ restarts' = restarts
  BY <1>2 DEF RenewIA, RebindIA, RebindDiscarded
<1>3. ASSUME NEW iaid \in IAIDs, NEW l \in leases,
             DeclineAddr(iaid, l) \/ ReleaseAddr(iaid, l)
      PROVE  disk' = disk /\ restarts' = restarts
  BY <1>3 DEF DeclineAddr, ReleaseAddr
<1>4. ASSUME NEW l \in BagToSet(todo), ReleaseOne(l)
      PROVE  disk' = disk /\ restarts' = restarts
  BY <1>4 DEF ReleaseOne
<1>5. ASSUME Answer \/ Timeout \/ Duties \/ ReleaseDone
      PROVE  disk' = disk /\ restarts' = restarts
  BY <1>5 DEF Answer, Timeout, Duties, ReleaseDone
<1>6. ASSUME DumpDb
      PROVE  \/ disk'.leases = disk.leases /\ restarts' = restarts
             \/ disk'.leases = leases' /\ leases' = leases
  BY <1>6 DEF DumpDb, dbVars, TypeInv, TypeOK
<1>7. ASSUME DumpCache
      PROVE  disk'.leases = disk.leases /\ restarts' = restarts
  BY <1>7 DEF DumpCache, TypeInv, TypeOK
<1>8. ASSUME Crash \/ Restart
      PROVE  disk'.leases = leases' /\ Restarts
  <2>1. restarts' # restarts
    BY <1>8 DEF Crash, Restart, Boot, TypeInv, TypeOK
  <2>2. leases' \subseteq leases \/ leases' = disk.leases
    BY <1>8, CrashImagesType DEF Crash, Restart, Boot
  <2>3. disk'.leases = leases'
    BY <1>8 DEF Crash, Restart, Boot
  <2> QED
    BY <2>1, <2>2, <2>3 DEF Restarts
<1>9. ASSUME Environment \/ UNCHANGED vars
      PROVE  disk' = disk /\ restarts' = restarts
  BY <1>9 DEF Environment, Expire, Receive, vars
<1> QED
  BY <1>1, <1>2, <1>3, <1>4, <1>5, <1>6, <1>7, <1>8, <1>9 DEF Next, Work, Handle

-----------------------------------------------------------------------------
(* No two holders, no second address                                        *)

ExclusiveIn(L) ==
  \A l, m \in L : l.addr = m.addr /\ l.addr \notin Reserved => l = m

OneAddressIn(L) ==
  \A l, m \in L :
    l.clnt = m.clnt /\ l.iaid = m.iaid /\ l.clnt # Declined => l = m

\* The files are part of the invariant: a restart makes them the database.
HolderInv ==
  /\ ExclusiveIn(leases) /\ ExclusiveIn(disk.leases)
  /\ OneAddressIn(leases) /\ OneAddressIn(disk.leases)

LEMMA HolderStep ==
  ASSUME TypeInv, WorkInv, HolderInv, [Next]_vars
  PROVE  HolderInv'
<1>1. ExclusiveIn(leases') /\ OneAddressIn(leases')
  <2>1. CASE leases' = leases \/ Ends \/ Restarts
    BY <2>1 DEF Ends, Restarts, HolderInv, ExclusiveIn, OneAddressIn
  <2>2. CASE Begins
    <3>1. PICK n \in Lease : /\ leases' = leases \cup {n} /\ n.clnt # Declined
                             /\ addrIsFree(n.addr) \/ n.addr \in Reserved
                             /\ IA(leases, n.clnt, n.iaid) = {}
      BY <2>2 DEF Begins
    <3>2. \A l \in leases : l.addr # n.addr \/ n.addr \in Reserved
      BY <3>1 DEF addrIsFree
    <3>3. \A l \in leases : ~(l.clnt = n.clnt /\ l.iaid = n.iaid)
      BY <3>1 DEF IA
    <3>4. ExclusiveIn(leases')
      BY <3>1, <3>2 DEF HolderInv, ExclusiveIn
    <3>5. OneAddressIn(leases')
      BY <3>1, <3>3 DEF HolderInv, OneAddressIn
    <3> QED
      BY <3>4, <3>5
  <2>3. CASE Moves
    <3>1. PICK l \in leases, n \in Lease : /\ leases' = (leases \ {l}) \cup {n}
                                           /\ n.clnt = Declined /\ n.addr = l.addr
      BY <2>3 DEF Moves
    <3>2. ExclusiveIn(leases')
      BY <3>1 DEF HolderInv, ExclusiveIn
    <3>3. OneAddressIn(leases')
      BY <3>1 DEF HolderInv, OneAddressIn
    <3> QED
      BY <3>2, <3>3
  <2> QED
    BY <2>1, <2>2, <2>3, LeasesStep
<1>2. ExclusiveIn(disk'.leases) /\ OneAddressIn(disk'.leases)
  BY <1>1, DiskStep DEF HolderInv
<1> QED
  BY <1>1, <1>2 DEF HolderInv, ExclusiveIn, OneAddressIn

LEMMA HolderInvariance == Spec => [](TypeInv /\ WorkInv /\ HolderInv)
<1>1. Init => HolderInv
  BY DEF Init, HolderInv, ExclusiveIn, OneAddressIn
<1>2. TypeInv /\ WorkInv /\ HolderInv /\ [Next]_vars => HolderInv'
  BY HolderStep
<1> QED
  BY WorkInvariance, <1>1, <1>2, PTL DEF Spec

\* No two IAs ever hold the same unreserved address, in any number of clients,
\* pools and interfaces, and through any number of crashes: whatever a crash
\* leaves in the files is part of one consistent database.
THEOREM ExclusiveHolds == Spec => []Exclusive
<1>1. HolderInv => Exclusive
  BY DEF HolderInv, ExclusiveIn, Exclusive
<1> QED
  BY HolderInvariance, <1>1, PTL

\* No IA of a client ever holds two addresses.
THEOREM OneAddressPerIAHolds == Spec => []OneAddressPerIA
<1>1. HolderInv => OneAddressPerIA
  BY DEF HolderInv, OneAddressIn, OneAddressPerIA
<1> QED
  BY HolderInvariance, <1>1, PTL

\* A lease ends by its expiry, by a message of its client, or by a restart.
THEOREM NoForeignRevocationHolds == Spec => NoForeignRevocation
<1> DEFINE Own == \A l \in leases \ leases' :
                    \/ l \in expired
                    \/ msg # NoMsg /\ msg.clnt = l.clnt
                    \/ restarts' # restarts
<1>1. TypeInv /\ WorkInv /\ [Next]_vars => [Own]_vars
  <2> SUFFICES ASSUME TypeInv, WorkInv, [Next]_vars
               PROVE  Own
    OBVIOUS
  <2> QED
    BY LeasesStep DEF Ends, Begins, Moves, Restarts
<1> QED
  BY WorkInvariance, <1>1, PTL DEF Spec, NoForeignRevocation

-----------------------------------------------------------------------------
(* The files                                                                *)

\* From the end of each dump to the next message the files hold the database.
FilesInv ==
  /\ phase \in {"dumpCache", "duties", "select"} =>
       disk.leases = leases /\ disk.expired \subseteq expired
  /\ phase \in {"duties", "select"} => disk.cache = cache

LEMMA FilesStep ==
  ASSUME ~PerformanceMode, TypeInv, FilesInv, [Next]_vars
  PROVE  FilesInv'
<1>1. ASSUME NEW iaid \in IAIDs, AssignIA(iaid)
      PROVE  phase' \in {"process", "spin"}
  BY <1>1, AssignOutcome DEF assignAddr, Assigning, NextOption, Processing
<1>2. ASSUME NEW iaid \in IAIDs, RenewIA(iaid) \/ RebindIA(iaid) \/ RebindDiscarded(iaid)
      PROVE  phase' \in {"process", "dumpDb"}
  BY <1>2 DEF RenewIA, RebindIA, RebindDiscarded, NextOption, Processing
<1>3. ASSUME NEW iaid \in IAIDs, NEW l \in leases,
             DeclineAddr(iaid, l) \/ ReleaseAddr(iaid, l)
      PROVE  phase' = "process"
  BY <1>3 DEF DeclineAddr, ReleaseAddr, Processing, jobVars
<1>4. ASSUME NEW l \in BagToSet(todo), ReleaseOne(l)
      PROVE  phase' = "release"
  BY <1>4 DEF ReleaseOne
<1>5. ASSUME Answer \/ ReleaseDone \/ Crash \/ Restart
      PROVE  phase' \in {"release", "dumpDb"}
  BY <1>5 DEF Answer, ReleaseDone, Crash, Restart, Boot
<1>6. CASE Timeout \/ Duties
  BY <1>6 DEF Timeout, Duties, dbVars, FilesInv
<1>7. CASE DumpDb
  BY <1>7 DEF DumpDb, dbVars, FilesInv, TypeInv, TypeOK
<1>8. CASE DumpCache
  BY <1>8 DEF DumpCache, dbVars, FilesInv, TypeInv, TypeOK
<1>9. ASSUME NEW l \in leases, Expire(l)
      PROVE  FilesInv'
  BY <1>9 DEF Expire, jobVars, FilesInv
<1>10. ASSUME NEW t \in MsgTypes, NEW c \in Clients, NEW i \in Ifaces, Receive(t, c, i)
       PROVE  phase' = "process"
  BY <1>10 DEF Receive
<1>11. CASE UNCHANGED vars
  BY <1>11 DEF vars, dbVars, jobVars, FilesInv
<1>12. phase' \in {"process", "spin", "release", "dumpDb"} => FilesInv'
  BY DEF FilesInv
<1> QED
  BY <1>1, <1>2, <1>3, <1>4, <1>5, <1>6, <1>7, <1>8, <1>9, <1>10, <1>11, <1>12
  DEF Next, Work, Handle, Environment

\* Outside performance mode a server that waits for a message has everything
\* in its files.
THEOREM DurableHolds == ASSUME ~PerformanceMode PROVE Spec => []Durable
<1>1. Init => FilesInv
  BY DEF Init, FilesInv
<1>2. TypeInv /\ FilesInv /\ [Next]_vars => FilesInv'
  BY FilesStep
<1>3. FilesInv => Durable
  BY DEF FilesInv, Durable
<1> QED
  BY TypeInvariance, <1>1, <1>2, <1>3, PTL DEF Spec

-----------------------------------------------------------------------------
(* The cache                                                                *)

\* t lists some of the entries of s, each once at most.
Drawn(t, s) ==
  \E f \in [DOMAIN t -> DOMAIN s] :
    /\ \A i \in DOMAIN t : t[i] = s[f[i]]
    /\ \A i, j \in DOMAIN t : f[i] = f[j] => i = j

\* A cache without one of its entries: those before it stay, those behind it
\* move up.
LEMMA RemoveAtElements ==
  ASSUME NEW X, NEW s \in Seq(X), NEW i \in 1 .. Len(s)
  PROVE  \A n \in 1 .. Len(s) - 1 :
           RemoveAt(s, i)[n] = IF n < i THEN s[n] ELSE s[n + 1]
<1> DEFINE front == SubSeq(s, 1, i - 1)
           back  == SubSeq(s, i + 1, Len(s))
<1>1. Len(s) \in Nat /\ i \in Int
  BY LenProperties
<1>2. \A n \in 1 .. Len(s) : s[n] \in X
  BY ElementOfSeq
<1>3. /\ front \in Seq(X) /\ Len(front) = i - 1
      /\ \A n \in 1 .. i - 1 : front[n] = s[n]
  <2>1. \A n \in 1 .. i - 1 : s[n] \in X
    BY <1>1, <1>2
  <2> QED
    BY <1>1, <2>1, SubSeqProperties
<1>4. /\ back \in Seq(X) /\ Len(back) = Len(s) - i
      /\ \A n \in 1 .. Len(s) - i : back[n] = s[i + n]
  <2>1. \A n \in i + 1 .. Len(s) : s[n] \in X
    BY <1>1, <1>2
  <2>2. /\ back \in Seq(X)
        /\ Len(back) = IF i + 1 <= Len(s) THEN Len(s) - (i + 1) + 1 ELSE 0
        /\ \A n \in 1 .. Len(s) - (i + 1) + 1 : back[n] = s[(i + 1) + n - 1]
    BY <1>1, <2>1, SubSeqProperties
  <2> HIDE DEF back
  <2> QED
    BY <1>1, <2>2
<1>5. RemoveAt(s, i) = front \o back
  BY DEF RemoveAt
<1> HIDE DEF front, back
<1>6. \A n \in 1 .. Len(front) + Len(back) :
        (front \o back)[n] = IF n <= Len(front) THEN front[n] ELSE back[n - Len(front)]
  BY <1>3, <1>4, ConcatProperties
<1>7. ASSUME NEW n \in 1 .. Len(s) - 1
      PROVE  RemoveAt(s, i)[n] = IF n < i THEN s[n] ELSE s[n + 1]
  <2>1. (front \o back)[n] = IF n <= i - 1 THEN front[n] ELSE back[n - (i - 1)]
    BY <1>1, <1>3, <1>4, <1>6
  <2>2. CASE n < i
    BY <1>1, <1>3, <1>5, <2>1, <2>2
  <2>3. CASE ~(n < i)
    <3>1. n - (i - 1) \in 1 .. Len(s) - i /\ i + (n - (i - 1)) = n + 1
      BY <1>1, <2>3
    <3>2. back[n - (i - 1)] = s[n + 1]
      BY <1>4, <3>1
    <3> QED
      BY <1>1, <1>5, <2>1, <2>3, <3>2
  <2> QED
    BY <2>2, <2>3
<1> QED
  BY <1>7

\* delFirst draws on the entries of the cache, and leaves the first found out.
LEMMA DelFirstDrawn ==
  ASSUME NEW s \in Seq(CacheEntry), NEW found \in SUBSET (DOMAIN s)
  PROVE  /\ Drawn(delFirst(s, found), s)
         /\ found # {} =>
              \E f \in [DOMAIN delFirst(s, found) -> DOMAIN s] :
                /\ \A i \in DOMAIN delFirst(s, found) :
                     delFirst(s, found)[i] = s[f[i]] /\ f[i] # Min(found)
                /\ \A i, j \in DOMAIN delFirst(s, found) : f[i] = f[j] => i = j
<1>1. Len(s) \in Nat /\ DOMAIN s = 1 .. Len(s)
  BY LenProperties
<1>2. CASE found = {}
  <2>1. delFirst(s, found) = s
    BY <1>2 DEF delFirst
  <2> DEFINE f == [i \in DOMAIN s |-> i]
  <2>2. f \in [DOMAIN s -> DOMAIN s] /\ \A i \in DOMAIN s : f[i] = i
    OBVIOUS
  <2> HIDE DEF f
  <2> QED
    BY <1>2, <2>1, <2>2 DEF Drawn
<1>3. CASE found # {}
  <2> DEFINE m == Min(found)
             t == RemoveAt(s, m)
             f == [i \in 1 .. Len(s) - 1 |-> IF i < m THEN i ELSE i + 1]
  <2>1. m \in 1 .. Len(s)
    BY <1>1, <1>3, MinIsLeast
  <2>2. delFirst(s, found) = t
    BY <1>3 DEF delFirst
  <2> HIDE DEF m
  <2>3. t \in Seq(CacheEntry) /\ Len(t) = Len(s) - 1
    BY <2>1, RemoveAtType
  <2>4. \A n \in 1 .. Len(s) - 1 : t[n] = IF n < m THEN s[n] ELSE s[n + 1]
    BY <2>1, RemoveAtElements
  <2> HIDE DEF t
  <2>5. DOMAIN t = 1 .. Len(s) - 1
    BY <2>3, LenProperties
  <2>6. /\ f \in [DOMAIN t -> DOMAIN s]
        /\ \A i \in DOMAIN t : f[i] = IF i < m THEN i ELSE i + 1
    BY <1>1, <2>1, <2>5
  <2> HIDE DEF f
  <2>7. \A i \in DOMAIN t : t[i] = s[f[i]] /\ f[i] # m
    BY <1>1, <2>1, <2>4, <2>5, <2>6
  <2>8. \A i, j \in DOMAIN t : f[i] = f[j] => i = j
    BY <1>1, <2>1, <2>5, <2>6
  <2>9. m = Min(found)
    BY DEF m
  <2> QED
    BY <2>2, <2>6, <2>7, <2>8, <2>9 DEF Drawn
<1> QED
  BY <1>2, <1>3

\* The beginning of a cache, and its end, draw on it.
LEMMA SubSeqDrawn ==
  ASSUME NEW s \in Seq(CacheEntry), NEW m \in Nat \ {0}, NEW n \in 0 .. Len(s)
  PROVE  Drawn(SubSeq(s, m, n), s)
<1> DEFINE t == SubSeq(s, m, n)
           f == [i \in DOMAIN t |-> m + i - 1]
<1>1. Len(s) \in Nat /\ DOMAIN s = 1 .. Len(s)
  BY LenProperties
<1>2. \A i \in m .. n : s[i] \in CacheEntry
  BY <1>1, ElementOfSeq
<1>3. /\ t \in Seq(CacheEntry)
      /\ Len(t) = IF m <= n THEN n - m + 1 ELSE 0
      /\ \A i \in 1 .. n - m + 1 : t[i] = s[m + i - 1]
  BY <1>1, <1>2, SubSeqProperties
<1> HIDE DEF t
<1>4. DOMAIN t = 1 .. Len(t)
  BY <1>3, LenProperties
<1>5. \A i \in DOMAIN t : i \in 1 .. n - m + 1 /\ m + i - 1 \in DOMAIN s
  BY <1>1, <1>3, <1>4
<1>6. f \in [DOMAIN t -> DOMAIN s] /\ \A i \in DOMAIN t : f[i] = m + i - 1
  BY <1>5
<1> HIDE DEF f
<1>7. \A i \in DOMAIN t : t[i] = s[f[i]]
  BY <1>3, <1>5, <1>6
<1>8. \A i, j \in DOMAIN t : f[i] = f[j] => i = j
  BY <1>5, <1>6
<1> QED
  BY <1>6, <1>7, <1>8 DEF t, Drawn

\* At most one entry per client, and no reserved address.
EntriesSound(s) ==
  /\ \A i, j \in DOMAIN s : s[i].clnt = s[j].clnt => i = j
  /\ \A i \in DOMAIN s : s[i].addr \notin Reserved

LEMMA DrawnSound ==
  ASSUME NEW s, NEW t, EntriesSound(s), Drawn(t, s)
  PROVE  EntriesSound(t)
<1>1. PICK f \in [DOMAIN t -> DOMAIN s] :
             /\ \A i \in DOMAIN t : t[i] = s[f[i]]
             /\ \A i, j \in DOMAIN t : f[i] = f[j] => i = j
  BY DEF Drawn
<1>2. \A i \in DOMAIN t : f[i] \in DOMAIN s
  OBVIOUS
<1>3. \A i, j \in DOMAIN t : t[i].clnt = t[j].clnt => i = j
  BY <1>1, <1>2 DEF EntriesSound
<1>4. \A i \in DOMAIN t : t[i].addr \notin Reserved
  BY <1>1, <1>2 DEF EntriesSound
<1> QED
  BY <1>3, <1>4 DEF EntriesSound

\* addCachedEntry replaces the client's entry, takes no reserved address and
\* drops what is beyond the size of the cache; its entries are old ones, or
\* the new one.
LEMMA AddCachedEntrySound ==
  ASSUME NEW s \in Seq(CacheEntry), NEW c \in AllClients, NEW a \in Addrs,
         EntriesSound(s), Len(s) <= CacheMaxSize
  PROVE  /\ EntriesSound(addCachedEntry(s, c, a))
         /\ Len(addCachedEntry(s, c, a)) <= CacheMaxSize
         /\ \A i \in DOMAIN addCachedEntry(s, c, a) :
              \/ \E j \in DOMAIN s : addCachedEntry(s, c, a)[i] = s[j]
              \/ addCachedEntry(s, c, a)[i] = [clnt |-> c, addr |-> a]
<1> DEFINE e == [clnt |-> c, addr |-> a]
           old == EntriesOf(s, c)
           t == delFirst(s, old)
           u == Append(t, e)
<1>1. CASE CacheMaxSize = 0 \/ a \in Reserved
  BY <1>1 DEF addCachedEntry
<1>2. CASE CacheMaxSize # 0 /\ a \notin Reserved
  <2>1. addCachedEntry(s, c, a) = checkCacheSize(u)
    BY <1>2 DEF addCachedEntry
  <2>2. old \in SUBSET (DOMAIN s)
    BY DEF EntriesOf
  <2>3. t \in Seq(CacheEntry) /\ Drawn(t, s)
    BY <2>2, DelFirstType, DelFirstDrawn
  <2>4. EntriesSound(t)
    BY <2>3, DrawnSound
  <2>5. \A i \in DOMAIN t : (\E j \in DOMAIN s : t[i] = s[j]) /\ t[i].clnt # c
    <3>1. CASE old = {}
      <4>1. t = s
        BY <3>1 DEF delFirst
      <4> QED
        BY <3>1, <4>1 DEF EntriesOf
    <3>2. CASE old # {}
      <4>1. PICK f \in [DOMAIN t -> DOMAIN s] :
                   \A i \in DOMAIN t : t[i] = s[f[i]] /\ f[i] # Min(old)
        BY <2>2, <3>2, DelFirstDrawn
      <4>2. Min(old) \in old
        <5>1. old \subseteq Nat
          BY <2>2, LenProperties
        <5> QED
          BY <3>2, <5>1, MinIsLeast
      <4>3. Min(old) \in DOMAIN s /\ s[Min(old)].clnt = c
        BY <4>2 DEF EntriesOf
      <4> HIDE DEF t, old
      <4>4. \A i \in DOMAIN t : f[i] \in DOMAIN s
        OBVIOUS
      <4> QED
        BY <4>1, <4>3, <4>4 DEF EntriesSound
    <3> QED
      BY <3>1, <3>2
  <2> HIDE DEF t
  <2>6. Len(t) \in Nat /\ DOMAIN t = 1 .. Len(t)
    BY <2>3, LenProperties
  <2>7. /\ u \in Seq(CacheEntry) /\ Len(u) = Len(t) + 1
        /\ \A i \in 1 .. Len(t) : u[i] = t[i]
        /\ u[Len(t) + 1] = e
    <3>1. e \in CacheEntry
      BY DEF CacheEntry
    <3> HIDE DEF e
    <3> QED
      BY <2>3, <3>1, AppendProperties
  <2> HIDE DEF u
  <2>8. DOMAIN u = 1 .. Len(t) + 1
    BY <2>7, LenProperties
  <2>9. \A i \in DOMAIN u : (i \in DOMAIN t /\ u[i] = t[i]) \/ (i = Len(t) + 1 /\ u[i] = e)
    BY <2>6, <2>7, <2>8
  <2>10. e.clnt = c /\ e.addr = a
    OBVIOUS
  <2>11. EntriesSound(u)
    <3> HIDE DEF e
    <3>1. \A i, j \in DOMAIN u : u[i].clnt = u[j].clnt => i = j
      BY <2>4, <2>5, <2>9, <2>10 DEF EntriesSound
    <3>2. \A i \in DOMAIN u : u[i].addr \notin Reserved
      BY <1>2, <2>4, <2>9, <2>10 DEF EntriesSound
    <3> QED
      BY <3>1, <3>2 DEF EntriesSound
  <2>12. Drawn(checkCacheSize(u), u) /\ Len(checkCacheSize(u)) <= CacheMaxSize
    <3>1. CacheMaxSize \in Nat
      BY ConfigAssumption
    <3>2. Len(u) \in Nat
      BY <2>6, <2>7
    <3>3. CASE Len(u) > CacheMaxSize
      <4>1. Len(u) - CacheMaxSize + 1 \in Nat \ {0} /\ Len(u) \in 0 .. Len(u)
        BY <3>1, <3>2, <3>3
      <4>2. Drawn(SubSeq(u, Len(u) - CacheMaxSize + 1, Len(u)), u)
        BY <2>7, <4>1, SubSeqDrawn
      <4> QED
        BY <2>7, <3>3, <4>2, CheckCacheSizeType DEF checkCacheSize
    <3>4. CASE ~(Len(u) > CacheMaxSize)
      <4>1. Drawn(u, u)
        <5> DEFINE f == [i \in DOMAIN u |-> i]
        <5>1. f \in [DOMAIN u -> DOMAIN u] /\ \A i \in DOMAIN u : f[i] = i
          OBVIOUS
        <5> HIDE DEF f
        <5> QED
          BY <5>1 DEF Drawn
      <4> QED
        BY <2>7, <3>4, <4>1, CheckCacheSizeType DEF checkCacheSize
    <3> QED
      BY <3>3, <3>4
  <2> DEFINE v == checkCacheSize(u)
  <2> HIDE DEF v
  <2>13. EntriesSound(v)
    BY <2>11, <2>12, DrawnSound DEF v
  <2>14. \A i \in DOMAIN v : \E j \in DOMAIN u : v[i] = u[j]
    BY <2>12 DEF Drawn, v
  <2>15. \A i \in DOMAIN v : (\E j \in DOMAIN s : v[i] = s[j]) \/ v[i] = e
    BY <2>5, <2>9, <2>14
  <2> QED
    BY <2>1, <2>12, <2>13, <2>15 DEF v
<1> QED
  BY <1>1, <1>2

\* A step leaves the cache alone, forgets an entry, remembers a lease that
\* ends, or takes the cache of the files.
LEMMA CacheStep ==
  ASSUME TypeInv, [Next]_vars
  PROVE  \/ cache' = cache
         \/ \E found \in SUBSET (DOMAIN cache) : cache' = delFirst(cache, found)
         \/ \E l \in leases : cache' = addCachedEntry(cache, l.clnt, l.addr)
         \/ cache' = disk'.cache
<1>1. ASSUME NEW iaid \in IAIDs, AssignIA(iaid)
      PROVE  \/ cache' = cache
             \/ \E found \in SUBSET (DOMAIN cache) : cache' = delFirst(cache, found)
  <2>1. cache' \in {cache, CacheMiss}
    BY <1>1 DEF AssignIA, AssignBound, AssignFixed, AssignRefused, AssignCached,
                AssignHint, AssignSpins, AssignRandom, AssignNothing, dbVars
  <2>2. EntriesFor(cache, CachedAddr) \in SUBSET (DOMAIN cache)
    BY DEF EntriesFor
  <2> QED
    BY <2>1, <2>2 DEF CacheMiss
<1>2. ASSUME NEW iaid \in IAIDs, RenewIA(iaid) \/ RebindIA(iaid) \/ RebindDiscarded(iaid)
      PROVE  cache' = cache
  BY <1>2 DEF RenewIA, RebindIA, RebindDiscarded, dbVars
<1>3. ASSUME NEW iaid \in IAIDs, NEW l \in leases,
             DeclineAddr(iaid, l) \/ ReleaseAddr(iaid, l)
      PROVE  cache' = addCachedEntry(cache, l.clnt, l.addr)
  BY <1>3 DEF DeclineAddr, ReleaseAddr, delClntAddr
<1>4. ASSUME NEW l \in BagToSet(todo), ReleaseOne(l)
      PROVE  cache' = cache \/ \E m \in leases : cache' = addCachedEntry(cache, m.clnt, m.addr)
  BY <1>4 DEF ReleaseOne, delClntAddr
<1>5. ASSUME Answer \/ Timeout \/ Duties \/ ReleaseDone \/ DumpDb \/ DumpCache
      PROVE  cache' = cache
  BY <1>5 DEF Answer, Timeout, Duties, ReleaseDone, DumpDb, DumpCache, dbVars
<1>6. ASSUME Crash \/ Restart
      PROVE  cache' = disk'.cache
  BY <1>6 DEF Crash, Restart, Boot
<1>7. ASSUME Environment \/ UNCHANGED vars
      PROVE  cache' = cache
  BY <1>7 DEF Environment, Expire, Receive, dbVars, vars
<1> QED
  BY <1>1, <1>2, <1>3, <1>4, <1>5, <1>6, <1>7 DEF Next, Work, Handle

\* The cache file holds what it held, or a beginning of the cache.
LEMMA DiskCacheStep ==
  ASSUME TypeInv, [Next]_vars
  PROVE  \/ disk'.cache = disk.cache
         \/ disk'.cache = cache
         \/ \E n \in 0 .. Len(cache) : disk'.cache = SubSeq(cache, 1, n)
<1>1. ASSUME NEW iaid \in IAIDs, AssignIA(iaid)
      PROVE  disk' = disk
  BY <1>1, AssignOutcome DEF assignAddr
<1>2. ASSUME NEW iaid \in IAIDs, RenewIA(iaid) \/ RebindIA(iaid) \/ RebindDiscarded(iaid)
      PROVE  disk' = disk
  BY <1>2 DEF RenewIA, RebindIA, RebindDiscarded
<1>3. ASSUME NEW iaid \in IAIDs, NEW l \in leases,
             DeclineAddr(iaid, l) \/ ReleaseAddr(iaid, l)
      PROVE  disk' = disk
  BY <1>3 DEF DeclineAddr, ReleaseAddr
<1>4. ASSUME NEW l \in BagToSet(todo), ReleaseOne(l)
      PROVE  disk' = disk
  BY <1>4 DEF ReleaseOne
<1>5. ASSUME Answer \/ Timeout \/ Duties \/ ReleaseDone
      PROVE  disk' = disk
  BY <1>5 DEF Answer, Timeout, Duties, ReleaseDone
<1>6. CASE DumpDb
  BY <1>6 DEF DumpDb, TypeInv, TypeOK
<1>7. CASE DumpCache
  BY <1>7 DEF DumpCache, TypeInv, TypeOK
<1>8. CASE Crash
  <2>1. PICK image \in CrashImages : disk' = image
    BY <1>8 DEF Crash, Boot
  <2>2. CASE Writing("dumpDb")
    BY <2>1, <2>2 DEF CrashImages
  <2>3. CASE ~Writing("dumpDb") /\ Writing("dumpCache")
    <3>1. PICK n \in 0 .. Len(cache) : disk' = [disk EXCEPT !.cache = SubSeq(cache, 1, n)]
      BY <2>1, <2>3 DEF CrashImages
    <3>2. disk'.cache = SubSeq(cache, 1, n)
      BY <3>1 DEF TypeInv, TypeOK
    <3> QED
      BY <3>2
  <2>4. CASE ~Writing("dumpDb") /\ ~Writing("dumpCache")
    BY <2>1, <2>4 DEF CrashImages
  <2> QED
    BY <2>2, <2>3, <2>4
<1>9. CASE Restart
  BY <1>9 DEF Restart, Boot
<1>10. ASSUME Environment \/ UNCHANGED vars
       PROVE  disk' = disk
  BY <1>10 DEF Environment, Expire, Receive, vars
<1> QED
  BY <1>1, <1>2, <1>3, <1>4, <1>5, <1>6, <1>7, <1>8, <1>9, <1>10 DEF Next, Work, Handle

\* The cache of the files is part of the invariant, as their leases are.
CacheInv ==
  /\ EntriesSound(cache) /\ Len(cache) <= CacheMaxSize
  /\ EntriesSound(disk.cache) /\ Len(disk.cache) <= CacheMaxSize

LEMMA CacheInvStep ==
  ASSUME TypeInv, CacheInv, [Next]_vars
  PROVE  CacheInv'
<1>1. cache \in Seq(CacheEntry) /\ Len(cache) \in Nat /\ CacheMaxSize \in Nat
  BY LenProperties, ConfigAssumption DEF TypeInv, TypeOK
<1>2. EntriesSound(disk'.cache) /\ Len(disk'.cache) <= CacheMaxSize
  <2>1. ASSUME NEW n \in 0 .. Len(cache)
        PROVE  EntriesSound(SubSeq(cache, 1, n)) /\ Len(SubSeq(cache, 1, n)) <= CacheMaxSize
    <3>1. Drawn(SubSeq(cache, 1, n), cache)
      BY <1>1, SubSeqDrawn
    <3>2. Len(SubSeq(cache, 1, n)) = n
      <4>1. \A i \in 1 .. n : cache[i] \in CacheEntry
        BY <1>1, ElementOfSeq
      <4>2. Len(SubSeq(cache, 1, n)) = IF 1 <= n THEN n - 1 + 1 ELSE 0
        BY <1>1, <4>1, SubSeqProperties
      <4> QED
        BY <1>1, <4>2
    <3> QED
      BY <1>1, <3>1, <3>2, DrawnSound DEF CacheInv
  <2> QED
    BY <2>1, DiskCacheStep DEF CacheInv
<1>3. EntriesSound(cache') /\ Len(cache') <= CacheMaxSize
  <2>1. ASSUME NEW found \in SUBSET (DOMAIN cache)
        PROVE  EntriesSound(delFirst(cache, found)) /\ Len(delFirst(cache, found)) <= CacheMaxSize
    <3>1. Drawn(delFirst(cache, found), cache)
      BY <1>1, DelFirstDrawn
    <3>2. /\ delFirst(cache, found) \in Seq(CacheEntry)
          /\ Len(delFirst(cache, found)) <= Len(cache)
      BY <1>1, DelFirstType
    <3>3. Len(delFirst(cache, found)) \in Nat
      BY <3>2, LenProperties
    <3> QED
      BY <1>1, <3>1, <3>2, <3>3, DrawnSound DEF CacheInv
  <2>2. ASSUME NEW l \in leases
        PROVE  /\ EntriesSound(addCachedEntry(cache, l.clnt, l.addr))
               /\ Len(addCachedEntry(cache, l.clnt, l.addr)) <= CacheMaxSize
    <3>1. l.clnt \in AllClients /\ l.addr \in Addrs
      BY DEF TypeInv, TypeOK, Lease
    <3> QED
      BY <1>1, <3>1, AddCachedEntrySound DEF CacheInv
  <2> QED
    BY <1>2, <2>1, <2>2, CacheStep DEF CacheInv
<1> QED
  BY <1>2, <1>3 DEF CacheInv, EntriesSound

LEMMA CacheInvariance == Spec => [](TypeInv /\ CacheInv)
<1>1. Init => CacheInv
  <2> SUFFICES ASSUME Init PROVE CacheInv
    OBVIOUS
  <2>1. Len(<<>>) = 0 /\ DOMAIN <<>> = {}
    OBVIOUS
  <2> QED
    BY <2>1, ConfigAssumption DEF Init, CacheInv, EntriesSound
<1>2. TypeInv /\ CacheInv /\ [Next]_vars => CacheInv'
  BY CacheInvStep
<1> QED
  BY TypeInvariance, <1>1, <1>2, PTL DEF Spec

\* The address cache never outgrows its size, holds one entry per client and
\* no reserved address: in every order of remembering and forgetting, and
\* after a restart from a cache file that was cut short.
THEOREM CacheSoundHolds == Spec => []CacheSound
<1>1. CacheInv => CacheSound
  BY DEF CacheInv, EntriesSound, CacheSound
<1> QED
  BY CacheInvariance, <1>1, PTL

-----------------------------------------------------------------------------
(* client-max-lease                                                         *)

LimitIn(L) ==
  \A c \in Clients :
    \/ \E i \in Ifaces : Exception[<<i, c>>] # NoAddr
    \/ \E i \in Ifaces : Cardinality({l \in L : l.clnt = c}) <= ClntMaxLease[i]

LimitInv == LimitIn(leases) /\ LimitIn(disk.leases)

\* A database with no more leases of a client keeps the limit.
LEMMA LimitLess ==
  ASSUME NEW L, IsFiniteSet(L), LimitIn(L), NEW K,
         \A l \in K : l.clnt \in Clients => l \in L
  PROVE  LimitIn(K)
<1> SUFFICES ASSUME NEW c \in Clients, NEW i \in Ifaces,
                    Cardinality({l \in L : l.clnt = c}) <= ClntMaxLease[i]
             PROVE  Cardinality({l \in K : l.clnt = c}) <= ClntMaxLease[i]
  BY DEF LimitIn
<1> DEFINE old == {l \in L : l.clnt = c}
           new == {l \in K : l.clnt = c}
<1>1. IsFiniteSet(old)
  BY FS_Subset
<1>2. new \in SUBSET old
  OBVIOUS
<1>3. Cardinality(new) <= Cardinality(old) /\ IsFiniteSet(new)
  BY <1>1, <1>2, FS_Subset
<1>4. Cardinality(new) \in Nat /\ Cardinality(old) \in Nat /\ ClntMaxLease[i] \in Nat
  BY <1>1, <1>3, FS_CardinalityType, ConfigAssumption
<1>5. Cardinality(old) <= ClntMaxLease[i]
  OBVIOUS
<1> HIDE DEF old, new
<1>6. Cardinality(new) <= ClntMaxLease[i]
  BY <1>3, <1>4, <1>5
<1> QED
  BY <1>6 DEF new

LEMMA LimitStep ==
  ASSUME Ifaces # {}, TypeInv, WorkInv, LimitInv, [Next]_vars
  PROVE  LimitInv'
<1>1. IsFiniteSet(leases) /\ IsFiniteSet(disk.leases)
  BY DEF TypeInv
<1>2. LimitIn(leases')
  <2>1. CASE leases' = leases \/ Ends \/ Moves \/ Restarts
    <3>1. CASE leases' = leases \/ Ends \/ leases' \subseteq leases
      <4>1. \A l \in leases' : l \in leases
        BY <3>1 DEF Ends
      <4> QED
        BY <1>1, <4>1, LimitLess DEF LimitInv
    <3>2. CASE Moves
      <4>1. \A l \in leases' : l.clnt \in Clients => l \in leases
        BY <3>2, ClientsAssumption DEF Moves
      <4> QED
        BY <1>1, <4>1, LimitLess DEF LimitInv
    <3>3. CASE leases' = disk.leases
      BY <3>3 DEF LimitInv
    <3> QED
      BY <2>1, <3>1, <3>2, <3>3 DEF Restarts
  <2>2. CASE Begins
    <3>1. PICK n \in Lease :
                 /\ leases' = leases \cup {n}
                 /\ msg \in Message /\ n.clnt = msg.clnt /\ Grantable(n.addr)
      BY <2>2 DEF Begins
    <3> SUFFICES ASSUME NEW c \in Clients, \A i \in Ifaces : Exception[<<i, c>>] = NoAddr
                 PROVE  \E i \in Ifaces :
                          Cardinality({l \in leases' : l.clnt = c}) <= ClntMaxLease[i]
      BY DEF LimitIn
    <3> DEFINE old == {l \in leases : l.clnt = c}
               new == {l \in leases' : l.clnt = c}
    <3>2. IsFiniteSet(old) /\ Cardinality(old) \in Nat
      BY <1>1, FS_Subset, FS_CardinalityType
    <3>3. CASE c # n.clnt
      <4>1. new = old
        BY <3>1, <3>3
      <4> QED
        BY <4>1 DEF LimitInv, LimitIn
    <3>4. CASE c = n.clnt
      <4>1. msg.iface \in Ifaces /\ msg.clnt = c
        BY <3>1, <3>4 DEF Message
      <4>2. ~AtClntMaxLease
        <5>1. ReservedAddr = NoAddr /\ NoAddr \notin Reserved
          BY <4>1 DEF ReservedAddr, Reserved
        <5> QED
          BY <3>1, <5>1 DEF Grantable
      <4>3. ~(Cardinality(old) >= ClntMaxLease[msg.iface])
        BY <4>1, <4>2 DEF AtClntMaxLease, getLeaseCount
      <4>4. new = old \cup {n}
        BY <3>1, <3>4
      <4>5. ClntMaxLease[msg.iface] \in Nat
        BY <4>1, ConfigAssumption
      <4> HIDE DEF old, new
      <4>6. Cardinality(new) \in {Cardinality(old), Cardinality(old) + 1}
        BY <3>2, <4>4, FS_AddElement
      <4>7. Cardinality(new) <= ClntMaxLease[msg.iface]
        BY <3>2, <4>3, <4>5, <4>6
      <4> QED
        BY <4>1, <4>7 DEF new
    <3> QED
      BY <3>3, <3>4
  <2> QED
    BY <2>1, <2>2, LeasesStep
<1>3. LimitIn(disk'.leases)
  BY <1>2, DiskStep DEF LimitInv
<1> QED
  BY <1>2, <1>3 DEF LimitInv, LimitIn

\* However many IAs a client sends, in however many messages, and whatever
\* the cache, its hints, declines and restarts bring back: without
\* reservations it never holds more than client-max-lease leases.
THEOREM ClientLimitHolds == ASSUME Ifaces # {} PROVE Spec => []ClientLimit
<1>1. Init => LimitInv
  <2> SUFFICES ASSUME Init PROVE LimitInv
    OBVIOUS
  <2>1. \A c : {l \in {} : l.clnt = c} = {}
    OBVIOUS
  <2>2. \A i \in Ifaces : 0 <= ClntMaxLease[i]
    BY ConfigAssumption
  <2>3. LimitIn({})
    BY <2>1, <2>2, FS_EmptySet DEF LimitIn
  <2> QED
    BY <2>3 DEF Init, LimitInv
<1>2. TypeInv /\ WorkInv /\ LimitInv /\ [Next]_vars => LimitInv'
  BY LimitStep
<1>3. LimitInv => ClientLimit
  BY DEF LimitInv, LimitIn, ClientLimit, getLeaseCount
<1> QED
  BY WorkInvariance, <1>1, <1>2, <1>3, PTL DEF Spec

-----------------------------------------------------------------------------
(* The access lists of the classes                                          *)

\* No address belongs to two pools.
PoolsDisjoint == \A k, m \in Classes : Pool[k] \cap Pool[m] # {} => k = m

\* getClassByAddr finds the class an address is of.
LEMMA ClassFound ==
  ASSUME NEW k \in Classes, NEW a \in Pool[k]
  PROVE  /\ getClassByAddr(ClassIface[k], a) # NoClass
         /\ PoolsDisjoint => getClassByAddr(ClassIface[k], a) = k
<1> DEFINE found == {n \in Classes : ClassIface[n] = ClassIface[k] /\ a \in Pool[n]}
<1>1. found # {} /\ found \subseteq Nat \ {NoClass}
  BY ConfigAssumption
<1>2. getClassByAddr(ClassIface[k], a) = Min(found)
  BY <1>1 DEF getClassByAddr
<1>3. Min(found) \in found
  <2> HIDE DEF found
  <2> QED BY <1>1, MinIsLeast
<1>4. getClassByAddr(ClassIface[k], a) # NoClass
  BY <1>1, <1>2, <1>3
<1>5. PoolsDisjoint => getClassByAddr(ClassIface[k], a) = k
  BY <1>2, <1>3 DEF PoolsDisjoint
<1> QED
  BY <1>4, <1>5

\* A client's lease is of a class that admits the client, on the interface of
\* the class.
AdmittedIn(L) ==
  \A l \in L :
    l.clnt # Declined /\ l.addr \notin Reserved =>
      \E k \in Classes : /\ l.iface = ClassIface[k] /\ l.addr \in Pool[k]
                         /\ clntSupported(k, l.clnt)

\* So is what the cache remembers of it.
AdmittedEntries(s) ==
  \A i \in DOMAIN s :
    s[i].clnt # Declined =>
      \E k \in Classes : s[i].addr \in Pool[k] /\ clntSupported(k, s[i].clnt)

AdmittedInv ==
  /\ AdmittedIn(leases) /\ AdmittedIn(disk.leases)
  /\ AdmittedEntries(cache) /\ AdmittedEntries(disk.cache)

LEMMA AdmittedLeases ==
  ASSUME PoolsDisjoint, TypeInv, WorkInv, AdmittedInv, [Next]_vars
  PROVE  AdmittedIn(leases') /\ AdmittedIn(disk'.leases)
<1>1. AdmittedIn(leases')
  <2>1. CASE leases' = leases \/ Ends \/ Moves \/ Restarts
    BY <2>1 DEF Ends, Moves, Restarts, AdmittedInv, AdmittedIn
  <2>2. CASE Begins
    <3>1. PICK n \in Lease :
                 /\ leases' = leases \cup {n}
                 /\ msg \in Message /\ n.clnt = msg.clnt /\ n.iface = msg.iface
                 /\ Grantable(n.addr) /\ n.clnt # Declined
      BY <2>2 DEF Begins
    <3>2. ASSUME n.addr \notin Reserved
          PROVE  \E k \in Classes : /\ n.iface = ClassIface[k] /\ n.addr \in Pool[k]
                                    /\ clntSupported(k, n.clnt)
      <4>1. CASE \E k \in Classes : /\ ClassIface[k] = msg.iface /\ n.addr \in Pool[k]
                                    /\ clntSupported(k, msg.clnt)
        BY <3>1, <4>1
      <4>2. CASE n.addr = CachedAddr /\ getClassByAddr(msg.iface, n.addr) # NoClass
        <5> DEFINE found == EntriesOf(cache, msg.clnt)
                   k == getClassByAddr(msg.iface, n.addr)
        <5>1. k \in Classes /\ ClassIface[k] = msg.iface /\ n.addr \in Pool[k]
          BY <4>2, ClassByAddr
        <5>2. n.addr # NoAddr
          BY ClientsAssumption DEF Lease
        <5>3. found # {} /\ n.addr = cache[Min(found)].addr
          BY <4>2, <5>2 DEF CachedAddr, getCachedEntry
        <5>4. Min(found) \in found
          <6>1. found \subseteq Nat
            BY LenProperties DEF EntriesOf, TypeInv, TypeOK
          <6> QED
            BY <5>3, <6>1, MinIsLeast
        <5>5. Min(found) \in DOMAIN cache /\ cache[Min(found)].clnt = msg.clnt
          BY <5>4 DEF EntriesOf
        <5>6. PICK m \in Classes : n.addr \in Pool[m] /\ clntSupported(m, msg.clnt)
          BY <3>1, <5>3, <5>5 DEF AdmittedInv, AdmittedEntries
        <5>7. m = k
          BY <5>1, <5>6 DEF PoolsDisjoint
        <5> QED
          BY <3>1, <5>1, <5>6, <5>7
      <4> QED
        BY <3>1, <3>2, <4>1, <4>2 DEF Grantable
    <3> QED
      BY <3>1, <3>2 DEF AdmittedInv, AdmittedIn
  <2> QED
    BY <2>1, <2>2, LeasesStep
<1>2. AdmittedIn(disk'.leases)
  BY <1>1, DiskStep DEF AdmittedInv
<1> QED
  BY <1>1, <1>2

LEMMA AdmittedCache ==
  ASSUME TypeInv, CacheInv, AdmittedInv, [Next]_vars
  PROVE  AdmittedEntries(cache') /\ AdmittedEntries(disk'.cache)
<1>1. cache \in Seq(CacheEntry)
  BY DEF TypeInv, TypeOK
<1>2. ASSUME NEW t, Drawn(t, cache)
      PROVE  AdmittedEntries(t)
  <2>1. \A i \in DOMAIN t : \E j \in DOMAIN cache : t[i] = cache[j]
    BY <1>2 DEF Drawn
  <2> QED
    BY <2>1 DEF AdmittedInv, AdmittedEntries
<1>3. AdmittedEntries(disk'.cache)
  <2>1. \A n \in 0 .. Len(cache) : AdmittedEntries(SubSeq(cache, 1, n))
    BY <1>1, <1>2, SubSeqDrawn
  <2> QED
    BY <2>1, DiskCacheStep DEF AdmittedInv
<1>4. ASSUME NEW l \in leases
      PROVE  AdmittedEntries(addCachedEntry(cache, l.clnt, l.addr))
  <2> DEFINE v == addCachedEntry(cache, l.clnt, l.addr)
             e == [clnt |-> l.clnt, addr |-> l.addr]
  <2>1. l.clnt \in AllClients /\ l.addr \in Addrs
    BY DEF TypeInv, TypeOK, Lease
  <2>2. /\ EntriesSound(v)
        /\ \A i \in DOMAIN v : (\E j \in DOMAIN cache : v[i] = cache[j]) \/ v[i] = e
    BY <1>1, <2>1, AddCachedEntrySound DEF CacheInv
  <2>3. e.clnt = l.clnt /\ e.addr = l.addr
    OBVIOUS
  <2> HIDE DEF v, e
  <2>4. ASSUME NEW i \in DOMAIN v, v[i].clnt # Declined
        PROVE  \E k \in Classes : v[i].addr \in Pool[k] /\ clntSupported(k, v[i].clnt)
    <3>1. CASE \E j \in DOMAIN cache : v[i] = cache[j]
      BY <2>4, <3>1 DEF AdmittedInv, AdmittedEntries
    <3>2. CASE v[i] = e
      BY <2>2, <2>3, <2>4, <3>2 DEF AdmittedInv, AdmittedIn, EntriesSound
    <3> QED
      BY <2>2, <3>1, <3>2
  <2>5. AdmittedEntries(v)
    BY <2>4 DEF AdmittedEntries
  <2> QED
    BY <2>5 DEF v
<1>5. AdmittedEntries(cache')
  <2>1. \A found \in SUBSET (DOMAIN cache) : AdmittedEntries(delFirst(cache, found))
    BY <1>1, <1>2, DelFirstDrawn
  <2> QED
    BY <1>3, <1>4, <2>1, CacheStep DEF AdmittedInv
<1> QED
  BY <1>3, <1>5

\* A client never holds an unreserved address of a class whose lists do not
\* admit it, although the address the cache remembers is granted without a
\* look at them: the cache only ever remembers admitted addresses.
THEOREM SupportedOnlyHolds == ASSUME PoolsDisjoint PROVE Spec => []SupportedOnly
<1>1. Init => AdmittedInv
  <2>1. DOMAIN <<>> = {}
    OBVIOUS
  <2> QED
    BY <2>1 DEF Init, AdmittedInv, AdmittedIn, AdmittedEntries
<1>2. TypeInv /\ WorkInv /\ CacheInv /\ AdmittedInv /\ [Next]_vars => AdmittedInv'
  <2> SUFFICES ASSUME TypeInv, WorkInv, CacheInv, AdmittedInv, [Next]_vars
               PROVE  AdmittedInv'
    OBVIOUS
  <2>1. AdmittedIn(leases') /\ AdmittedIn(disk'.leases)
    BY AdmittedLeases
  <2>2. AdmittedEntries(cache') /\ AdmittedEntries(disk'.cache)
    BY AdmittedCache
  <2> QED
    BY <2>1, <2>2 DEF AdmittedInv, AdmittedIn, AdmittedEntries
<1>3. AdmittedInv => SupportedOnly
  <2> SUFFICES ASSUME AdmittedInv, NEW l \in leases,
                      l.clnt # Declined, l.addr \notin Reserved
               PROVE  /\ getClassByAddr(l.iface, l.addr) # NoClass
                      /\ clntSupported(getClassByAddr(l.iface, l.addr), l.clnt)
    BY DEF SupportedOnly
  <2>1. PICK k \in Classes : /\ l.iface = ClassIface[k] /\ l.addr \in Pool[k]
                             /\ clntSupported(k, l.clnt)
    BY DEF AdmittedInv, AdmittedIn
  <2> QED
    BY <2>1, ClassFound
<1> QED
  BY WorkInvariance, CacheInvariance, <1>1, <1>2, <1>3, PTL DEF Spec

-----------------------------------------------------------------------------
(* The core implements the table of holders                                 *)

\* The holder of an address is read off the only lease of it.
LEMMA HolderOf ==
  ASSUME NEW L \in SUBSET Lease, ExclusiveIn(L), NEW a \in TableAddrs
  PROVE  /\ (\A l \in L : l.addr # a) => holders(L)[a] = NoAddr
         /\ \A l \in L : l.addr = a => /\ holders(L)[a] = <<l.clnt, l.iaid>>
                                       /\ holders(L)[a] # NoAddr
<1>1. (\A l \in L : l.addr # a) => holders(L)[a] = NoAddr
  BY DEF holders
<1>2. ASSUME NEW l \in L, l.addr = a
      PROVE  holders(L)[a] = <<l.clnt, l.iaid>> /\ holders(L)[a] # NoAddr
  <2> DEFINE m == CHOOSE x \in L : x.addr = a
  <2>1. m \in L /\ m.addr = a
    BY <1>2
  <2>2. a \notin Reserved
    BY DEF TableAddrs
  <2>3. m = l
    BY <1>2, <2>1, <2>2 DEF ExclusiveIn
  <2>4. holders(L)[a] = <<m.clnt, m.iaid>>
    BY <1>2 DEF holders
  <2>5. <<l.clnt, l.iaid>> \in AllClients \X IAIDs
    BY DEF Lease
  <2> QED
    BY <2>3, <2>4, <2>5, TableAssumption
<1> QED
  BY <1>1, <1>2

LEMMA HoldersType ==
  ASSUME NEW L
  PROVE  holders(L) = [a \in TableAddrs |-> holders(L)[a]]
BY DEF holders

\* The same leases of an address mean the same holder.
LEMMA HolderKept ==
  ASSUME NEW L \in SUBSET Lease, NEW K \in SUBSET Lease,
         ExclusiveIn(L), ExclusiveIn(K), NEW a \in TableAddrs,
         \A l \in L \cup K : l.addr = a => l \in L \cap K
  PROVE  holders(K)[a] = holders(L)[a]
<1>1. CASE \A l \in L : l.addr # a
  <2>1. \A l \in K : l.addr # a
    BY <1>1
  <2> QED
    BY <1>1, <2>1, HolderOf
<1>2. CASE \E l \in L : l.addr = a
  <2>1. PICK l \in L : l.addr = a
    BY <1>2
  <2>2. l \in K
    BY <2>1
  <2>3. holders(L)[a] = <<l.clnt, l.iaid>>
    BY <2>1, HolderOf
  <2>4. holders(K)[a] = <<l.clnt, l.iaid>>
    BY <2>1, <2>2, HolderOf
  <2> QED
    BY <2>3, <2>4
<1> QED
  BY <1>1, <1>2

\* A lease that begins takes a free address, one that ends gives it back, a
\* declined one goes to the quarantine.
LEMMA TableLeaseStep ==
  ASSUME TypeInv, TypeInv', WorkInv, HolderInv, HolderInv',
         Ends \/ Begins \/ Moves, disk'.leases = disk.leases
  PROVE  [Table!TableNext]_(Table!tvars)
<1> DEFINE H == holders(leases)
           G == holders(leases')
<1>1. /\ leases \in SUBSET Lease /\ leases' \in SUBSET Lease
      /\ ExclusiveIn(leases) /\ ExclusiveIn(leases')
  BY DEF TypeInv, TypeOK, HolderInv, ExclusiveIn
<1>2. H = [a \in TableAddrs |-> H[a]] /\ G = [a \in TableAddrs |-> G[a]]
  BY HoldersType
<1>3. holders(disk.leases)' = holders(disk.leases) /\ H' = G
  BY DEF holders
<1>4. ASSUME NEW x \in Addrs \cap Reserved,
             \A a \in TableAddrs : a # x => G[a] = H[a]
      PROVE  G = H
  <2>1. \A a \in TableAddrs : G[a] = H[a]
    BY <1>4 DEF TableAddrs
  <2> HIDE DEF G, H
  <2> QED
    BY <1>2, <2>1
<1>5. ASSUME NEW x \in TableAddrs, \A a \in TableAddrs : a # x => G[a] = H[a]
      PROVE  G = [H EXCEPT ![x] = G[x]]
  <2> HIDE DEF G, H
  <2> QED
    BY <1>2, <1>5
<1>6. CASE Ends
  <2>1. PICK l \in leases : leases' = leases \ {l}
    BY <1>6 DEF Ends
  <2>2. l.addr \in Addrs
    BY <1>1 DEF Lease
  <2>3. \A a \in TableAddrs : a # l.addr => G[a] = H[a]
    <3> SUFFICES ASSUME NEW a \in TableAddrs, a # l.addr PROVE G[a] = H[a]
      OBVIOUS
    <3>1. \A m \in leases \cup leases' : m.addr = a => m \in leases \cap leases'
      BY <2>1
    <3> QED
      BY <1>1, <3>1, HolderKept
  <2>4. CASE l.addr \in Reserved
    <3>1. G = H
      BY <1>4, <2>2, <2>3, <2>4
    <3> QED
      BY <1>3, <3>1 DEF Table!tvars
  <2>5. CASE l.addr \notin Reserved
    <3>1. l.addr \in TableAddrs
      BY <2>2, <2>5 DEF TableAddrs
    <3>2. \A m \in leases' : m.addr # l.addr
      BY <1>1, <2>1, <2>5 DEF ExclusiveIn
    <3>3. G[l.addr] = NoAddr
      BY <1>1, <3>1, <3>2, HolderOf
    <3>4. G = [H EXCEPT ![l.addr] = NoAddr]
      BY <1>5, <2>3, <3>1, <3>3
    <3>5. Table!Give(l.addr)
      BY <1>3, <3>4 DEF Table!Give
    <3> QED
      BY <3>1, <3>5 DEF Table!TableNext
  <2> QED
    BY <2>4, <2>5
<1>7. CASE Begins
  <2>1. PICK n \in Lease : /\ leases' = leases \cup {n} /\ n.clnt # Declined
                           /\ addrIsFree(n.addr) \/ n.addr \in Reserved
    BY <1>7 DEF Begins
  <2>2. n.addr \in Addrs /\ <<n.clnt, n.iaid>> \in AllClients \X IAIDs
    BY DEF Lease
  <2>3. \A a \in TableAddrs : a # n.addr => G[a] = H[a]
    <3> SUFFICES ASSUME NEW a \in TableAddrs, a # n.addr PROVE G[a] = H[a]
      OBVIOUS
    <3>1. \A m \in leases \cup leases' : m.addr = a => m \in leases \cap leases'
      BY <2>1
    <3> QED
      BY <1>1, <3>1, HolderKept
  <2>4. CASE n.addr \in Reserved
    <3>1. G = H
      BY <1>4, <2>2, <2>3, <2>4
    <3> QED
      BY <1>3, <3>1 DEF Table!tvars
  <2>5. CASE n.addr \notin Reserved
    <3>1. n.addr \in TableAddrs
      BY <2>2, <2>5 DEF TableAddrs
    <3>2. H[n.addr] = NoAddr
      BY <1>1, <2>1, <2>5, <3>1, HolderOf DEF addrIsFree
    <3>3. G[n.addr] = <<n.clnt, n.iaid>>
      <4>1. \A m \in leases' : m.addr = n.addr => G[n.addr] = <<m.clnt, m.iaid>>
        BY <1>1, <3>1, HolderOf
      <4>2. n \in leases'
        BY <2>1
      <4> QED
        BY <4>1, <4>2
    <3>4. G = [H EXCEPT ![n.addr] = <<n.clnt, n.iaid>>]
      BY <1>5, <2>3, <3>1, <3>3
    <3>5. <<n.clnt, n.iaid>> \in (AllClients \X IAIDs) \ {<<Declined, 0>>}
      BY <2>1, <2>2
    <3>6. Table!Take(n.addr, <<n.clnt, n.iaid>>)
      BY <1>3, <3>2, <3>4 DEF Table!Take
    <3> QED
      BY <3>1, <3>5, <3>6 DEF Table!TableNext
  <2> QED
    BY <2>4, <2>5
<1>8. CASE Moves
  <2>1. PICK l \in leases, n \in Lease :
               /\ leases' = (leases \ {l}) \cup {n}
               /\ n.clnt = Declined /\ n.iaid = 0 /\ n.addr = l.addr
    BY <1>8 DEF Moves
  <2>2. l.addr \in Addrs
    BY <1>1 DEF Lease
  <2>3. \A a \in TableAddrs : a # l.addr => G[a] = H[a]
    <3> SUFFICES ASSUME NEW a \in TableAddrs, a # l.addr PROVE G[a] = H[a]
      OBVIOUS
    <3>1. \A m \in leases \cup leases' : m.addr = a => m \in leases \cap leases'
      BY <2>1
    <3> QED
      BY <1>1, <3>1, HolderKept
  <2>4. CASE l.addr \in Reserved
    <3>1. G = H
      BY <1>4, <2>2, <2>3, <2>4
    <3> QED
      BY <1>3, <3>1 DEF Table!tvars
  <2>5. CASE l.addr \notin Reserved
    <3>1. l.addr \in TableAddrs
      BY <2>2, <2>5 DEF TableAddrs
    <3>2. H[l.addr] # NoAddr
      BY <1>1, <3>1, HolderOf
    <3>3. n \in leases'
      BY <2>1
    <3>4. G[l.addr] = <<Declined, 0>>
      <4>1. \A m \in leases' : m.addr = l.addr => G[l.addr] = <<m.clnt, m.iaid>>
        BY <1>1, <3>1, HolderOf
      <4> QED
        BY <2>1, <3>3, <4>1
    <3>5. G = [H EXCEPT ![l.addr] = <<Declined, 0>>]
      BY <1>5, <2>3, <3>1, <3>4
    <3>6. Table!Confine(l.addr)
      BY <1>3, <3>2, <3>5 DEF Table!Confine
    <3> QED
      BY <3>1, <3>6 DEF Table!TableNext
  <2> QED
    BY <2>4, <2>5
<1> QED
  BY <1>6, <1>7, <1>8

\* A restart brings back holders of the files or of the moment; a lease the
\* cut-off file does not hold is lost.
LEMMA TableRestart ==
  ASSUME TypeInv, TypeInv', HolderInv, HolderInv', Restarts, disk'.leases = leases'
  PROVE  Table!TableNext
<1> DEFINE H == holders(leases)
           S == holders(disk.leases)
           G == holders(leases')
           kept == {a \in TableAddrs : \E l \in leases' : l.addr = a}
<1>1. /\ leases \in SUBSET Lease /\ leases' \in SUBSET Lease
      /\ disk.leases \in SUBSET Lease
      /\ ExclusiveIn(leases) /\ ExclusiveIn(leases') /\ ExclusiveIn(disk.leases)
  BY DEF TypeInv, TypeOK, HolderInv, ExclusiveIn
<1>2. H' = G /\ S' = G
  BY DEF holders
<1>3. G = [a \in TableAddrs |-> G[a]]
  BY HoldersType
<1>4. \A a \in TableAddrs : a \notin kept => G[a] = NoAddr
  BY <1>1, HolderOf
<1>5. ASSUME leases' \subseteq leases, NEW a \in kept
      PROVE  G[a] = H[a]
  <2>1. PICK l \in leases' : l.addr = a
    OBVIOUS
  <2>2. a \in TableAddrs /\ l \in leases
    BY <1>5, <2>1
  <2>3. \A m \in leases' : m.addr = a => G[a] = <<m.clnt, m.iaid>>
    BY <1>1, <2>2, HolderOf
  <2>4. \A m \in leases : m.addr = a => H[a] = <<m.clnt, m.iaid>>
    BY <1>1, <2>2, HolderOf
  <2> QED
    BY <2>1, <2>2, <2>3, <2>4
<1>6. leases' = disk.leases => G = S
  OBVIOUS
<1>7. PICK image \in {H, S} : \A a \in kept : G[a] = image[a]
  BY <1>5, <1>6 DEF Restarts
<1>8. G = [a \in TableAddrs |-> IF a \in kept THEN image[a] ELSE NoAddr]
  <2> HIDE DEF G, kept
  <2> QED
    BY <1>3, <1>4, <1>7
<1>9. Table!Lose(kept)
  <2>1. image \in {holders(leases), holders(disk.leases)}
    OBVIOUS
  <2>2. holders(leases)' = [a \in TableAddrs |-> IF a \in kept THEN image[a] ELSE NoAddr]
    BY <1>2, <1>8
  <2>3. holders(disk.leases)' = holders(leases)'
    BY <1>2
  <2> HIDE DEF kept
  <2> QED
    BY <2>1, <2>2, <2>3 DEF Table!Lose
<1> QED
  BY <1>9 DEF Table!TableNext

\* The server implements the table: whatever it does, an address passes from
\* holder to holder through being free or quarantined, and a restart brings
\* back the holders of the files or of the moment, or some of the latter.
THEOREM TableImplemented == Spec => TableSpec
<1>1. Init => Table!TableInit
  <2> SUFFICES ASSUME Init PROVE Table!TableInit
    OBVIOUS
  <2>1. leases = {} /\ disk.leases = {}
    BY DEF Init
  <2>2. holders({}) = [a \in TableAddrs |-> NoAddr]
    BY DEF holders
  <2> QED
    BY <2>1, <2>2 DEF Table!TableInit
<1>2. /\ TypeInv /\ WorkInv /\ HolderInv
      /\ TypeInv' /\ WorkInv' /\ HolderInv'
      /\ [Next]_vars
      => [Table!TableNext]_(Table!tvars)
  <2> SUFFICES ASSUME TypeInv, WorkInv, HolderInv,
                      TypeInv', WorkInv', HolderInv', [Next]_vars
               PROVE  [Table!TableNext]_(Table!tvars)
    OBVIOUS
  <2>1. CASE disk'.leases = leases' /\ Restarts
    BY <2>1, TableRestart
  <2>2. CASE disk'.leases = leases' /\ leases' = leases
    <3>1. /\ holders(disk.leases)' = holders(leases)
          /\ holders(leases)' = holders(leases)
      BY <2>2 DEF holders
    <3> QED
      BY <3>1 DEF Table!TableNext, Table!Save
  <2>3. CASE disk'.leases = disk.leases /\ leases' = leases
    <3>1. /\ holders(disk.leases)' = holders(disk.leases)
          /\ holders(leases)' = holders(leases)
      BY <2>3 DEF holders
    <3> QED
      BY <3>1 DEF Table!tvars
  <2>4. CASE disk'.leases = disk.leases /\ (Ends \/ Begins \/ Moves)
    BY <2>4, TableLeaseStep
  <2> QED
    BY <2>1, <2>2, <2>3, <2>4, LeasesStep, DiskStep DEF Restarts
<1> QED
  BY HolderInvariance, <1>1, <1>2, PTL DEF Spec, TableSpec, Table!TableSpec

-----------------------------------------------------------------------------
(* The usage counters                                                       *)

\* The leases counted for a class
Counted(L, k) == {l \in L : getClassByAddr(l.iface, l.addr) = k}

LEMMA CountedType ==
  ASSUME NEW L, IsFiniteSet(L), NEW k
  PROVE  IsFiniteSet(Counted(L, k)) /\ Cardinality(Counted(L, k)) \in Nat
<1>1. Counted(L, k) \in SUBSET L
  BY DEF Counted
<1> QED
  BY <1>1, FS_Subset, FS_CardinalityType

LEMMA CountedLess ==
  ASSUME NEW L, IsFiniteSet(L), NEW K \in SUBSET L, NEW k
  PROVE  Cardinality(Counted(K, k)) <= Cardinality(Counted(L, k))
<1>1. Counted(K, k) \in SUBSET Counted(L, k)
  BY DEF Counted
<1>2. IsFiniteSet(Counted(L, k))
  BY CountedType
<1> QED
  BY <1>1, <1>2, FS_Subset

LEMMA CountedAdd ==
  ASSUME NEW L, IsFiniteSet(L), NEW n, n \notin L, NEW k
  PROVE  Cardinality(Counted(L \cup {n}, k)) =
           IF getClassByAddr(n.iface, n.addr) = k
           THEN Cardinality(Counted(L, k)) + 1
           ELSE Cardinality(Counted(L, k))
<1>1. IsFiniteSet(Counted(L, k)) /\ n \notin Counted(L, k)
  BY CountedType DEF Counted
<1>2. Counted(L \cup {n}, k) = IF getClassByAddr(n.iface, n.addr) = k
                               THEN Counted(L, k) \cup {n}
                               ELSE Counted(L, k)
  BY DEF Counted
<1> QED
  BY <1>1, <1>2, FS_AddElement

LEMMA CountedRemove ==
  ASSUME NEW L, IsFiniteSet(L), NEW n \in L, NEW k
  PROVE  Cardinality(Counted(L \ {n}, k)) =
           IF getClassByAddr(n.iface, n.addr) = k
           THEN Cardinality(Counted(L, k)) - 1
           ELSE Cardinality(Counted(L, k))
<1>1. IsFiniteSet(Counted(L, k))
  BY CountedType
<1>2. n \in Counted(L, k) <=> getClassByAddr(n.iface, n.addr) = k
  BY DEF Counted
<1>3. Counted(L \ {n}, k) = Counted(L, k) \ {n}
  BY DEF Counted
<1> QED
  BY <1>1, <1>2, <1>3, FS_RemoveElement

\* A lease of a class is counted once at least.
LEMMA CountedPositive ==
  ASSUME NEW L, IsFiniteSet(L), NEW n \in L
  PROVE  Cardinality(Counted(L, getClassByAddr(n.iface, n.addr))) >= 1
<1> DEFINE k == getClassByAddr(n.iface, n.addr)
<1>1. IsFiniteSet(Counted(L, k)) /\ Cardinality(Counted(L, k)) \in Nat
  BY CountedType
<1>2. Counted(L, k) # {}
  BY DEF Counted
<1>3. Cardinality(Counted(L, k)) # 0
  BY <1>1, <1>2, FS_EmptySet
<1> QED
  BY <1>1, <1>3

\* An address is offered by the pools of one interface only, and reserved, if
\* it is in a pool, on that interface.
AddressesLocal ==
  /\ \A k, m \in Classes : Pool[k] \cap Pool[m] # {} => ClassIface[k] = ClassIface[m]
  /\ \A i \in Ifaces, c \in Clients, k \in Classes :
       Exception[<<i, c>>] \in Pool[k] => ClassIface[k] = i

\* The leases clients hold are on the interface their address is offered on.
\* Those of the dummy client need not be: DECLINE moves an address into the IA
\* the dummy has, whichever interface that IA was created on.
LocalIn(L) ==
  \A l \in L, k \in Classes :
    l.clnt # Declined /\ l.addr \in Pool[k] => ClassIface[k] = l.iface

LocalInv == LocalIn(leases) /\ LocalIn(disk.leases)

LEMMA LocalStep ==
  ASSUME AddressesLocal, TypeInv, WorkInv, LocalInv, [Next]_vars
  PROVE  LocalInv'
<1>1. LocalIn(leases')
  <2>1. CASE leases' = leases \/ Ends \/ Moves \/ Restarts
    BY <2>1 DEF Ends, Moves, Restarts, LocalInv, LocalIn
  <2>2. CASE Begins
    <3>1. PICK n \in Lease :
                 /\ leases' = leases \cup {n}
                 /\ msg \in Message /\ n.clnt = msg.clnt /\ n.iface = msg.iface
                 /\ Grantable(n.addr)
      BY <2>2 DEF Begins
    <3>2. msg.iface \in Ifaces /\ msg.clnt \in Clients
      BY <3>1 DEF Message
    <3>3. ASSUME NEW k \in Classes, n.addr \in Pool[k]
          PROVE  ClassIface[k] = n.iface
      <4>1. CASE n.addr = ReservedAddr
        BY <3>1, <3>2, <3>3, <4>1 DEF AddressesLocal, ReservedAddr
      <4>2. CASE getClassByAddr(msg.iface, n.addr) # NoClass
        BY <3>1, <3>3, <4>2, ClassByAddr DEF AddressesLocal
      <4>3. CASE \E m \in Classes : ClassIface[m] = msg.iface /\ n.addr \in Pool[m]
        BY <3>1, <3>3, <4>3 DEF AddressesLocal
      <4> QED
        BY <3>1, <4>1, <4>2, <4>3 DEF Grantable
    <3> QED
      BY <3>1, <3>3 DEF LocalInv, LocalIn
  <2> QED
    BY <2>1, <2>2, LeasesStep
<1>2. LocalIn(disk'.leases)
  BY <1>1, DiskStep DEF LocalInv
<1> QED
  BY <1>1, <1>2 DEF LocalInv, LocalIn

\* A client's lease given back on some interface is taken off the counter it
\* is counted in, or off none.
LEMMA ReleasedClass ==
  ASSUME LocalInv, NEW l \in leases, l.clnt # Declined, NEW i,
         getClassByAddr(i, l.addr) # NoClass
  PROVE  getClassByAddr(i, l.addr) = getClassByAddr(l.iface, l.addr)
<1>1. /\ getClassByAddr(i, l.addr) \in Classes
      /\ ClassIface[getClassByAddr(i, l.addr)] = i
      /\ l.addr \in Pool[getClassByAddr(i, l.addr)]
  BY ClassByAddr
<1>2. i = l.iface
  BY <1>1 DEF LocalInv, LocalIn
<1> QED
  BY <1>2

\* The interface the addresses of a work list are counted on: the duties use
\* that of the lease, an ADVERTISE that of its message.
LEMMA WorkListClass ==
  ASSUME TypeInv, WorkInv, LocalInv, NEW l \in BagToSet(todo), l \in leases, NEW i,
         i = IF msg = NoMsg THEN l.iface ELSE msg.iface,
         getClassByAddr(i, l.addr) # NoClass
  PROVE  getClassByAddr(i, l.addr) = getClassByAddr(l.iface, l.addr)
<1>1. CASE msg = NoMsg
  BY <1>1
<1>2. CASE msg # NoMsg
  <2>1. l.clnt = msg.clnt
    BY <1>2 DEF WorkInv
  <2>2. l.clnt # Declined
    BY <1>2, <2>1, ClientsAssumption DEF TypeInv, TypeOK, Message
  <2> QED
    BY <2>1, <2>2, ReleasedClass
<1> QED
  BY <1>1, <1>2

\* A counter raised below its width goes up by one.
LEMMA RaisedCounters ==
  ASSUME TypeInv, NEW i, NEW a,
         \A k \in Classes : k = getClassByAddr(i, a) => assigned[k] + 1 < ULong
  PROVE  \A k \in Classes :
           incrAssigned(i, a)[k] = IF k = getClassByAddr(i, a)
                                   THEN assigned[k] + 1 ELSE assigned[k]
<1>1. \A k \in Classes : assigned[k] \in Nat
  BY ConfigAssumption DEF TypeInv, TypeOK
<1>2. \A n \in 0 .. ULong - 1 : n % ULong = n
  BY ModSmall, ConfigAssumption
<1>3. ASSUME NEW k \in Classes, k = getClassByAddr(i, a)
      PROVE  (assigned[k] + 1) % ULong = assigned[k] + 1
  <2>1. assigned[k] + 1 \in 0 .. ULong - 1
    BY <1>1, <1>3, ConfigAssumption
  <2> QED
    BY <1>2, <2>1
<1>4. ASSUME NEW k \in Classes
      PROVE  incrAssigned(i, a)[k] = IF k = getClassByAddr(i, a)
                                     THEN assigned[k] + 1 ELSE assigned[k]
  <2>1. incrAssigned(i, a)[k] = IF k = getClassByAddr(i, a)
                                THEN (assigned[k] + 1) % ULong ELSE assigned[k]
    BY DEF incrAssigned
  <2> QED
    BY <1>3, <2>1
<1> QED
  BY <1>4

\* The counter of a lease that is counted does not wrap when it is lowered.
LEMMA LoweredCounters ==
  ASSUME TypeInv, NEW l \in leases, NEW i,
         \A k \in Classes : Cardinality(Counted(leases, k)) <= assigned[k],
         getClassByAddr(i, l.addr) # NoClass =>
           getClassByAddr(i, l.addr) = getClassByAddr(l.iface, l.addr)
  PROVE  \A k \in Classes :
           /\ decrAssigned(i, l.addr)[k] = IF k = getClassByAddr(i, l.addr)
                                           THEN assigned[k] - 1 ELSE assigned[k]
           /\ k = getClassByAddr(i, l.addr) => assigned[k] >= 1
<1>1. \A k \in Classes : assigned[k] \in 0 .. ULong - 1 /\ assigned[k] \in Nat
  BY ConfigAssumption DEF TypeInv, TypeOK
<1>2. \A n \in 0 .. ULong - 1 : n % ULong = n
  BY ModSmall, ConfigAssumption
<1>3. ASSUME NEW k \in Classes, k = getClassByAddr(i, l.addr)
      PROVE  assigned[k] >= 1
  <2>1. k # NoClass
    BY ConfigAssumption
  <2>2. k = getClassByAddr(l.iface, l.addr)
    BY <1>3, <2>1
  <2>3. Cardinality(Counted(leases, k)) >= 1 /\ Cardinality(Counted(leases, k)) \in Nat
    BY <2>2, CountedPositive, CountedType DEF TypeInv
  <2> QED
    BY <1>1, <2>3
<1>4. ASSUME NEW k \in Classes, k = getClassByAddr(i, l.addr)
      PROVE  (assigned[k] - 1) % ULong = assigned[k] - 1
  <2>1. assigned[k] - 1 \in 0 .. ULong - 1
    BY <1>1, <1>3, <1>4, ConfigAssumption
  <2> QED
    BY <1>2, <2>1
<1> QED
  BY <1>3, <1>4 DEF decrAssigned

\* The options of a message that may raise counters
AssigningTypes == {"solicit", "rapid", "request"}

\* How many of its options may still come, with one address each
Ahead == MaxOptions - options

\* The counters of a message that raises them stay below this many.
Width == MaxAssigned + MaxOptions

\* An unsigned long can count the leases a server starts with.
LeasesFit == \A L \in SUBSET Lease : IsFiniteSet(L) => Cardinality(L) < ULong - 1

\* The counters cover the leases and have room for the rest of the message.
Covered ==
  \A k \in Classes :
    /\ Cardinality(Counted(leases, k)) <= assigned[k]
    /\ assigned[k] < ULong - 1
    /\ Processing(AssigningTypes) => assigned[k] + Ahead < Width

CoverInv == ~repeated => Covered

LEMMA OptionsLeft ==
  ASSUME NEW o \in 0 .. MaxOptions
  PROVE  MaxOptions - o \in Nat /\ MaxOptions - o <= MaxOptions
<1>1. MaxOptions \in Nat
  BY ClientsAssumption
<1> QED
  BY <1>1

LEMMA AheadType ==
  ASSUME TypeInv
  PROVE  Ahead \in Nat /\ Width \in Nat /\ Ahead <= MaxOptions /\ MaxOptions \in Nat
BY ClientsAssumption DEF TypeInv, TypeOK, Ahead, Width

\* Only a restart takes back that a SOLICIT asked twice for one IA.
LEMMA RepeatedStays ==
  ASSUME TypeInv, [Next]_vars, repeated, ~repeated'
  PROVE  Crash \/ Restart
<1>1. ASSUME NEW iaid \in IAIDs, AssignIA(iaid)
      PROVE  repeated'
  <2>1. CASE \E a \in Addrs : assignAddr(iaid, a)
    BY <2>1 DEF assignAddr
  <2>2. CASE ~ \E a \in Addrs : assignAddr(iaid, a)
    BY <1>1, <2>2, AssignOutcome
  <2> QED
    BY <2>1, <2>2
<1>2. ASSUME NEW iaid \in IAIDs, RenewIA(iaid) \/ RebindIA(iaid) \/ RebindDiscarded(iaid)
      PROVE  repeated'
  BY <1>2 DEF RenewIA, RebindIA, RebindDiscarded
<1>3. ASSUME NEW iaid \in IAIDs, NEW l \in leases,
             DeclineAddr(iaid, l) \/ ReleaseAddr(iaid, l)
      PROVE  repeated'
  BY <1>3 DEF DeclineAddr, ReleaseAddr
<1>4. ASSUME NEW l \in BagToSet(todo), ReleaseOne(l)
      PROVE  repeated'
  BY <1>4 DEF ReleaseOne
<1>5. ASSUME Answer \/ Timeout \/ Duties \/ ReleaseDone \/ DumpDb \/ DumpCache
      PROVE  repeated'
  BY <1>5 DEF Answer, Timeout, Duties, ReleaseDone, DumpDb, DumpCache
<1>6. ASSUME Environment \/ UNCHANGED vars
      PROVE  repeated'
  BY <1>6 DEF Environment, Expire, Receive, vars
<1> QED
  BY <1>1, <1>2, <1>3, <1>4, <1>5, <1>6 DEF Next, Work, Handle

LEMMA CountNumbers ==
  ASSUME TypeInv, NEW k \in Classes
  PROVE  /\ assigned[k] \in Nat /\ ULong \in Nat
         /\ Cardinality(Counted(leases, k)) \in Nat
         /\ Cardinality(Counted(disk.leases, k)) \in Nat
<1>1. assigned[k] \in 0 .. ULong - 1 /\ ULong \in Nat
  BY ConfigAssumption DEF TypeInv, TypeOK
<1>2. IsFiniteSet(leases) /\ IsFiniteSet(disk.leases)
  BY DEF TypeInv
<1> QED
  BY <1>1, <1>2, CountedType

\* The assignment policy: a lease that begins is counted, on the counter of
\* the message's interface.
LEMMA CoverAssign ==
  ASSUME Width < ULong, TypeInv, TypeInv', Covered, NEW iaid \in IAIDs, AssignIA(iaid)
  PROVE  Covered'
<1>1. Assigning
  BY AssignOutcome
<1>2. Processing(AssigningTypes) /\ options < MaxOptions /\ Ahead >= 1
  BY <1>1, ClientsAssumption
  DEF Assigning, NextOption, AssigningTypes, Ahead, TypeInv, TypeOK
<1>3. CASE \E a \in Addrs : assignAddr(iaid, a) /\ Binding(iaid) = {}
  <2>1. PICK a \in Addrs : assignAddr(iaid, a) /\ Binding(iaid) = {}
    BY <1>3
  <2> DEFINE n == GrantedLease(iaid, a)
  <2>2. leases' = leases \cup {n} /\ n \notin leases
    BY <1>1, <2>1, AssignGrants
  <2>3. n.iface = msg.iface /\ n.addr = a
    BY DEF GrantedLease
  <2> HIDE DEF n
  <2>4. assigned' = incrAssigned(msg.iface, a) /\ options' = options + 1
    BY <2>1 DEF assignAddr
  <2>5. Ahead' = Ahead - 1
    BY <2>4, ClientsAssumption DEF Ahead, TypeInv, TypeOK
  <2>6. \A k \in Classes : /\ assigned[k] + 1 < ULong
                           /\ assigned[k] + 1 + Ahead' < Width + 1 - 1
    BY <1>2, <2>5, CountNumbers, AheadType, ConfigAssumption DEF Covered
  <2>7. ASSUME NEW k \in Classes
        PROVE  /\ assigned'[k] = IF k = getClassByAddr(msg.iface, a)
                                 THEN assigned[k] + 1 ELSE assigned[k]
               /\ Cardinality(Counted(leases', k)) =
                    IF k = getClassByAddr(msg.iface, a)
                    THEN Cardinality(Counted(leases, k)) + 1
                    ELSE Cardinality(Counted(leases, k))
    <3>1. \A m \in Classes : assigned[m] + 1 < ULong
      BY <2>6
    <3>2. IsFiniteSet(leases)
      BY DEF TypeInv
    <3>3. Cardinality(Counted(leases', k)) =
            IF getClassByAddr(n.iface, n.addr) = k
            THEN Cardinality(Counted(leases, k)) + 1
            ELSE Cardinality(Counted(leases, k))
      BY <2>2, <3>2, CountedAdd
    <3> QED
      BY <2>3, <2>4, <3>1, <3>3, RaisedCounters
  <2>8. \A k \in Classes : /\ Cardinality(Counted(leases', k)) <= assigned'[k]
                           /\ assigned'[k] + Ahead' < Width
    BY <2>5, <2>6, <2>7, CountNumbers, AheadType DEF Covered
  <2>9. \A k \in Classes : assigned'[k] < ULong - 1
    <3>1. Ahead' \in Nat /\ Width \in Nat
      BY AheadType, <2>5, <1>2
    <3>2. \A k \in Classes : assigned'[k] \in Nat /\ ULong \in Nat
      BY ConfigAssumption DEF TypeInv, TypeOK
    <3> QED
      BY <2>8, <3>1, <3>2
  <2> QED
    BY <2>8, <2>9 DEF Covered, Width, Counted
<1>4. CASE ~ \E a \in Addrs : assignAddr(iaid, a) /\ Binding(iaid) = {}
  <2>1. /\ leases' = leases /\ assigned' = assigned
        /\ options' \in {options, options + 1}
    BY <1>4, AssignOutcome
  <2>2. Ahead' \in {Ahead, Ahead - 1}
    <3>1. CASE options' = options
      BY <3>1 DEF Ahead
    <3>2. CASE options' = options + 1
      <4>1. Ahead' = Ahead - 1
        BY <3>2, ClientsAssumption DEF Ahead, TypeInv, TypeOK
      <4> QED
        BY <4>1
    <3> QED
      BY <2>1, <3>1, <3>2
  <2>3. \A k \in Classes : assigned'[k] + Ahead' < Width
    BY <1>2, <2>1, <2>2, CountNumbers, AheadType DEF Covered
  <2> QED
    BY <2>1, <2>3 DEF Covered, Width, Counted
<1> QED
  BY <1>3, <1>4

\* A lease that ends is taken off the counter it is counted in, or off none.
LEMMA CoverRelease ==
  ASSUME TypeInv, TypeInv', Covered, NEW l \in leases, NEW i, leases' = leases \ {l},
         assigned' = decrAssigned(i, l.addr),
         getClassByAddr(i, l.addr) # NoClass =>
           getClassByAddr(i, l.addr) = getClassByAddr(l.iface, l.addr),
         ~Processing(AssigningTypes)'
  PROVE  Covered'
<1> SUFFICES ASSUME NEW k \in Classes
             PROVE  /\ Cardinality(Counted(leases', k)) <= assigned'[k]
                    /\ assigned'[k] < ULong - 1
  BY DEF Covered, Counted
<1>1. \A m \in Classes : Cardinality(Counted(leases, m)) <= assigned[m]
  BY DEF Covered
<1>2. assigned'[k] = IF k = getClassByAddr(i, l.addr) THEN assigned[k] - 1 ELSE assigned[k]
  BY <1>1, LoweredCounters
<1>3. k # NoClass
  BY ConfigAssumption
<1>4. Cardinality(Counted(leases', k)) =
        IF getClassByAddr(l.iface, l.addr) = k
        THEN Cardinality(Counted(leases, k)) - 1
        ELSE Cardinality(Counted(leases, k))
  BY CountedRemove DEF TypeInv
<1>5. assigned[k] < ULong - 1
  BY DEF Covered
<1> QED
  BY <1>1, <1>2, <1>3, <1>4, <1>5, CountNumbers

\* A declined address stays counted, and its lease in the dummy's IA is
\* counted in no other class.
LEMMA CoverDecline ==
  ASSUME TypeInv, LocalInv, NEW iaid \in IAIDs, NEW l \in leases, DeclineAddr(iaid, l)
  PROVE  \A k \in Classes :
           Cardinality(Counted(leases', k)) <= Cardinality(Counted(leases, k))
<1> SUFFICES ASSUME NEW k \in Classes
             PROVE  Cardinality(Counted(leases', k)) <= Cardinality(Counted(leases, k))
  OBVIOUS
<1> DEFINE L == leases \ {l}
<1>1. k # NoClass
  BY ConfigAssumption
<1>2. IsFiniteSet(leases) /\ IsFiniteSet(L)
  BY FS_Subset DEF TypeInv
<1>3. l.clnt # Declined
  <2>1. msg \in Message /\ l.clnt = msg.clnt
    BY DeclineAddrEffect
  <2> QED
    BY <2>1, ClientsAssumption DEF Message
<1>4. Cardinality(Counted(L, k)) =
        IF getClassByAddr(l.iface, l.addr) = k
        THEN Cardinality(Counted(leases, k)) - 1
        ELSE Cardinality(Counted(leases, k))
  BY <1>2, CountedRemove
<1>5. Cardinality(Counted(L, k)) \in Nat /\ Cardinality(Counted(leases, k)) \in Nat
  BY <1>2, CountedType
<1>6. CASE leases' = L
  BY <1>4, <1>5, <1>6
<1>7. ASSUME NEW n \in Lease, n.addr = l.addr, leases' = L \cup {n}
      PROVE  Cardinality(Counted(leases', k)) <= Cardinality(Counted(leases, k))
  <2>1. CASE n \in L
    <3>1. leases' = L
      BY <1>7, <2>1
    <3> QED
      BY <1>6, <3>1
  <2>2. CASE n \notin L /\ getClassByAddr(n.iface, n.addr) # k
    <3>1. Cardinality(Counted(leases', k)) = Cardinality(Counted(L, k))
      BY <1>2, <1>7, <2>2, CountedAdd
    <3> QED
      BY <1>4, <1>5, <3>1
  <2>3. CASE n \notin L /\ getClassByAddr(n.iface, n.addr) = k
    <3>1. Cardinality(Counted(leases', k)) = Cardinality(Counted(L, k)) + 1
      BY <1>2, <1>7, <2>3, CountedAdd
    <3>2. getClassByAddr(n.iface, l.addr) = getClassByAddr(l.iface, l.addr)
      BY <1>1, <1>3, <1>7, <2>3, ReleasedClass
    <3> QED
      BY <1>4, <1>5, <1>7, <2>3, <3>1, <3>2
  <2> QED
    BY <2>1, <2>2, <2>3
<1> QED
  BY <1>6, <1>7, DeclineAddrEffect

\* A server that starts again counts the leases it has.
LEMMA RestartCounts ==
  ASSUME TypeInv, TypeInv', NEW w \in Nat, w <= ULong,
         Crash \/ Restart,
         \A k \in Classes : /\ Cardinality(Counted(leases, k)) < w
                            /\ Cardinality(Counted(disk.leases, k)) < w
  PROVE  /\ \A k \in Classes : /\ assigned'[k] = Cardinality(Counted(leases', k))
                               /\ Cardinality(Counted(leases', k)) < w
         /\ disk'.leases = leases' /\ phase' = "dumpDb"
<1>1. assigned' = setCounters(leases') /\ phase' = "dumpDb"
  BY DEF Crash, Restart, Boot
<1>2. disk'.leases = leases' /\ (leases' \subseteq leases \/ leases' = disk.leases)
  BY CrashImagesType DEF Crash, Restart, Boot
<1>3. ASSUME NEW k \in Classes
      PROVE  /\ assigned'[k] = Cardinality(Counted(leases', k))
             /\ Cardinality(Counted(leases', k)) < w
  <2> DEFINE c == Cardinality(Counted(leases', k))
  <2>1. IsFiniteSet(leases') /\ IsFiniteSet(leases)
    BY DEF TypeInv
  <2>2. c \in Nat
    BY <2>1, CountedType
  <2>3. c < w
    <3>1. CASE leases' \subseteq leases
      <4>1. c <= Cardinality(Counted(leases, k))
        BY <2>1, <3>1, CountedLess
      <4> QED
        BY <2>2, <4>1, CountNumbers
    <3>2. CASE leases' = disk.leases
      BY <3>2
    <3> QED
      BY <1>2, <3>1, <3>2
  <2>4. assigned'[k] = c % ULong
    BY <1>1 DEF setCounters, Counted
  <2> HIDE DEF c
  <2>5. c % ULong = c
    <3>1. \A m \in 0 .. ULong - 1 : m % ULong = m
      BY ModSmall, ConfigAssumption
    <3>2. c \in 0 .. ULong - 1
      BY <2>2, <2>3, ConfigAssumption
    <3> QED
      BY <3>1, <3>2
  <2> QED
    BY <2>3, <2>4, <2>5 DEF c
<1> QED
  BY <1>1, <1>2, <1>3

\* A step that touches neither the leases nor the counters
LEMMA CoverKept ==
  ASSUME Covered, leases' = leases, assigned' = assigned, ~Processing(AssigningTypes)'
  PROVE  Covered'
BY DEF Covered, Counted

LEMMA CoverStep ==
  ASSUME Width < ULong, LeasesFit, TypeInv, TypeInv', WorkInv, LocalInv, Covered,
         ~repeated, Next
  PROVE  Covered' \/ Crash \/ Restart
<1>1. ASSUME NEW iaid \in IAIDs, AssignIA(iaid)
      PROVE  Covered'
  BY <1>1, CoverAssign
<1>2. ASSUME NEW iaid \in IAIDs, RenewIA(iaid) \/ RebindIA(iaid)
      PROVE  Covered'
  <2>1. /\ leases' = leases /\ assigned' = assigned
        /\ msg' = msg /\ msg.type \notin AssigningTypes
    BY <1>2 DEF RenewIA, RebindIA, NextOption, Processing, AssigningTypes
  <2> QED
    BY <2>1, CoverKept DEF Processing
<1>3. ASSUME NEW iaid \in IAIDs, RebindDiscarded(iaid)
      PROVE  Covered'
  BY <1>3, CoverKept DEF RebindDiscarded, dbVars, Processing
<1>4. ASSUME NEW iaid \in IAIDs, NEW l \in leases, DeclineAddr(iaid, l)
      PROVE  Covered'
  <2>1. assigned' = assigned /\ ~Processing(AssigningTypes)'
    BY <1>4 DEF DeclineAddr, jobVars, Processing, AssigningTypes
  <2>2. \A k \in Classes :
          Cardinality(Counted(leases', k)) <= Cardinality(Counted(leases, k))
    BY <1>4, CoverDecline
  <2>3. \A k \in Classes : Cardinality(Counted(leases', k)) \in Nat
    BY CountedType DEF TypeInv
  <2>4. \A k \in Classes : Cardinality(Counted(leases', k)) <= assigned[k]
    BY <2>2, <2>3, CountNumbers DEF Covered
  <2> QED
    BY <2>1, <2>4 DEF Covered, Counted
<1>5. ASSUME NEW iaid \in IAIDs, NEW l \in leases, ReleaseAddr(iaid, l)
      PROVE  Covered'
  <2>1. /\ leases' = leases \ {l} /\ assigned' = decrAssigned(msg.iface, l.addr)
        /\ ~Processing(AssigningTypes)'
    BY <1>5 DEF ReleaseAddr, delClntAddr, jobVars, Processing, AssigningTypes
  <2>2. l.clnt # Declined
    <3>1. msg.clnt # Declined
      BY <1>5, ProcessingMsg DEF ReleaseAddr, MsgTypes
    <3> QED
      BY <1>5, <3>1 DEF ReleaseAddr, Binding, IA
  <2> QED
    BY <2>1, <2>2, ReleasedClass, CoverRelease
<1>6. CASE Answer \/ Timeout \/ Duties \/ ReleaseDone \/ DumpDb \/ DumpCache
  <2>1. leases' = leases /\ assigned' = assigned /\ phase' # "process"
    BY <1>6 DEF Answer, Timeout, Duties, ReleaseDone, DumpDb, DumpCache, dbVars
  <2> QED
    BY <2>1, CoverKept DEF Processing
<1>7. ASSUME NEW l \in BagToSet(todo), ReleaseOne(l)
      PROVE  Covered'
  <2> DEFINE i == IF msg = NoMsg THEN l.iface ELSE msg.iface
  <2>1. /\ leases' = leases \ {l} /\ assigned' = decrAssigned(i, l.addr)
        /\ phase' = "release"
    BY <1>7 DEF ReleaseOne, delClntAddr
  <2>2. l \in leases
    BY WorkHeld
  <2>3. getClassByAddr(i, l.addr) # NoClass =>
          getClassByAddr(i, l.addr) = getClassByAddr(l.iface, l.addr)
    BY <2>2, WorkListClass
  <2>4. ~Processing(AssigningTypes)'
    BY <2>1 DEF Processing
  <2> HIDE DEF i
  <2> QED
    BY <2>1, <2>2, <2>3, <2>4, CoverRelease
<1>8. ASSUME NEW l \in leases, Expire(l)
      PROVE  Covered'
  BY <1>8, CoverKept DEF Expire, jobVars, Processing
<1>9. ASSUME NEW t \in MsgTypes, NEW c \in Clients, NEW i \in Ifaces, Receive(t, c, i)
      PROVE  Covered'
  <2>1. leases' = leases /\ assigned' = assigned /\ msg'.type = t
    BY <1>9 DEF Receive, dbVars
  <2>2. CASE t \notin AssigningTypes
    BY <2>1, <2>2, CoverKept DEF Processing
  <2>3. CASE t \in AssigningTypes
    <3>1. ASSUME NEW k \in Classes
          PROVE  assigned[k] < MaxAssigned
      <4>1. assigned[k] \notin MaxAssigned .. ULong - 2
        BY <1>9, <2>3 DEF Receive, AssigningTypes
      <4>2. assigned[k] < ULong - 1 /\ assigned[k] \in Nat
        BY CountNumbers DEF Covered
      <4> QED
        BY <4>1, <4>2, ClientsAssumption, ConfigAssumption
    <3>2. Ahead' \in Nat /\ Ahead' <= MaxOptions
      <4>1. options' \in 0 .. MaxOptions
        BY DEF TypeInv, TypeOK
      <4>2. MaxOptions - options' \in Nat /\ MaxOptions - options' <= MaxOptions
        BY <4>1, OptionsLeft
      <4> QED
        BY <4>2 DEF Ahead
    <3>3. \A k \in Classes : assigned'[k] + Ahead' < Width
      BY <2>1, <3>1, <3>2, CountNumbers, ClientsAssumption DEF Width
    <3> QED
      BY <2>1, <3>3 DEF Covered, Counted, Width
  <2> QED
    BY <2>2, <2>3
<1> QED
  BY <1>1, <1>2, <1>3, <1>4, <1>5, <1>6, <1>7, <1>8, <1>9
  DEF Next, Work, Handle, Environment

\* After a restart the counters are those of the leases.
LEMMA CoverRestart ==
  ASSUME LeasesFit, TypeInv, TypeInv', Crash \/ Restart
  PROVE  Covered'
<1>1. ASSUME NEW k \in Classes, NEW L \in SUBSET Lease, IsFiniteSet(L)
      PROVE  Cardinality(Counted(L, k)) < ULong - 1
  <2>1. Counted(L, k) \in SUBSET L /\ IsFiniteSet(Counted(L, k))
    BY <1>1, CountedType DEF Counted
  <2> QED
    BY <2>1 DEF LeasesFit
<1>2. \A k \in Classes : /\ Cardinality(Counted(leases, k)) < ULong - 1
                         /\ Cardinality(Counted(disk.leases, k)) < ULong - 1
  BY <1>1 DEF TypeInv, TypeOK
<1>3. ULong - 1 \in Nat /\ ULong - 1 <= ULong
  BY ConfigAssumption
<1>4. /\ \A k \in Classes : /\ assigned'[k] = Cardinality(Counted(leases', k))
                            /\ Cardinality(Counted(leases', k)) < ULong - 1
      /\ phase' = "dumpDb"
  BY <1>2, <1>3, RestartCounts
<1>5. \A k \in Classes : assigned'[k] \in Nat
  BY ConfigAssumption DEF TypeInv, TypeOK
<1> QED
  BY <1>4, <1>5 DEF Covered, Counted, Processing

LEMMA LocalInvariance == AddressesLocal => (Spec => [](TypeInv /\ WorkInv /\ LocalInv))
<1>1. Init => LocalInv
  BY DEF Init, LocalInv, LocalIn
<1>2. AddressesLocal /\ TypeInv /\ WorkInv /\ LocalInv /\ [Next]_vars => LocalInv'
  BY LocalStep
<1>3. SUFFICES ASSUME AddressesLocal
               PROVE  Spec => [](TypeInv /\ WorkInv /\ LocalInv)
  OBVIOUS
<1>4. TypeInv /\ WorkInv /\ LocalInv /\ [Next]_vars => LocalInv'
  BY <1>2, <1>3
<1> QED
  BY WorkInvariance, <1>1, <1>4, PTL DEF Spec

LEMMA CoverInvariance ==
  ASSUME AddressesLocal, Width < ULong, LeasesFit
  PROVE  Spec => [](TypeInv /\ CoverInv)
<1>1. Init => CoverInv
  <2> SUFFICES ASSUME Init PROVE Covered
    BY DEF CoverInv
  <2>1. \A k : Cardinality(Counted({}, k)) = 0
    <3>1. \A k : Counted({}, k) = {}
      BY DEF Counted
    <3> QED
      BY <3>1, FS_EmptySet
  <2>2. 0 < ULong - 1
    <3>1. {} \in SUBSET Lease /\ IsFiniteSet({}) /\ Cardinality({}) = 0
      BY FS_EmptySet
    <3> QED
      BY <3>1 DEF LeasesFit
  <2>3. leases = {} /\ phase = "duties" /\ \A k \in Classes : assigned[k] = 0
    BY DEF Init
  <2> QED
    BY <2>1, <2>2, <2>3 DEF Covered, Processing
<1>2. /\ TypeInv /\ WorkInv /\ LocalInv /\ CoverInv
      /\ TypeInv'
      /\ [Next]_vars
      => CoverInv'
  <2> SUFFICES ASSUME TypeInv, WorkInv, LocalInv, CoverInv, TypeInv', [Next]_vars, ~repeated'
               PROVE  Covered'
    BY DEF CoverInv
  <2>1. CASE Crash \/ Restart
    BY <2>1, CoverRestart
  <2>2. CASE ~(Crash \/ Restart) /\ Next
    <3>1. ~repeated
      BY <2>2, RepeatedStays
    <3> QED
      BY <2>2, <3>1, CoverStep DEF CoverInv
  <2>3. CASE UNCHANGED vars
    BY <2>3 DEF vars, dbVars, jobVars, CoverInv, Covered, Counted, Ahead, Processing
  <2> QED
    BY <2>1, <2>2, <2>3
<1> QED
  BY LocalInvariance, <1>1, <1>2, PTL DEF Spec

\* No counter falls below the leases of its class, so that none wraps below
\* zero and no pool looks full for ever, from one start of the server to the
\* next, until a SOLICIT asks twice for one IA: for any number of clients, IAs
\* and classes, on any number of interfaces, through declines, expiry and
\* restarts, as long as an address is offered on one interface only.
THEOREM CountersCoverHolds ==
  ASSUME AddressesLocal, Width < ULong, LeasesFit
  PROVE  Spec => []CountersCover
<1>1. CoverInv => CountersCover
  BY DEF CoverInv, Covered, CountersCover, Counted
<1> QED
  BY CoverInvariance, <1>1, PTL

-----------------------------------------------------------------------------
(* One interface                                                            *)

OneInterface == \A i, j \in Ifaces : i = j

LEMMA OneIsLocal ==
  ASSUME OneInterface
  PROVE  AddressesLocal
BY ConfigAssumption DEF OneInterface, AddressesLocal

\* A pool without a free address is counted to its last address.
LEMMA PoolFull ==
  ASSUME OneInterface, PoolsDisjoint, TypeInv, NEW k \in Classes, FreeIn(k) = {}
  PROVE  Cardinality(Pool[k]) <= Cardinality(Counted(leases, k))
<1> DEFINE K == Counted(leases, k)
           f == [l \in K |-> l.addr]
<1>1. IsFiniteSet(K) /\ K \subseteq Lease
  BY CountedType DEF TypeInv, TypeOK, Counted
<1>2. ASSUME NEW a \in Pool[k]
      PROVE  \E l \in K : l.addr = a
  <2>1. PICK l \in leases : l.addr = a
    BY DEF FreeIn, addrIsFree
  <2>2. l.iface \in Ifaces /\ ClassIface[k] \in Ifaces
    BY ConfigAssumption DEF TypeInv, TypeOK, Lease
  <2>3. getClassByAddr(l.iface, l.addr) = k
    BY <2>1, <2>2, ClassFound DEF OneInterface
  <2> QED
    BY <2>1, <2>3 DEF Counted
<1>3. ASSUME NEW l \in K
      PROVE  l.addr \in Pool[k]
  <2>1. getClassByAddr(l.iface, l.addr) = k /\ k # NoClass
    BY ConfigAssumption DEF Counted
  <2> QED
    BY <2>1, ClassByAddr
<1> HIDE DEF K
<1>4. f \in Surjection(K, Pool[k])
  BY <1>2, <1>3 DEF Surjection
<1>5. Cardinality(Pool[k]) <= Cardinality(K)
  <2> HIDE DEF f
  <2> QED BY <1>1, <1>4, FS_Surjection
<1> QED
  BY <1>5 DEF K

\* The search near a used hint always ends on a server of one interface with
\* disjoint pools: a class that has room by its counter has a free address, as
\* long as no SOLICIT has asked twice for one IA since the server started.
\* With two interfaces it does not (DECLINE moves an address to the interface
\* of the dummy client, where no counter covers it after a restart).
THEOREM HintSearchEndsHolds ==
  ASSUME OneInterface, PoolsDisjoint, Width < ULong, LeasesFit
  PROVE  Spec => []HintSearchEnds
<1>1. Init => HintSearchEnds
  BY DEF Init, HintSearchEnds
<1>2. TypeInv /\ CoverInv /\ HintSearchEnds /\ [Next]_vars => HintSearchEnds'
  <2> SUFFICES ASSUME TypeInv, CoverInv, HintSearchEnds, [Next]_vars,
                      phase' = "spin", ~repeated'
               PROVE  FALSE
    BY DEF HintSearchEnds
  <2>0. ~repeated
    <3>1. ~(Crash \/ Restart)
      BY DEF Crash, Restart, Boot
    <3> QED
      BY <3>1, RepeatedStays
  <2>1. PICK iaid \in IAIDs, hint \in Addrs \cup {NoAddr} : AssignSpins(iaid, hint)
    BY <2>0 DEF HintSearchEnds, Next, Work, Handle, Environment, AssignIA, AssignBound,
           AssignFixed, AssignRefused, AssignCached, AssignHint, AssignRandom,
           AssignNothing, assignAddr, RenewIA, RebindIA, RebindDiscarded, DeclineAddr,
           ReleaseAddr, Answer, Timeout, Duties, ReleaseOne, ReleaseDone, DumpDb,
           DumpCache, Expire, Receive, Crash, Restart, Boot, vars, jobVars
  <2> DEFINE k == HintClass(hint)
  <2>2. k # NoClass /\ hasRoom(k) /\ FreeIn(k) = {}
    BY <2>1 DEF AssignSpins, HintSearches
  <2>3. k \in Classes
    BY <2>2, ClassByAddr DEF HintClass
  <2> HIDE DEF k
  <2>4. Cardinality(Pool[k]) <= Cardinality(Counted(leases, k))
    BY <2>2, <2>3, PoolFull
  <2>5. Cardinality(Counted(leases, k)) <= assigned[k]
    BY <2>0, <2>3 DEF CoverInv, Covered
  <2>6. Cardinality(Pool[k]) \in Nat /\ ClassMaxLease[k] \in Nat
    <3>1. Pool[k] \in SUBSET Addrs /\ IsFiniteSet(Addrs)
      BY <2>3, PoolAddrs, ClientsAssumption
    <3> QED
      BY <2>3, <3>1, FS_Subset, FS_CardinalityType, ConfigAssumption
  <2>7. assigned[k] < Cardinality(Pool[k])
    BY <2>2, <2>3, <2>6, CountNumbers DEF hasRoom, getClassMaxLease
  <2> QED
    BY <2>3, <2>4, <2>5, <2>6, <2>7, CountNumbers
<1>3. AddressesLocal
  BY OneIsLocal
<1> QED
  BY CoverInvariance, <1>1, <1>2, <1>3, PTL DEF Spec

\* Reserved addresses lie outside the pools, and a pool is no larger than its
\* counter can count.
PoolsUnreserved ==
  \A k \in Classes : Pool[k] \cap Reserved = {} /\ Cardinality(Pool[k]) < ULong

\* No class has more leases than addresses.
LEMMA CountedInPool ==
  ASSUME PoolsUnreserved, NEW L \in SUBSET Lease, ExclusiveIn(L), NEW k \in Classes
  PROVE  Cardinality(Counted(L, k)) <= Cardinality(Pool[k])
<1> DEFINE K == Counted(L, k)
           f == [l \in K |-> l.addr]
<1>1. ASSUME NEW l \in K
      PROVE  l.addr \in Pool[k]
  <2>1. getClassByAddr(l.iface, l.addr) = k /\ k # NoClass
    BY ConfigAssumption DEF Counted
  <2> QED
    BY <2>1, ClassByAddr
<1>2. \A l, m \in K : l.addr = m.addr => l = m
  BY <1>1 DEF Counted, ExclusiveIn, PoolsUnreserved
<1>3. IsFiniteSet(Pool[k])
  BY PoolAddrs, ClientsAssumption, FS_Subset
<1> HIDE DEF K
<1>4. f \in Injection(K, Pool[k])
  BY <1>1, <1>2 DEF Injection, IsInjective
<1>5. Cardinality(K) <= Cardinality(Pool[k])
  <2> HIDE DEF f
  <2> QED BY <1>3, <1>4, FS_Injection
<1> QED
  BY <1>5 DEF K

Exact == \A k \in Classes : assigned[k] = Cardinality(Counted(leases, k))

ExactInv == ~repeated => Exact

\* Each class counts fewer leases than its counter is wide, in the database
\* and in the files.
LEMMA ExactWidth ==
  ASSUME PoolsUnreserved, TypeInv, HolderInv, NEW k \in Classes
  PROVE  /\ Cardinality(Counted(leases, k)) < ULong
         /\ Cardinality(Counted(disk.leases, k)) < ULong
<1>1. leases \in SUBSET Lease /\ disk.leases \in SUBSET Lease
  BY DEF TypeInv, TypeOK
<1>2. /\ Cardinality(Counted(leases, k)) <= Cardinality(Pool[k])
      /\ Cardinality(Counted(disk.leases, k)) <= Cardinality(Pool[k])
  BY <1>1, CountedInPool DEF HolderInv
<1>3. IsFiniteSet(Pool[k])
  BY PoolAddrs, ClientsAssumption, FS_Subset
<1>4. Cardinality(Pool[k]) \in Nat /\ Cardinality(Pool[k]) < ULong
  BY <1>3, FS_CardinalityType DEF PoolsUnreserved
<1> QED
  BY <1>2, <1>4, CountNumbers

\* Moving an address to the dummy client changes no count, nor does the code
\* change a counter.
LEMMA ExactDecline ==
  ASSUME OneInterface, PoolsUnreserved, TypeInv, HolderInv,
         NEW iaid \in IAIDs, NEW l \in leases, DeclineAddr(iaid, l)
  PROVE  \A k \in Classes :
           Cardinality(Counted(leases', k)) = Cardinality(Counted(leases, k))
<1> SUFFICES ASSUME NEW k \in Classes
             PROVE  Cardinality(Counted(leases', k)) = Cardinality(Counted(leases, k))
  OBVIOUS
<1> DEFINE L == leases \ {l}
<1>1. k # NoClass
  BY ConfigAssumption
<1>2. IsFiniteSet(leases) /\ IsFiniteSet(L) /\ L \subseteq Lease /\ l \in Lease
  BY FS_Subset DEF TypeInv, TypeOK
<1>3. Cardinality(Counted(L, k)) =
        IF getClassByAddr(l.iface, l.addr) = k
        THEN Cardinality(Counted(leases, k)) - 1
        ELSE Cardinality(Counted(leases, k))
  BY <1>2, CountedRemove
<1>4. Cardinality(Counted(L, k)) \in Nat /\ Cardinality(Counted(leases, k)) \in Nat
  BY <1>2, CountedType
<1>5. ASSUME NEW i, getClassByAddr(i, l.addr) = k
      PROVE  l.addr \notin Reserved
  <2>1. l.addr \in Pool[k]
    BY <1>1, <1>5, ClassByAddr
  <2> QED
    BY <2>1 DEF PoolsUnreserved
<1>6. CASE leases' = L /\ \E m \in L : m.addr = l.addr
  <2>1. l.addr \in Reserved
    BY <1>6 DEF HolderInv, ExclusiveIn
  <2>2. getClassByAddr(l.iface, l.addr) # k
    BY <1>5, <2>1
  <2> QED
    BY <1>3, <1>6, <2>2
<1>7. ASSUME NEW n \in Lease, n.addr = l.addr, leases' = L \cup {n},
             n.clnt = Declined
      PROVE  Cardinality(Counted(leases', k)) = Cardinality(Counted(leases, k))
  <2>1. n.iface = l.iface
    BY <1>2 DEF OneInterface, Lease
  <2>2. getClassByAddr(n.iface, n.addr) = getClassByAddr(l.iface, l.addr)
    BY <1>7, <2>1
  <2>3. CASE getClassByAddr(l.iface, l.addr) = k
    <3>1. l.addr \notin Reserved
      BY <1>5, <2>3
    <3>2. n \notin L
      BY <1>7, <3>1 DEF HolderInv, ExclusiveIn
    <3>3. Cardinality(Counted(leases', k)) = Cardinality(Counted(L, k)) + 1
      BY <1>2, <1>7, <2>2, <2>3, <3>2, CountedAdd
    <3> QED
      BY <1>3, <1>4, <2>3, <3>3
  <2>4. CASE getClassByAddr(l.iface, l.addr) # k
    <3>1. Counted(leases', k) = Counted(L, k)
      BY <1>7, <2>2, <2>4 DEF Counted
    <3> QED
      BY <1>3, <2>4, <3>1
  <2> QED
    BY <2>3, <2>4
<1> QED
  BY <1>6, <1>7, DeclineAddrEffect

LEMMA ExactRelease ==
  ASSUME OneInterface, TypeInv, Exact, NEW l \in leases, NEW i \in Ifaces,
         leases' = leases \ {l}, assigned' = decrAssigned(i, l.addr)
  PROVE  Exact'
<1> SUFFICES ASSUME NEW k \in Classes
             PROVE  assigned'[k] = Cardinality(Counted(leases', k))
  BY DEF Exact, Counted
<1>1. i = l.iface
  BY DEF OneInterface, TypeInv, TypeOK, Lease
<1>2. \A m \in Classes : Cardinality(Counted(leases, m)) <= assigned[m]
  BY CountNumbers DEF Exact
<1>3. assigned'[k] = IF k = getClassByAddr(i, l.addr) THEN assigned[k] - 1 ELSE assigned[k]
  BY <1>1, <1>2, LoweredCounters
<1>4. Cardinality(Counted(leases', k)) =
        IF getClassByAddr(l.iface, l.addr) = k
        THEN Cardinality(Counted(leases, k)) - 1
        ELSE Cardinality(Counted(leases, k))
  BY CountedRemove DEF TypeInv
<1> QED
  BY <1>1, <1>3, <1>4 DEF Exact

LEMMA ExactAssign ==
  ASSUME PoolsUnreserved, TypeInv, TypeInv', HolderInv, HolderInv', Exact,
         NEW iaid \in IAIDs, AssignIA(iaid)
  PROVE  Exact'
<1>1. CASE \E a \in Addrs : assignAddr(iaid, a) /\ Binding(iaid) = {}
  <2>1. PICK a \in Addrs : assignAddr(iaid, a) /\ Binding(iaid) = {}
    BY <1>1
  <2> DEFINE n == GrantedLease(iaid, a)
             c == getClassByAddr(msg.iface, a)
  <2>2. leases' = leases \cup {n} /\ n \notin leases
    BY <2>1, AssignOutcome, AssignGrants
  <2>3. n.iface = msg.iface /\ n.addr = a
    BY DEF GrantedLease
  <2> HIDE DEF n
  <2>4. assigned' = incrAssigned(msg.iface, a)
    BY <2>1 DEF assignAddr
  <2>5. \A k \in Classes : Cardinality(Counted(leases', k)) =
                             IF k = c THEN Cardinality(Counted(leases, k)) + 1
                                      ELSE Cardinality(Counted(leases, k))
    BY <2>2, <2>3, CountedAdd DEF TypeInv
  <2>6. \A k \in Classes : Cardinality(Counted(leases', k)) < ULong
    <3> SUFFICES ASSUME NEW k \in Classes
                 PROVE  Cardinality(Counted(leases', k)) < ULong
      OBVIOUS
    <3>1. leases' \in SUBSET Lease /\ ExclusiveIn(leases') /\ IsFiniteSet(leases')
      BY DEF TypeInv, TypeOK, HolderInv, ExclusiveIn
    <3>2. /\ Cardinality(Counted(leases', k)) <= Cardinality(Pool[k])
          /\ Cardinality(Counted(leases', k)) \in Nat
      BY <3>1, CountedInPool, CountedType
    <3>3. IsFiniteSet(Pool[k])
      BY PoolAddrs, ClientsAssumption, FS_Subset
    <3>4. Cardinality(Pool[k]) \in Nat /\ Cardinality(Pool[k]) < ULong
      BY <3>3, FS_CardinalityType DEF PoolsUnreserved
    <3> QED
      BY <3>2, <3>4, ConfigAssumption
  <2> HIDE DEF c
  <2>7. \A k \in Classes : k = c => assigned[k] + 1 < ULong
    BY <2>5, <2>6 DEF Exact
  <2>8. \A k \in Classes : assigned'[k] = IF k = c THEN assigned[k] + 1 ELSE assigned[k]
    BY <2>4, <2>7, RaisedCounters DEF c
  <2> QED
    BY <2>5, <2>8 DEF Exact, Counted
<1>2. CASE ~ \E a \in Addrs : assignAddr(iaid, a) /\ Binding(iaid) = {}
  <2>1. leases' = leases /\ assigned' = assigned
    BY <1>2, AssignOutcome
  <2> QED
    BY <2>1 DEF Exact, Counted
<1> QED
  BY <1>1, <1>2

LEMMA ExactStep ==
  ASSUME OneInterface, PoolsUnreserved, TypeInv, TypeInv', WorkInv,
         HolderInv, HolderInv', ExactInv, ~repeated', [Next]_vars
  PROVE  Exact'
<1>10. CASE Crash \/ Restart
  <2>1. ULong \in Nat /\ ULong <= ULong
    BY ConfigAssumption
  <2>2. \A k \in Classes : /\ Cardinality(Counted(leases, k)) < ULong
                           /\ Cardinality(Counted(disk.leases, k)) < ULong
    BY ExactWidth
  <2>3. \A k \in Classes : assigned'[k] = Cardinality(Counted(leases', k))
    BY <1>10, <2>1, <2>2, RestartCounts
  <2> QED
    BY <2>3 DEF Exact, Counted
<1> SUFFICES ASSUME ~(Crash \/ Restart)
             PROVE  Exact'
  BY <1>10
<1>5. ~repeated /\ Exact
  BY RepeatedStays DEF ExactInv
<1>1. ASSUME NEW iaid \in IAIDs, AssignIA(iaid)
      PROVE  Exact'
  BY <1>1, <1>5, ExactAssign
<1>2. ASSUME NEW iaid \in IAIDs, NEW l \in leases, DeclineAddr(iaid, l)
      PROVE  Exact'
  <2>1. assigned' = assigned
    BY <1>2 DEF DeclineAddr
  <2>2. \A k \in Classes :
          Cardinality(Counted(leases', k)) = Cardinality(Counted(leases, k))
    BY <1>2, ExactDecline
  <2> QED
    BY <1>5, <2>1, <2>2 DEF Exact, Counted
<1>3. ASSUME NEW iaid \in IAIDs, NEW l \in leases, ReleaseAddr(iaid, l)
      PROVE  Exact'
  <2>1. leases' = leases \ {l} /\ assigned' = decrAssigned(msg.iface, l.addr)
    BY <1>3 DEF ReleaseAddr, delClntAddr
  <2>2. msg.iface \in Ifaces
    BY <1>3, ProcessingMsg DEF ReleaseAddr, MsgTypes
  <2> QED
    BY <1>5, <2>1, <2>2, ExactRelease
<1>4. ASSUME NEW l \in BagToSet(todo), ReleaseOne(l)
      PROVE  Exact'
  <2> DEFINE i == IF msg = NoMsg THEN l.iface ELSE msg.iface
  <2>1. leases' = leases \ {l} /\ assigned' = decrAssigned(i, l.addr)
    BY <1>4 DEF ReleaseOne, delClntAddr
  <2>2. l \in leases /\ i \in Ifaces
    BY <1>5, WorkHeld DEF TypeInv, TypeOK, Lease, Message
  <2> HIDE DEF i
  <2> QED
    BY <1>5, <2>1, <2>2, ExactRelease
<1>6. ASSUME NEW iaid \in IAIDs, RenewIA(iaid) \/ RebindIA(iaid) \/ RebindDiscarded(iaid)
      PROVE  leases' = leases /\ assigned' = assigned
  BY <1>6 DEF RenewIA, RebindIA, RebindDiscarded, dbVars
<1>7. ASSUME Answer \/ Timeout \/ Duties \/ ReleaseDone \/ DumpDb \/ DumpCache
      PROVE  leases' = leases /\ assigned' = assigned
  BY <1>7 DEF Answer, Timeout, Duties, ReleaseDone, DumpDb, DumpCache, dbVars
<1>8. ASSUME Environment \/ UNCHANGED vars
      PROVE  leases' = leases /\ assigned' = assigned
  BY <1>8 DEF Environment, Expire, Receive, dbVars, vars
<1>9. leases' = leases /\ assigned' = assigned => Exact'
  BY <1>5 DEF Exact, Counted
<1> QED
  BY <1>1, <1>2, <1>3, <1>4, <1>6, <1>7, <1>8, <1>9 DEF Next, Work, Handle

\* On a server of one interface whose reservations lie outside its pools no
\* counter drifts: each is the number of leases of its class at every moment,
\* through offers, declines, expiry and restarts, however the pools overlap,
\* from a start of the server until a SOLICIT asks twice for one IA.
THEOREM CountersExactHolds ==
  ASSUME OneInterface, PoolsUnreserved
  PROVE  Spec => []CountersExact
<1>1. Init => ExactInv
  <2> SUFFICES ASSUME Init PROVE ExactInv
    OBVIOUS
  <2>1. \A k : Counted({}, k) = {}
    BY DEF Counted
  <2> QED
    BY <2>1, FS_EmptySet DEF Init, ExactInv, Exact
<1>2. /\ TypeInv /\ WorkInv /\ HolderInv /\ ExactInv
      /\ TypeInv' /\ HolderInv'
      /\ [Next]_vars
      => ExactInv'
  BY ExactStep DEF ExactInv
<1>3. ExactInv => CountersExact
  BY DEF ExactInv, Exact, Counted, CountersExact
<1> QED
  BY HolderInvariance, <1>1, <1>2, <1>3, PTL DEF Spec

=============================================================================
