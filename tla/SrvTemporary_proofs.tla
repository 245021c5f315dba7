------------------------ MODULE SrvTemporary_proofs ------------------------
(***************************************************************************)
(* Proofs about SrvTemporary, for every number of clients, IA_TAs and       *)
(* addresses and every limit.                                               *)
(***************************************************************************)
EXTENDS SrvTemporary, FiniteSetTheorems, TLAPS

USE DEF others, vars, Forget

-----------------------------------------------------------------------------
(* Types                                                                    *)

\* Every step keeps the variables within their types.
LEMMA TypeStep == TypeOK /\ [Next]_vars => TypeOK'
<1> SUFFICES ASSUME TypeOK, [Next]_vars PROVE TypeOK'
  OBVIOUS
<1> USE DEF TypeOK
<1>1. ASSUME NEW c \in Clients, NEW i \in IAIDs, Request(c, i) PROVE TypeOK'
  <2>1. \A a \in Drawn(c) : [clnt |-> c, iaid |-> i, addr |-> a] \in Temp
    BY TemporaryAssumption DEF Drawn, Temp
  <2> QED
    BY <1>1, <2>1 DEF Request
<1>2. ASSUME NEW c \in Clients, NEW i \in IAIDs, RapidSolicit(c, i) PROVE TypeOK'
  <2>1. \A a \in Drawn(c) : [clnt |-> c, iaid |-> i, addr |-> a] \in Temp
    BY TemporaryAssumption DEF Drawn, Temp
  <2> QED
    BY <1>2, <2>1 DEF RapidSolicit
<1>3. ASSUME NEW c \in Clients, NEW i \in IAIDs, Release(c, i) PROVE TypeOK'
  BY <1>3 DEF Release
<1>4. ASSUME NEW c \in Clients, AssignNormal(c) PROVE TypeOK'
  BY <1>4 DEF AssignNormal
<1>5. ASSUME NEW c \in Clients, AssignPrefix(c) PROVE TypeOK'
  BY <1>5 DEF AssignPrefix
<1>6. ASSUME NEW c \in Clients, AssignFixed(c) PROVE TypeOK'
  BY <1>6 DEF AssignFixed
<1>7. ASSUME NEW c \in Clients, EndOther(c) PROVE TypeOK'
  BY <1>7 DEF EndOther
<1>8. ASSUME NEW t \in Temp, Decline(t) PROVE TypeOK'
  BY <1>8 DEF Decline
<1>9. ASSUME NEW t \in Temp, TimeOut(t) PROVE TypeOK'
  BY <1>9 DEF TimeOut
<1>10. CASE Duties
  BY <1>10 DEF Duties, Ended
<1>11. CASE Restart
  BY <1>11, TemporaryAssumption DEF Restart
<1>12. CASE UNCHANGED vars
  BY <1>12
<1> QED
  BY <1>1, <1>2, <1>3, <1>4, <1>5, <1>6, <1>7, <1>8, <1>9, <1>10, <1>11, <1>12 DEF Next

\* The variables have their types in every reachable state: no lease is given
\* back twice, and expired addresses stay until doDuties removes them.
THEOREM TemporaryTypeCorrect == Spec => []TypeOK
<1>1. Init => TypeOK
  BY TemporaryAssumption DEF Init, TypeOK
<1> QED
  BY <1>1, TypeStep, PTL DEF Spec

-----------------------------------------------------------------------------
(* Exclusive use                                                            *)

\* In the database no two IA_TAs have one address
TempsExclusive == \A t, u \in temps : t.addr = u.addr => t = u

UseInv == UsedIsLeased /\ TempsExclusive

\* Every step keeps what is used and recorded within what is leased, and every
\* address leased once.
LEMMA UseStep ==
  ASSUME TypeOK, UseInv, [Next]_vars
  PROVE  UseInv'
<1> USE DEF UseInv, UsedIsLeased, TempsExclusive
<1>1. ASSUME NEW c \in Clients, NEW i \in IAIDs, Request(c, i) PROVE UseInv'
  <2>1. PICK a \in Drawn(c), arrives \in BOOLEAN :
          /\ temps' = temps \cup {[clnt |-> c, iaid |-> i, addr |-> a]}
          /\ used' = IF arrives THEN used \cup {[clnt |-> c, iaid |-> i, addr |-> a]}
                                ELSE used
          /\ unrecorded' = unrecorded \ {[clnt |-> c, iaid |-> i, addr |-> a]}
          /\ ended' = ended
    BY <1>1 DEF Request
  <2>2. \A t \in temps : t.addr # a
    BY DEF Drawn, taAddrIsFree
  <2>3. [clnt |-> c, iaid |-> i, addr |-> a] \notin ended
    BY <2>2 DEF TypeOK
  <2> QED
    BY <2>1, <2>2, <2>3
<1>2. ASSUME NEW c \in Clients, NEW i \in IAIDs, RapidSolicit(c, i) PROVE UseInv'
  BY <1>2 DEF RapidSolicit
<1>3. ASSUME NEW c \in Clients, NEW i \in IAIDs, Release(c, i) PROVE UseInv'
  BY <1>3 DEF Release
<1>4. ASSUME NEW c \in Clients,
             AssignNormal(c) \/ AssignPrefix(c) \/ AssignFixed(c) \/ EndOther(c)
      PROVE  UseInv'
  BY <1>4 DEF AssignNormal, AssignPrefix, AssignFixed, EndOther
<1>5. ASSUME NEW t \in Temp, Decline(t) PROVE UseInv'
  BY <1>5 DEF Decline
<1>6. ASSUME NEW t \in Temp, TimeOut(t) PROVE UseInv'
  BY <1>6 DEF TimeOut
<1>7. CASE Duties
  BY <1>7 DEF Duties, Ended
<1>8. CASE Restart
  BY <1>8 DEF Restart, TypeOK
<1>9. CASE UNCHANGED vars
  BY <1>9
<1> QED
  BY <1>1, <1>2, <1>3, <1>4, <1>5, <1>6, <1>7, <1>8, <1>9 DEF Next

LEMMA UseInvariant == Spec => []UseInv
<1>1. Init => UseInv
  BY DEF Init, UseInv, UsedIsLeased, TempsExclusive
<1>2. TypeOK /\ UseInv /\ [Next]_vars => UseInv'
  BY UseStep
<1> QED
  BY <1>1, <1>2, TemporaryTypeCorrect, PTL DEF Spec

\* What was recorded for a client that uses it stays leased to it, through lost
\* messages, declines, expiry, rapid commit and restarts.
THEOREM UsedIsLeasedHolds == Spec => []UsedIsLeased
<1>1. UseInv => UsedIsLeased
  BY DEF UseInv
<1> QED
  BY <1>1, UseInvariant, PTL

\* No two IA_TAs use one temporary address that was recorded for both.
THEOREM NotSharedHolds == Spec => []NotShared
<1>1. UseInv => NotShared
  BY DEF UseInv, UsedIsLeased, TempsExclusive, NotShared
<1> QED
  BY <1>1, UseInvariant, PTL

-----------------------------------------------------------------------------
(* The limit                                                                *)

Of(S, c)   == {t \in S : t.clnt = c}
TempsOf(c) == Of(temps, c)

LimitInv == ClientLimit /\ IsFiniteSet(temps)

\* One more temporary lease of a client adds at most one to its count and none
\* to another's.
LEMMA CountAdd ==
  ASSUME IsFiniteSet(temps), NEW t, NEW c
  PROVE  /\ Cardinality(TempsOf(c)) \in Nat
         /\ Cardinality(Of(temps \cup {t}, c)) \in Nat
         /\ Cardinality(Of(temps \cup {t}, c)) <= Cardinality(TempsOf(c)) + 1
         /\ t.clnt # c => Cardinality(Of(temps \cup {t}, c)) = Cardinality(TempsOf(c))
<1>1. IsFiniteSet(TempsOf(c))
  BY FS_Subset DEF TempsOf, Of
<1>2. Cardinality(TempsOf(c)) \in Nat
  BY <1>1, FS_CardinalityType
<1>3. CASE t.clnt # c
  <2>1. Of(temps \cup {t}, c) = TempsOf(c)
    BY <1>3 DEF TempsOf, Of
  <2> QED
    BY <1>2, <2>1
<1>4. CASE t.clnt = c
  <2>1. Of(temps \cup {t}, c) = TempsOf(c) \cup {t}
    BY <1>4 DEF TempsOf, Of
  <2>2. \/ Cardinality(TempsOf(c) \cup {t}) = Cardinality(TempsOf(c))
        \/ Cardinality(TempsOf(c) \cup {t}) = Cardinality(TempsOf(c)) + 1
    BY <1>1, FS_AddElement
  <2>3. \/ Cardinality(Of(temps \cup {t}, c)) = Cardinality(TempsOf(c))
        \/ Cardinality(Of(temps \cup {t}, c)) = Cardinality(TempsOf(c)) + 1
    BY <2>1, <2>2
  <2>4. /\ Cardinality(Of(temps \cup {t}, c)) \in Nat
        /\ Cardinality(Of(temps \cup {t}, c)) <= Cardinality(TempsOf(c)) + 1
    <3> DEFINE m == Cardinality(Of(temps \cup {t}, c))
               n == Cardinality(TempsOf(c))
    <3>1. n \in Nat /\ (m = n \/ m = n + 1)
      BY <1>2, <2>3
    <3> HIDE DEF m, n
    <3>2. m \in Nat /\ m <= n + 1
      BY <3>1
    <3> QED
      BY <3>2 DEF m, n
  <2> QED
    BY <1>2, <1>4, <2>4
<1> QED
  BY <1>3, <1>4

\* Fewer temporary leases do not add to any count.
LEMMA CountLess ==
  ASSUME IsFiniteSet(temps), NEW S \in SUBSET temps, NEW c
  PROVE  /\ Cardinality(Of(S, c)) \in Nat /\ Cardinality(TempsOf(c)) \in Nat
         /\ Cardinality(Of(S, c)) <= Cardinality(TempsOf(c))
<1>1. IsFiniteSet(TempsOf(c)) /\ Of(S, c) \subseteq TempsOf(c)
  BY FS_Subset DEF TempsOf, Of
<1>2. IsFiniteSet(Of(S, c))
  BY <1>1, FS_Subset
<1> QED
  BY <1>1, <1>2, FS_Subset, FS_CardinalityType

\* Whatever is leased, each step keeps the clients within the limit: it looks at
\* the count of all leases before it adds one, and below the limit the unsigned
\* difference is the difference.
LEMMA LimitStep == TypeOK /\ LimitInv /\ [Next]_vars => LimitInv'
<1> SUFFICES ASSUME TypeOK, LimitInv, [Next]_vars PROVE LimitInv'
  OBVIOUS
<1> USE DEF LimitInv
<1>1. ClntMaxLease \in Nat /\ \A c \in Clients : normal[c] \in Nat /\ beside[c] \in Nat
  BY TemporaryAssumption DEF TypeOK
<1>2. \A c : Cardinality(TempsOf(c)) \in Nat
  BY CountLess
<1>3. \A c : /\ getLeaseCount(c) = normal[c] + Cardinality(TempsOf(c)) + beside[c]
             /\ getLeaseCount(c)' = normal'[c] + Cardinality(TempsOf(c)') + beside'[c]
  BY DEF getLeaseCount, TempsOf, Of
<1>4. ASSUME temps' \in SUBSET temps, UNCHANGED others PROVE LimitInv'
  <2>1. \A c : /\ Cardinality(TempsOf(c)') \in Nat
               /\ Cardinality(TempsOf(c)') <= Cardinality(TempsOf(c))
    BY <1>4, CountLess DEF TempsOf
  <2>2. IsFiniteSet(temps')
    BY <1>4, FS_Subset
  <2> QED
    BY <1>1, <1>2, <1>3, <1>4, <2>1, <2>2 DEF ClientLimit
<1>5. ASSUME temps' = temps PROVE \A c : TempsOf(c)' = TempsOf(c)
  BY <1>5 DEF TempsOf
<1>6. ASSUME NEW c \in Clients, NEW i \in IAIDs, Request(c, i) PROVE LimitInv'
  <2>1. PICK a \in Drawn(c) : temps' = temps \cup {[clnt |-> c, iaid |-> i, addr |-> a]}
    BY <1>6 DEF Request
  <2> DEFINE t == [clnt |-> c, iaid |-> i, addr |-> a]
  <2>2. IsFiniteSet(temps')
    BY <2>1, FS_AddElement
  <2>3. \A d : /\ Cardinality(TempsOf(d)') \in Nat
               /\ Cardinality(TempsOf(d)') <= Cardinality(TempsOf(d)) + 1
               /\ d # c => Cardinality(TempsOf(d)') = Cardinality(TempsOf(d))
    <3> HIDE DEF t
    <3>1. t.clnt = c
      BY DEF t
    <3>2. temps' = temps \cup {t}
      BY <2>1 DEF t
    <3> QED
      BY <3>1, <3>2, CountAdd DEF TempsOf
  <2>4. normal' = normal /\ beside' = beside
    BY <1>6 DEF Request
  <2>5. c \notin Exempt => getLeaseCount(c) < ClntMaxLease
    <3>1. 1 <= Minus(ClntMaxLease, getLeaseCount(c))
      BY <1>6 DEF Request, WillAssign
    <3>2. c \notin Exempt => getLeaseCount(c) <= ClntMaxLease
      BY DEF ClientLimit
    <3> QED
      BY <1>1, <1>2, <1>3, <3>1, <3>2 DEF Minus
  <2> QED
    BY <1>1, <1>2, <1>3, <2>2, <2>3, <2>4, <2>5 DEF ClientLimit
<1>7. ASSUME NEW c \in Clients, AssignNormal(c) PROVE LimitInv'
  BY <1>1, <1>2, <1>3, <1>5, <1>7 DEF AssignNormal, ClientLimit, TypeOK
<1>8. ASSUME NEW c \in Clients, AssignPrefix(c) PROVE LimitInv'
  BY <1>1, <1>2, <1>3, <1>5, <1>8 DEF AssignPrefix, ClientLimit, TypeOK
<1>9. ASSUME NEW c \in Clients, AssignFixed(c) PROVE LimitInv'
  BY <1>1, <1>2, <1>3, <1>5, <1>9 DEF AssignFixed, ClientLimit, TypeOK
<1>10. ASSUME NEW c \in Clients, EndOther(c) PROVE LimitInv'
  BY <1>1, <1>2, <1>3, <1>5, <1>10 DEF EndOther, ClientLimit, TypeOK
<1>11. ASSUME NEW c \in Clients, NEW i \in IAIDs, RapidSolicit(c, i) \/ Release(c, i)
       PROVE  LimitInv'
  BY <1>4, <1>11 DEF RapidSolicit, Release
<1>12. ASSUME NEW t \in Temp, Decline(t) \/ TimeOut(t) PROVE LimitInv'
  BY <1>4, <1>12 DEF Decline, TimeOut
<1>13. CASE Duties \/ Restart
  BY <1>4, <1>13 DEF Duties, Restart
<1>14. CASE UNCHANGED vars
  BY <1>4, <1>14
<1> QED
  BY <1>6, <1>7, <1>8, <1>9, <1>10, <1>11, <1>12, <1>13, <1>14 DEF Next

\* The three limits together keep every client at client-max-lease whom no fixed
\* lease takes past it, with rapid commit, lost messages and restarts.
THEOREM TemporaryLimitHolds == Spec => []ClientLimit
<1>1. Init => LimitInv
  <2> SUFFICES ASSUME Init PROVE LimitInv
    OBVIOUS
  <2>1. temps = {} /\ IsFiniteSet(temps)
    BY FS_EmptySet DEF Init
  <2>2. \A c \in Clients : getLeaseCount(c) = 0
    <3>1. \A c : {t \in temps : t.clnt = c} = {}
      BY <2>1
    <3> QED
      BY <3>1, FS_EmptySet DEF Init, getLeaseCount
  <2> QED
    BY <2>1, <2>2, TemporaryAssumption DEF LimitInv, ClientLimit
<1>2. LimitInv => ClientLimit
  BY DEF LimitInv
<1> QED
  BY <1>1, <1>2, LimitStep, TemporaryTypeCorrect, PTL DEF Spec
=============================================================================
