------------------------- MODULE ClntTimers_proofs -------------------------
(***************************************************************************)
(* Proofs about ClntTimers, for any times a server may offer and any times  *)
(* of retransmission.                                                       *)
(***************************************************************************)
EXTENDS ClntTimers, Least_proofs, FiniteSetTheorems, TLAPS

-----------------------------------------------------------------------------
(* The operators of the model                                               *)

\* What Least and Longest choose exists.
LEMMA LeastIsLeast ==
  ASSUME NEW S, S \subseteq Nat, S # {}
  PROVE  Least(S) \in S /\ \A n \in S : Least(S) <= n
BY LeastExists DEF Least

\* A finite set of naturals has a bound: a smallest one without would have one
\* when a member is left out.
LEMMA Bounded ==
  ASSUME NEW S, S \subseteq Nat, IsFiniteSet(S)
  PROVE  \E b \in Nat : \A n \in S : n <= b
<1> DEFINE Sizes == {Cardinality(T) : T \in {T \in SUBSET S : \A b \in Nat : \E n \in T : n > b}}
<1>1. SUFFICES ASSUME Sizes # {} PROVE FALSE
  <2>1. \A b \in Nat : ~ (\A n \in S : n <= b) => \E n \in S : n > b
    OBVIOUS
  <2> QED
    BY <2>1
<1>2. \A T \in SUBSET S : IsFiniteSet(T) /\ Cardinality(T) \in Nat
  BY FS_Subset, FS_CardinalityType
<1>3. Sizes \subseteq Nat
  BY <1>2
<1>4. PICK least \in Sizes : \A n \in Sizes : least <= n
  <2> HIDE DEF Sizes
  <2> QED
    BY <1>1, <1>3, LeastExists
<1>5. PICK T \in SUBSET S : least = Cardinality(T) /\ \A b \in Nat : \E n \in T : n > b
  BY <1>4
<1>6. PICK x \in T : x > 0
  BY <1>5
<1>7. Cardinality(T \ {x}) = Cardinality(T) - 1
  BY <1>2, <1>5, <1>6, FS_RemoveElement
<1>8. Cardinality(T \ {x}) \notin Sizes
  <2> HIDE DEF Sizes
  <2> QED
    BY <1>2, <1>4, <1>5, <1>7
<1>9. PICK b \in Nat : \A n \in T \ {x} : n <= b
  <2>1. T \ {x} \in SUBSET S
    OBVIOUS
  <2>2. ~ (\A b \in Nat : \E n \in T \ {x} : n > b)
    BY <1>8, <2>1
  <2>3. \A n \in T \ {x} : n \in Nat
    BY <2>1
  <2>4. PICK b \in Nat : \A n \in T \ {x} : ~ (n > b)
    BY <2>2
  <2> QED
    BY <2>3, <2>4
<1>10. PICK c \in Nat : c >= b /\ c >= x
  <2>1. x \in Nat
    OBVIOUS
  <2>2. CASE x <= b
    BY <2>2
  <2>3. CASE b <= x
    BY <2>1, <2>3
  <2> QED
    BY <2>1, <2>2, <2>3
<1>11. \A n \in T : n <= c
  BY <1>9, <1>10
<1> QED
  BY <1>5, <1>10, <1>11

\* MRD of a REBIND is the longest of the lifetimes.
LEMMA LongestExists ==
  ASSUME TypeOK, NEW ias \in SUBSET IA
  PROVE  /\ Longest(ias) \in {0} \cup {left[ia].valid : ia \in ias \cap held}
         /\ \A ia \in ias \cap held : left[ia].valid <= Longest(ias)
         /\ Longest(ias) \in Nat
<1> DEFINE V == {left[ia].valid : ia \in ias \cap held}
           Above == {b \in Nat : \A n \in V : n <= b}
<1>1. V \subseteq Nat /\ IsFiniteSet(V)
  <2>1. IsFiniteSet(ias \cap held)
    BY IAAssumption, FS_Subset DEF TypeOK
  <2>2. V \subseteq Nat
    BY DEF TypeOK, Times
  <2>3. [ia \in ias \cap held |-> left[ia].valid] \in Surjection(ias \cap held, V)
    BY DEF Surjection
  <2>4. IsFiniteSet(V)
    <3> HIDE DEF V
    <3> QED
      BY <2>1, <2>3, FS_Surjection
  <2> QED
    BY <2>2, <2>4
<1>2. Above # {}
  <2> HIDE DEF V
  <2> QED
    BY <1>1, Bounded
<1>3. PICK m \in Above : \A b \in Above : m <= b
  <2> HIDE DEF V, Above
  <2>1. Above \subseteq Nat
    BY DEF Above
  <2> QED
    BY <1>2, <2>1, LeastExists
<1>4. m \in {0} \cup V
  <2> HIDE DEF V
  <2>1. SUFFICES ASSUME m # 0, m \notin V PROVE FALSE
    OBVIOUS
  <2>2. m - 1 \in Above
    BY <1>1, <1>3, <2>1
  <2> QED
    BY <1>3, <2>2
<1>5. \A n \in V : n <= m
  BY <1>3
<1>6. \E n \in {0} \cup V : \A ia \in ias \cap held : left[ia].valid <= n
  BY <1>4, <1>5
<1> QED
  BY <1>1, <1>6 DEF Longest

\* A message after a transmission: RT is at least a second and is being waited
\* for, and MRD and RT add up to the MRD there was.
LEMMA SentMessage ==
  ASSUME NEW type \in {"renew", "rebind"}, NEW ias \in SUBSET IA, ias # {},
         NEW rt \in Nat, NEW mrd \in Nat, NEW m \in Sent(type, ias, rt, mrd)
  PROVE  /\ m \in Message /\ m.type = type /\ m.ias = ias
         /\ m.rt > 0 /\ m.wait = m.rt
         /\ mrd > 0 => m.mrd + m.wait = mrd
         /\ mrd = 0 => m.mrd = 0
<1>1. \A n \in Nat \ {0} : (9 * n + 5) \div 10 > 0 /\ (19 * n + 5) \div 10 > 0
  OBVIOUS
<1>2. NextRT(rt) \subseteq Nat \ {0}
  <2>1. About(IRT) \subseteq Nat \ {0} /\ About(MRT) \subseteq Nat \ {0}
    BY <1>1, TimeAssumption DEF About
  <2>2. rt # 0 => AboutTwice(rt) \subseteq Nat \ {0}
    BY <1>1 DEF AboutTwice
  <2> QED
    BY <2>1, <2>2 DEF NextRT
<1>3. PICK n \in NextRT(rt) :
        m = [type |-> type, ias |-> ias, rt |-> IF mrd = 0 THEN n ELSE AtMost(n, mrd),
             mrd |-> IF mrd = 0 THEN 0 ELSE mrd - AtMost(n, mrd),
             wait |-> IF mrd = 0 THEN n ELSE AtMost(n, mrd)]
  BY DEF Sent
<1>4. n \in Nat \ {0}
  BY <1>2, <1>3
<1>5. mrd > 0 => AtMost(n, mrd) \in Nat \ {0} /\ AtMost(n, mrd) <= mrd
  BY <1>4 DEF AtMost
<1>6. CASE mrd = 0
  BY <1>3, <1>4, <1>6 DEF Message
<1>7. CASE mrd > 0
  BY <1>3, <1>5, <1>7 DEF Message
<1> QED
  BY <1>6, <1>7

\* The times of an IA that a server may give it.
LEMMA ChosenTimes ==
  ASSUME NEW o \in Offers
  PROVE  Chosen(o) \in Times /\ Chosen(o).valid = o.valid
<1>1. o \in [t1 : Nat, t2 : Nat, pref : Nat, valid : Nat \ {0}]
  BY OfferAssumption
<1>2. o.pref \div 2 \in Nat /\ (7 * o.pref) \div 10 \in Nat
  BY <1>1
<1> QED
  BY <1>1, <1>2 DEF Chosen, Times

\* What getTimeout looks at are times, and there is always one.
LEMMA TimeoutsType ==
  ASSUME NEW s, NEW M, TypeOK, \A m \in M : m.wait \in Nat
  PROVE  Timeouts(s, M) \subseteq Nat /\ Forever \in Timeouts(s, M)
<1>1. Forever \in Timeouts(s, M)
  BY DEF Timeouts
<1>2. ASSUME NEW n \in Timeouts(s, M)
      PROVE  n \in Nat
  <2>1. \A ia \in IA : left[ia].t1 \in Nat /\ left[ia].t2 \in Nat /\ left[ia].valid \in Nat
    BY DEF TypeOK, Times
  <2>2. \/ \E ia \in IA : n = left[ia].t1 \/ n = left[ia].t2 \/ n = left[ia].valid
        \/ \E m \in M : n = m.wait
        \/ n = 0 \/ n = Forever
    BY <1>2 DEF Timeouts, TypeOK
  <2> QED
    BY <2>1, <2>2, TimeAssumption
<1> QED
  BY <1>1, <1>2

\* The sleep that run() chooses is one second, or ends with the first of what
\* getTimeout looks at.
LEMMA TimeoutIsFirst ==
  ASSUME NEW s, NEW M, TypeOK, \A m \in M : m.wait \in Nat
  PROVE  /\ Timeout(s, M) \in 1..Forever
         /\ Timeout(s, M) = 1 \/ \A n \in Timeouts(s, M) : Timeout(s, M) <= n
<1>1. Timeouts(s, M) \subseteq Nat /\ Forever \in Timeouts(s, M)
  BY TimeoutsType
<1>2. Least(Timeouts(s, M)) \in Timeouts(s, M) /\ \A n \in Timeouts(s, M) : Least(Timeouts(s, M)) <= n
  BY <1>1, LeastIsLeast
<1>3. CASE 0 \in Timeouts(s, M)
  BY <1>3, TimeAssumption DEF Timeout
<1>4. CASE 0 \notin Timeouts(s, M)
  BY <1>1, <1>2, <1>4 DEF Timeout
<1> QED
  BY <1>3, <1>4

-----------------------------------------------------------------------------
(* Type correctness                                                         *)

LEMMA ConfigureTypes ==
  ASSUME TypeOK, NEW D \in SUBSET IA, NEW o \in [IA -> Offers], Configure(D, o)
  PROVE  st' \in [IA -> State] /\ held' \subseteq IA /\ left' \in [IA -> Times]
<1>1. \A ia \in IA : Chosen(o[ia]) \in Times
  BY ChosenTimes
<1> QED
  BY <1>1 DEF Configure, TypeOK, State

LEMMA TypeStep ==
  ASSUME TypeOK, [Next]_vars
  PROVE  TypeOK'
<1> USE DEF db
<1>1. CASE Tick
  <2>1. \A n \in Nat : Less(n) \in Nat /\ Less(n) <= n
    BY DEF Less
  <2>2. left' \in [IA -> Times]
    BY <1>1, <2>1 DEF Tick, TypeOK, Times
  <2>3. \A m \in trans : /\ [m EXCEPT !.wait = Less(@)] \in Message
                         /\ [m EXCEPT !.wait = Less(@)].wait <= m.rt
    BY <2>1 DEF TypeOK, Message
  <2>4. sleep' \in 0..Forever
    BY <1>1, TimeAssumption DEF Tick, TypeOK, Less
  <2>5. /\ trans' \subseteq Message
        /\ \A m \in trans' : m.rt > 0 /\ m.wait <= m.rt /\ m.ias # {}
    BY <1>1, <2>3 DEF Tick, TypeOK, Message
  <2> QED
    BY <1>1, <2>2, <2>4, <2>5 DEF Tick, TypeOK
<1>2. CASE Wake \/ Disturbed \/ EndOfMessages
  BY <1>2, TimeAssumption DEF Wake, Disturbed, EndOfMessages, TypeOK
<1>3. ASSUME NEW D \in (SUBSET IA) \ {{}}, NEW o \in [IA -> Offers], Obtain(D, o)
      PROVE  TypeOK'
  <2>1. st' \in [IA -> State] /\ held' \subseteq IA /\ left' \in [IA -> Times]
    BY <1>3, ConfigureTypes DEF Obtain
  <2> QED
    BY <1>3, <2>1, TimeAssumption DEF Obtain, TypeOK, State
<1>4. ASSUME NEW m \in trans, NEW o \in [IA -> Offers], NEW nobinding \in BOOLEAN,
             NEW D \in SUBSET m.ias, AnswerRenew(m, D, o, nobinding)
      PROVE  TypeOK'
  <2>1. D \in SUBSET IA
    BY DEF TypeOK, Message
  <2>2. st' \in [IA -> State] /\ held' \subseteq IA /\ left' \in [IA -> Times]
    BY <1>4, <2>1, ConfigureTypes DEF AnswerRenew
  <2>3. cfg' \in [IA -> State]
    <3>1. cfg' = [ia \in IA |-> IF nobinding /\ ia \in m.ias THEN "notconf"
                                ELSE IF ia \in D THEN "conf" ELSE cfg[ia]]
      BY <1>4 DEF AnswerRenew
    <3>2. \A ia \in IA : cfg[ia] \in State
      BY DEF TypeOK
    <3> QED
      BY <3>1, <3>2, Zenon DEF State
  <2> QED
    BY <1>4, <2>2, <2>3, TimeAssumption DEF AnswerRenew, TypeOK
<1>5. ASSUME NEW m \in trans, Resend(m) \/ Rebind(m)
      PROVE  TypeOK'
  <2>1. m \in Message /\ m.ias # {} /\ m.ias \in SUBSET IA
    BY DEF TypeOK, Message
  <2>2. Longest(m.ias) \in Nat
    BY <2>1, LongestExists
  <2>3. PICK n : /\ trans' = (trans \ {m}) \cup {n}
                 /\ n \in Sent(m.type, m.ias, m.rt, m.mrd) \/ n \in Sent("rebind", m.ias, 0, Longest(m.ias))
    BY <1>5 DEF Resend, Rebind
  <2>4. n \in Message /\ n.rt > 0 /\ n.wait <= n.rt /\ n.ias # {}
    <3>1. m.rt \in Nat /\ m.mrd \in Nat /\ m.type \in {"renew", "rebind"}
      BY <2>1 DEF Message
    <3>2. n \in Message /\ n.ias = m.ias /\ n.rt > 0 /\ n.wait = n.rt
      BY <2>1, <2>2, <2>3, <3>1, SentMessage
    <3> QED
      BY <2>1, <3>2 DEF Message
  <2>5. UNCHANGED <<db, sleep, at>>
    BY <1>5 DEF Resend, Rebind
  <2> QED
    BY <2>3, <2>4, <2>5 DEF TypeOK
<1>6. ASSUME NEW m \in trans, GiveUp(m)
      PROVE  TypeOK'
  BY <1>6 DEF GiveUp, TypeOK, State
<1>7. CASE Expire
  BY <1>7 DEF Expire, TypeOK, State
<1>8. CASE CheckSolicit
  BY <1>8 DEF CheckSolicit, TypeOK, State
<1>9. CASE CheckRenew
  <2>1. /\ st' \in [IA -> State]
        /\ trans' \subseteq Message
        /\ \A m \in trans' : m.rt > 0 /\ m.wait <= m.rt /\ m.ias # {}
    <3>1. CASE Aging = {}
      BY <1>9, <3>1 DEF CheckRenew, TypeOK
    <3>2. CASE Aging # {}
      <4>1. Least(Aging) \in Aging /\ Aging \subseteq IA
        BY <3>2, LeastIsLeast, IAAssumption DEF Aging
      <4>2. Group \in SUBSET IA /\ Group # {} /\ left[Least(Group)].t2 \in Nat
        <5>1. Group \subseteq IA /\ Least(Aging) \in Group
          BY <4>1 DEF Group, Aging
        <5>2. Least(Group) \in IA
          BY <5>1, LeastIsLeast, IAAssumption
        <5> QED
          BY <5>1, <5>2 DEF TypeOK, Times
      <4>3. PICK n \in Sent("renew", Group, 0, left[Least(Group)].t2) : trans' = trans \cup {n}
        BY <1>9, <3>2 DEF CheckRenew
      <4>4. n \in Message /\ n.rt > 0 /\ n.wait = n.rt /\ n.ias # {}
        BY <4>2, <4>3, SentMessage
      <4>5. n.wait <= n.rt
        BY <4>4 DEF Message
      <4>6. st' \in [IA -> State]
        BY <1>9, <3>2 DEF CheckRenew, TypeOK, State
      <4> QED
        BY <4>3, <4>4, <4>5, <4>6 DEF TypeOK
    <3> QED
      BY <3>1, <3>2
  <2>2. sleep' \in 0..Forever
    <3>1. \A m \in trans' : m.wait \in Nat
      BY <2>1 DEF Message
    <3>2. Timeout(st', trans') \in 1..Forever
      BY <3>1, TimeoutIsFirst
    <3> QED
      BY <1>9, <3>2, TimeAssumption DEF CheckRenew
  <2> QED
    BY <1>9, <2>1, <2>2 DEF CheckRenew, TypeOK
<1>10. CASE UNCHANGED vars
  BY <1>10 DEF vars, TypeOK
<1> QED
  BY <1>1, <1>2, <1>3, <1>4, <1>5, <1>6, <1>7, <1>8, <1>9, <1>10 DEF Next, Pass, Receive

\* What is left of a lease, of MRD, of RT and of the sleep never falls below
\* nothing, and every RT is at least a second.
THEOREM TimesTypeCorrect == Spec => []TypeOK
<1>1. Init => TypeOK
  BY TimeAssumption DEF Init, TypeOK, State, Times
<1>2. TypeOK /\ [Next]_vars => TypeOK'
  BY TypeStep
<1> QED
  BY <1>1, <1>2, PTL DEF Spec

-----------------------------------------------------------------------------
(* The sleep                                                                *)

\* While the client sleeps, no lease can end before it; and no expired address
\* is held when the length of the sleep is computed.
SleepInv ==
  /\ TypeOK
  /\ at = "select" =>
       \A ia \in IA : /\ ia \in held => sleep <= left[ia].valid
                      /\ st[ia] = "conf" => sleep <= left[ia].t1 \/ sleep <= 1
  /\ at \in {"solicit", "renew"} => \A ia \in held : left[ia].valid > 0

\* Every timer that matters is among those looked at.
LEMMA LookedAt ==
  /\ \A ia \in held : left[ia].valid \in Timeouts(st', trans')
  /\ \A ia \in IA : st'[ia] = "conf" => left[ia].t1 \in Timeouts(st', trans')
  /\ \A m \in trans' : m.wait \in Timeouts(st', trans')
BY DEF Timeouts

LEMMA SleepEnds ==
  ASSUME TypeOK, TypeOK', CheckRenew
  PROVE  /\ sleep' \in Nat /\ sleep' > 0
         /\ sleep' = 1 \/ \A n \in Timeouts(st', trans') : sleep' <= n
<1>1. \A m \in trans' : m.wait \in Nat
  BY DEF TypeOK, Message
<1>2. /\ Timeout(st', trans') \in 1..Forever
      /\ Timeout(st', trans') = 1 \/ \A n \in Timeouts(st', trans') : Timeout(st', trans') <= n
  BY <1>1, TimeoutIsFirst
<1>3. sleep' \in 1..Timeout(st', trans')
  BY DEF CheckRenew
<1>4. Timeouts(st', trans') \subseteq Nat
  BY <1>1, TimeoutsType
<1> QED
  BY <1>2, <1>3, <1>4, TimeAssumption

LEMMA SleepStep ==
  ASSUME SleepInv, [Next]_vars
  PROVE  SleepInv'
<1> USE DEF db
<1>1. TypeOK /\ TypeOK'
  BY TypeStep DEF SleepInv
<1>2. CASE Tick
  <2>1. sleep \in Nat /\ \A ia \in IA : left[ia].valid \in Nat /\ left[ia].t1 \in Nat
    BY <1>1, TimeAssumption DEF TypeOK, Times
  <2>2. /\ at = "select" /\ at' = at /\ held' = held /\ st' = st
        /\ sleep' = Less(sleep)
        /\ \A ia \in IA : /\ left'[ia].valid = Less(left[ia].valid)
                          /\ left'[ia].t1 = Less(left[ia].t1)
    BY <1>2 DEF Tick
  <2>3. ASSUME NEW ia \in IA
        PROVE  /\ ia \in held => Less(sleep) <= Less(left[ia].valid)
               /\ st[ia] = "conf" => Less(sleep) <= Less(left[ia].t1) \/ Less(sleep) <= 1
    BY <2>1, <2>2 DEF SleepInv, Less
  <2> QED
    BY <1>1, <2>2, <2>3 DEF SleepInv
<1>3. CASE Expire
  BY <1>1, <1>3 DEF Expire, SleepInv, TypeOK, Times
<1>4. CASE CheckSolicit
  BY <1>1, <1>4 DEF CheckSolicit, SleepInv
<1>5. CASE CheckRenew
  <2>1. at = "renew" /\ at' = "select" /\ UNCHANGED <<held, left>>
    BY <1>5 DEF CheckRenew
  <2>2. \A ia \in IA : left[ia].valid \in Nat /\ left[ia].t1 \in Nat
    BY <1>1 DEF TypeOK, Times
  <2>3. \A ia \in held : ia \in IA /\ sleep' <= left[ia].valid
    BY <1>1, <1>5, <2>1, <2>2, SleepEnds, LookedAt DEF SleepInv, TypeOK
  <2>4. \A ia \in IA : st'[ia] = "conf" => sleep' <= left[ia].t1 \/ sleep' <= 1
    BY <1>1, <1>5, <2>2, SleepEnds, LookedAt
  <2> QED
    BY <1>1, <2>1, <2>3, <2>4 DEF SleepInv
<1>6. CASE \/ Wake \/ Disturbed \/ EndOfMessages
           \/ \E m \in trans : Resend(m) \/ Rebind(m) \/ GiveUp(m)
           \/ Receive
  <2>1. at' \in {"messages", "expire"}
    BY <1>6 DEF Wake, Disturbed, EndOfMessages, Resend, Rebind, GiveUp, Due, Receive, Obtain, AnswerRenew
  <2> QED
    BY <1>1, <2>1 DEF SleepInv
<1>7. CASE UNCHANGED vars
  BY <1>1, <1>7 DEF vars, SleepInv
<1> QED
  BY <1>2, <1>3, <1>4, <1>5, <1>6, <1>7 DEF Next, Pass

\* While the client sleeps, it has no address that has run out, and no lease is
\* past T1 without a RENEW, but for the second until the next interface's turn;
\* also when the process gets the processor late.
THEOREM OnTimeHolds == Spec => []OnTime
<1>1. Init => SleepInv
  <2>1. Init => TypeOK
    BY TimeAssumption DEF Init, TypeOK, State, Times
  <2> QED
    BY <2>1 DEF Init, SleepInv
<1>2. SleepInv /\ [Next]_vars => SleepInv'
  BY SleepStep
<1>3. SleepInv => OnTime
  <2>1. TypeOK => sleep \in Nat /\ \A ia \in IA : left[ia].valid \in Nat /\ left[ia].t1 \in Nat
    BY TimeAssumption DEF TypeOK, Times
  <2> QED
    BY <2>1 DEF SleepInv, OnTime
<1> QED
  BY <1>1, <1>2, <1>3, PTL DEF Spec

-----------------------------------------------------------------------------
(* The end of RENEW and REBIND.  With several IAs on one interface a message *)
(* has the times of one of them, and what a late process oversleeps is added *)
(* to the message and not to the lease: each IA has an interface of its own, *)
(* and the process is punctual.  A pass of the main loop renews one          *)
(* interface only, so that an IA may wait for as many seconds as there are   *)
(* IAs before it: T1, and T2 after it, are at least that far apart.          *)

N == Cardinality(IA)

Apart == ~Late /\ \A a, b \in IA : IfaceOf[a] = IfaceOf[b] => a = b

\* T1, T2 and the lifetime follow each other, as a server should give them,
\* with a second for each IA before T2.
Spaced == \A o \in Offers : /\ N <= Chosen(o).t1 + 1
                            /\ Chosen(o).t1 + N <= Chosen(o).t2
                            /\ Chosen(o).t2 < Chosen(o).valid

\* A message belongs to the one address it renews, which is held, and T2 is ahead
\* of a RENEW.
Extends(m, ia) ==
  /\ m.ias = {ia}
  /\ ia \in held /\ cfg[ia] = "conf" /\ st[ia] = "inproc"
  /\ m.mrd + m.wait = IF m.type = "renew" THEN left[ia].t2 ELSE left[ia].valid
  /\ m.type = "renew" => left[ia].t2 < left[ia].valid

\* No IA has two messages, and the sleep does not outlast an RT.
MessageInv ==
  /\ \A m, n \in trans : m.ias \cap n.ias # {} => m = n
  /\ \A m \in trans : /\ \E ia \in IA : Extends(m, ia)
                      /\ at = "select" => sleep <= m.wait
                      /\ at \in {"expire", "solicit", "renew"} => m.wait > 0

\* The leases that are renewed before that of ia, if it has to wait for n seconds
Before(ia, n) == {j \in IA : j < ia /\ st[j] = "conf" /\ left[j].t1 <= n}

\* There are n seconds for ia to wait, and no more leases before it
Turn(ia, n) ==
  /\ n \in 0..(N - 1) /\ n < left[ia].t2
  /\ Cardinality(Before(ia, n)) <= n
  /\ at = "select" /\ sleep > 0 => Cardinality(Before(ia, n)) < n

\* T2 is ahead of a lease that is not being renewed, by enough to wait for its turn.
LeaseInv ==
  \A ia \in IA : st[ia] = "conf" =>
    /\ ia \in held /\ cfg[ia] = "conf" /\ left[ia].t2 < left[ia].valid
    /\ at = "select" => sleep <= left[ia].t1 \/ sleep <= 1
    /\ left[ia].t1 > 0 => left[ia].t1 + N <= left[ia].t2
    /\ left[ia].t1 = 0 => \E n \in 0..(N - 1) : Turn(ia, n)

TimedInv == TypeOK /\ MessageInv /\ LeaseInv

LEMMA Numbers ==
  ASSUME TypeOK
  PROVE  /\ sleep \in Nat
         /\ \A ia \in IA : left[ia].t1 \in Nat /\ left[ia].t2 \in Nat /\ left[ia].valid \in Nat
         /\ \A m \in trans : /\ m.mrd \in Nat /\ m.wait \in Nat /\ m.rt \in Nat
                             /\ m.type \in {"renew", "rebind"} /\ m.ias \in SUBSET IA /\ m.ias # {}
BY TimeAssumption DEF TypeOK, Times, Message

LEMMA CountIAs == N \in Nat /\ N > 0
<1>1. N \in Nat /\ N # 0
  BY IAAssumption, FS_CardinalityType, FS_EmptySet DEF N
<1> QED
  BY <1>1

\* Less than all IAs are before one of them, at any time.
LEMMA FewerIAs ==
  ASSUME NEW ia \in IA, NEW B, B \subseteq IA \ {ia}
  PROVE  IsFiniteSet(B) /\ Cardinality(B) \in Nat /\ Cardinality(B) <= N - 1
<1>1. IsFiniteSet(IA \ {ia}) /\ Cardinality(IA \ {ia}) = N - 1
  BY IAAssumption, FS_RemoveElement DEF N
<1> QED
  BY <1>1, FS_Subset, FS_CardinalityType

LEMMA BeforeAll ==
  ASSUME NEW ia \in IA
  PROVE  \A n : /\ IsFiniteSet(Before(ia, n)) /\ Cardinality(Before(ia, n)) \in Nat
                /\ Cardinality(Before(ia, n)) <= N - 1
                /\ Cardinality(Before(ia, n)') \in Nat
                /\ Cardinality(Before(ia, n)') <= N - 1
<1> TAKE n
<1>1. Before(ia, n) \subseteq IA \ {ia} /\ Before(ia, n)' \subseteq IA \ {ia}
  BY IAAssumption DEF Before
<1> QED
  BY <1>1, FewerIAs

LEMMA BeforeFewer ==
  ASSUME NEW ia \in IA, NEW n, Before(ia, n)' \subseteq Before(ia, n)
  PROVE  Cardinality(Before(ia, n)') <= Cardinality(Before(ia, n))
BY BeforeAll, FS_Subset

\* A step that configures nothing, with the same times, takes nobody's turn.
LEMMA LeasesKept ==
  ASSUME TimedInv, at' # "select" \/ UNCHANGED <<at, sleep>>,
         \A ia \in IA : st'[ia] = "conf" => /\ st[ia] = "conf" /\ left'[ia] = left[ia]
                                            /\ ia \in held' /\ cfg'[ia] = "conf"
  PROVE  LeaseInv'
<1> SUFFICES ASSUME NEW ia \in IA, st'[ia] = "conf"
             PROVE  /\ ia \in held' /\ cfg'[ia] = "conf" /\ left'[ia].t2 < left'[ia].valid
                    /\ at' = "select" => sleep' <= left'[ia].t1 \/ sleep' <= 1
                    /\ left'[ia].t1 > 0 => left'[ia].t1 + N <= left'[ia].t2
                    /\ left'[ia].t1 = 0 => \E n \in 0..(N - 1) : Turn(ia, n)'
  BY DEF LeaseInv, N
<1>1. /\ st[ia] = "conf" /\ left'[ia] = left[ia] /\ ia \in held' /\ cfg'[ia] = "conf"
      /\ left[ia].t2 < left[ia].valid
      /\ at = "select" => sleep <= left[ia].t1 \/ sleep <= 1
      /\ left[ia].t1 > 0 => left[ia].t1 + N <= left[ia].t2
  BY DEF TimedInv, LeaseInv
<1>2. ASSUME left[ia].t1 = 0
      PROVE  \E n \in 0..(N - 1) : Turn(ia, n)'
  <2>1. PICK n \in 0..(N - 1) : Turn(ia, n)
    BY <1>1, <1>2 DEF TimedInv, LeaseInv
  <2>2. Before(ia, n)' \subseteq Before(ia, n)
    BY DEF Before
  <2>3. /\ Cardinality(Before(ia, n)') <= Cardinality(Before(ia, n))
        /\ Cardinality(Before(ia, n)') \in Nat /\ Cardinality(Before(ia, n)) \in Nat
    BY <2>2, BeforeAll, BeforeFewer
  <2>4. Turn(ia, n)'
    BY <1>1, <2>1, <2>3, CountIAs DEF Turn, N
  <2> QED
    BY <2>4
<1> QED
  BY <1>1, <1>2

LEMMA TimedTick ==
  ASSUME TimedInv, Apart, Tick
  PROVE  (MessageInv /\ LeaseInv)'
<1>1. /\ sleep \in Nat /\ sleep > 0 /\ sleep' = sleep - 1
      /\ at = "select" /\ at' = "select" /\ UNCHANGED <<cfg, st, held>>
  BY Numbers DEF Tick, Apart, TimedInv, Less
<1>2. \A ia \in IA : /\ left'[ia].t1 = Less(left[ia].t1)
                     /\ left'[ia].t2 = Less(left[ia].t2)
                     /\ left'[ia].valid = Less(left[ia].valid)
  BY DEF Tick
<1>3. \A ia \in IA : left[ia].t1 \in Nat /\ left[ia].t2 \in Nat /\ left[ia].valid \in Nat
  BY Numbers DEF TimedInv
<1>4. LeaseInv'
  <2> SUFFICES ASSUME NEW ia \in IA, st[ia] = "conf"
               PROVE  /\ ia \in held /\ cfg[ia] = "conf" /\ left'[ia].t2 < left'[ia].valid
                      /\ sleep' <= left'[ia].t1 \/ sleep' <= 1
                      /\ left'[ia].t1 > 0 => left'[ia].t1 + N <= left'[ia].t2
                      /\ left'[ia].t1 = 0 => \E n \in 0..(N - 1) : Turn(ia, n)'
    BY <1>1 DEF LeaseInv, N
  <2>1. /\ ia \in held /\ cfg[ia] = "conf" /\ left[ia].t2 < left[ia].valid
        /\ sleep <= left[ia].t1 \/ sleep <= 1
        /\ left[ia].t1 > 0 => left[ia].t1 + N <= left[ia].t2
        /\ left[ia].t1 = 0 => \E n \in 0..(N - 1) : Turn(ia, n)
    BY <1>1 DEF TimedInv, LeaseInv
  <2>2. CASE left[ia].t1 > 1
    BY <1>1, <1>2, <1>3, <2>1, <2>2, CountIAs DEF Less
  <2>3. CASE left[ia].t1 = 1
    <3>1. sleep' = 0 /\ left'[ia].t1 = 0
      BY <1>1, <1>2, <2>1, <2>3 DEF Less
    <3>2. 1 + N <= left[ia].t2 /\ N - 1 < left'[ia].t2 /\ left'[ia].t2 < left'[ia].valid
      BY <1>2, <1>3, <2>1, <2>3, CountIAs DEF Less
    <3>3. Cardinality(Before(ia, N - 1)') <= N - 1
      BY BeforeAll
    <3>4. N - 1 \in 0..(N - 1)
      BY CountIAs
    <3>5. Turn(ia, N - 1)'
      BY <3>1, <3>2, <3>3, <3>4 DEF Turn, N
    <3> QED
      BY <2>1, <3>1, <3>2, <3>4, <3>5
  <2>4. CASE left[ia].t1 = 0
    <3>1. PICK n \in 0..(N - 1) : Turn(ia, n)
      BY <2>1, <2>4
    <3>2. Cardinality(Before(ia, n)) \in Nat /\ Cardinality(Before(ia, n)) < n /\ n < left[ia].t2
      BY <1>1, <3>1, BeforeAll DEF Turn
    <3>3. n \in Nat /\ n > 0 /\ n - 1 \in 0..(N - 1)
      BY <3>2, CountIAs
    <3>4. Before(ia, n - 1)' = Before(ia, n)
      <4>1. \A j \in IA : left'[j].t1 <= n - 1 <=> left[j].t1 <= n
        BY <1>2, <1>3, <3>3 DEF Less
      <4> QED
        BY <1>1, <4>1 DEF Before
    <3>5. n - 1 < left'[ia].t2 /\ left'[ia].t2 < left'[ia].valid /\ left'[ia].t1 = 0
      BY <1>2, <1>3, <2>1, <2>4, <3>2, <3>3 DEF Less
    <3>6. sleep' = 0
      BY <1>1, <2>1, <2>4
    <3>7. Turn(ia, n - 1)'
      BY <3>2, <3>3, <3>4, <3>5, <3>6 DEF Turn, N
    <3> QED
      BY <2>1, <3>3, <3>5, <3>6, <3>7
  <2> QED
    BY <1>3, <2>2, <2>3, <2>4
<1>5. ASSUME NEW m \in trans
      PROVE  /\ [m EXCEPT !.wait = Less(@)] = [type |-> m.type, ias |-> m.ias, mrd |-> m.mrd,
                                               rt |-> m.rt, wait |-> m.wait - 1]
             /\ m.wait > 0 /\ sleep <= m.wait /\ m.wait \in Nat /\ m.mrd \in Nat
  <2>1. sleep <= m.wait /\ m \in Message /\ m.wait \in Nat /\ m.mrd \in Nat
    BY <1>1, Numbers DEF TimedInv, MessageInv, TypeOK
  <2> QED
    BY <1>1, <2>1 DEF Less, Message
<1>6. ASSUME NEW m \in trans'
      PROVE  \E n \in trans : m = [type |-> n.type, ias |-> n.ias, mrd |-> n.mrd,
                                   rt |-> n.rt, wait |-> n.wait - 1]
  BY <1>5 DEF Tick
<1>7. ASSUME NEW m \in trans'
      PROVE  (\E ia \in IA : Extends(m, ia)') /\ sleep' <= m.wait
  <2>1. PICK n \in trans : m = [type |-> n.type, ias |-> n.ias, mrd |-> n.mrd,
                                rt |-> n.rt, wait |-> n.wait - 1]
    BY <1>6
  <2>2. PICK ia \in IA : Extends(n, ia)
    BY DEF TimedInv, MessageInv
  <2>3. n.wait > 0 /\ sleep <= n.wait /\ n.wait \in Nat /\ n.mrd \in Nat
    BY <1>5
  <2>4. /\ m.ias = {ia} /\ ia \in held' /\ cfg'[ia] = "conf" /\ st'[ia] = "inproc"
        /\ m.mrd + m.wait = IF m.type = "renew" THEN left'[ia].t2 ELSE left'[ia].valid
        /\ m.type = "renew" => left'[ia].t2 < left'[ia].valid
    BY <1>1, <1>2, <1>3, <2>1, <2>2, <2>3 DEF Extends, Less
  <2> QED
    BY <1>1, <2>1, <2>3, <2>4 DEF Extends
<1>8. ASSUME NEW m \in trans', NEW n \in trans', m.ias \cap n.ias # {}
      PROVE  m = n
  BY <1>6, <1>8 DEF TimedInv, MessageInv
<1>9. MessageInv'
  BY <1>1, <1>7, <1>8 DEF MessageInv
<1> QED
  BY <1>4, <1>9

\* The message of an IA is sent again, or becomes a REBIND at T2.
LEMMA TimedSent ==
  ASSUME TimedInv, NEW m \in trans, NEW ia \in IA, Extends(m, ia),
         NEW type \in {"renew", "rebind"}, NEW rt \in Nat, NEW mrd \in Nat, mrd > 0,
         mrd = (IF type = "renew" THEN left[ia].t2 ELSE left[ia].valid),
         type = "renew" => left[ia].t2 < left[ia].valid,
         NEW n \in Sent(type, {ia}, rt, mrd),
         trans' = (trans \ {m}) \cup {n}, UNCHANGED <<db, sleep, at>>, at = "messages"
  PROVE  (MessageInv /\ LeaseInv)'
<1>1. n.type = type /\ n.ias = {ia} /\ n.mrd + n.wait = mrd
  BY SentMessage
<1>2. UNCHANGED <<cfg, st, held, left>> /\ at' = "messages"
  BY DEF db
<1>3. Extends(n, ia)'
  BY <1>1, <1>2 DEF Extends
<1>4. m.ias = n.ias
  BY <1>1 DEF Extends
<1>5. \A x \in trans' : \E i \in IA : Extends(x, i)'
  <2>1. \A x \in trans : \E i \in IA : Extends(x, i)
    BY DEF TimedInv, MessageInv
  <2>2. \A x \in trans : \E i \in IA : Extends(x, i)'
    BY <1>2, <2>1 DEF Extends
  <2> QED
    BY <1>3, <2>2
<1>6. \A x, y \in trans' : x.ias \cap y.ias # {} => x = y
  BY <1>4 DEF TimedInv, MessageInv
<1>7. MessageInv'
  BY <1>2, <1>5, <1>6 DEF MessageInv
<1>8. LeaseInv'
  BY <1>2, LeasesKept DEF TimedInv, LeaseInv
<1> QED
  BY <1>7, <1>8

\* An answer, or the end of the search, gives IAs that are being renewed or
\* solicited their times.  Nobody's turn is later for it.
LEMMA LeasesConfigured ==
  ASSUME TimedInv, Spaced, NEW D \in SUBSET IA, NEW o \in [IA -> Offers],
         Configure(D, o), \A ia \in IA : st'[ia] = "conf" => cfg'[ia] = "conf",
         at' = "messages"
  PROVE  LeaseInv'
<1> SUFFICES ASSUME NEW ia \in IA, st'[ia] = "conf"
             PROVE  /\ ia \in held' /\ left'[ia].t2 < left'[ia].valid
                    /\ left'[ia].t1 > 0 => left'[ia].t1 + N <= left'[ia].t2
                    /\ left'[ia].t1 = 0 => \E n \in 0..(N - 1) : Turn(ia, n)'
  BY DEF LeaseInv, N
<1>1. \A j \in IA : /\ j \in D => N <= left'[j].t1 + 1 /\ left'[j].t1 + N <= left'[j].t2
                                  /\ left'[j].t2 < left'[j].valid /\ left'[j] \in Times
                    /\ j \notin D => st'[j] = st[j] /\ left'[j] = left[j]
  <2>1. \A j \in D : left'[j] = Chosen(o[j]) /\ o[j] \in Offers
    BY DEF Configure
  <2>2. \A j \in D : left'[j] \in Times
    BY <2>1, ChosenTimes
  <2>3. \A j \in IA \ D : st'[j] = st[j] /\ left'[j] = left[j]
    BY DEF Configure
  <2> QED
    BY <2>1, <2>2, <2>3 DEF Spaced
<1>2. held' = held \cup D
  BY DEF Configure
<1>3. \A n : Cardinality(Before(ia, n)') <= N - 1 /\ Cardinality(Before(ia, n)') \in Nat
  BY BeforeAll
<1>4. N \in Nat /\ N > 0 /\ N - 1 \in 0..(N - 1)
  BY CountIAs
<1>5. CASE ia \in D
  <2>1. left'[ia].t1 \in Nat /\ left'[ia].t2 \in Nat
    BY <1>1, <1>5 DEF Times
  <2>2. ASSUME left'[ia].t1 = 0
        PROVE  Turn(ia, N - 1)'
    <3>1. N - 1 < left'[ia].t2
      BY <1>1, <1>4, <1>5, <2>1, <2>2
    <3> QED
      BY <1>3, <1>4, <3>1 DEF Turn, N
  <2> QED
    BY <1>1, <1>2, <1>4, <1>5, <2>2
<1>6. CASE ia \notin D
  <2>1. st[ia] = "conf" /\ left'[ia] = left[ia]
    BY <1>1, <1>6
  <2>2. /\ ia \in held /\ left[ia].t2 < left[ia].valid
        /\ left[ia].t1 > 0 => left[ia].t1 + N <= left[ia].t2
        /\ left[ia].t1 = 0 => \E n \in 0..(N - 1) : Turn(ia, n)
    BY <2>1 DEF TimedInv, LeaseInv
  <2>3. ASSUME left[ia].t1 = 0
        PROVE  \E n \in 0..(N - 1) : Turn(ia, n)'
    <3>1. PICK n \in 0..(N - 1) : Turn(ia, n)
      BY <2>2, <2>3
    <3>2. Cardinality(Before(ia, n)') <= n
      <4>1. CASE n = N - 1
        BY <1>3, <4>1
      <4>2. CASE n < N - 1
        <5>1. \A j \in D : ~ (left'[j].t1 <= n)
          BY <1>1, <1>4, <4>2 DEF Times
        <5>2. Before(ia, n)' \subseteq Before(ia, n)
          BY <1>1, <5>1 DEF Before
        <5>3. Cardinality(Before(ia, n)) \in Nat /\ Cardinality(Before(ia, n)) <= n
          BY <3>1, BeforeAll DEF Turn
        <5>4. Cardinality(Before(ia, n)') <= Cardinality(Before(ia, n))
          BY <5>2, BeforeFewer
        <5> QED
          BY <1>3, <5>3, <5>4
      <4> QED
        BY <1>4, <4>1, <4>2
    <3>3. Turn(ia, n)'
      BY <2>1, <3>1, <3>2 DEF Turn, N
    <3> QED
      BY <3>3
  <2> QED
    BY <1>2, <2>1, <2>2, <2>3
<1> QED
  BY <1>5, <1>6

LEMMA TimedReceive ==
  ASSUME TimedInv, Spaced, Receive
  PROVE  (MessageInv /\ LeaseInv)'
<1>1. CASE Disturbed
  <2>1. UNCHANGED <<cfg, st, held, left, trans>> /\ at' = "messages"
    BY <1>1 DEF Disturbed, db
  <2>2. LeaseInv'
    BY <2>1, LeasesKept DEF TimedInv, LeaseInv
  <2>3. MessageInv'
    BY <2>1 DEF TimedInv, MessageInv, Extends
  <2> QED
    BY <2>2, <2>3
<1>2. ASSUME NEW D \in (SUBSET IA) \ {{}}, NEW o \in [IA -> Offers], Obtain(D, o)
      PROVE  (MessageInv /\ LeaseInv)'
  <2>1. /\ Configure(D, o) /\ at' = "messages" /\ trans' = trans
        /\ \A ia \in D : cfg[ia] = "inproc"
        /\ cfg' = [ia \in IA |-> IF ia \in D THEN "conf" ELSE cfg[ia]]
    BY <1>2 DEF Obtain
  <2>2. /\ held' = held \cup D
        /\ \A ia \in IA \ D : st'[ia] = st[ia] /\ left'[ia] = left[ia] /\ cfg'[ia] = cfg[ia]
        /\ \A ia \in D : cfg'[ia] = "conf"
    BY <2>1 DEF Configure
  <2>3. LeaseInv'
    <3>1. \A ia \in IA : st'[ia] = "conf" => cfg'[ia] = "conf"
      BY <2>2 DEF TimedInv, LeaseInv
    <3> QED
      BY <2>1, <3>1, LeasesConfigured
  <2>4. \A m \in trans, ia \in IA : Extends(m, ia) => Extends(m, ia)'
    BY <2>1, <2>2 DEF Extends
  <2>5. MessageInv'
    BY <2>1, <2>4 DEF TimedInv, MessageInv
  <2> QED
    BY <2>3, <2>5
<1>3. ASSUME NEW m \in trans, NEW o \in [IA -> Offers], NEW nobinding \in BOOLEAN,
             NEW D \in SUBSET m.ias, AnswerRenew(m, D, o, nobinding)
      PROVE  (MessageInv /\ LeaseInv)'
  <2>1. PICK a \in IA : Extends(m, a)
    BY DEF TimedInv, MessageInv
  <2>2. m.ias = {a} /\ st[a] = "inproc" /\ cfg[a] = "conf" /\ D \in SUBSET IA
    BY <2>1 DEF Extends
  <2>3. /\ Configure(D, o) /\ at' = "messages" /\ trans' = trans \ {m}
        /\ \A ia \in IA : /\ ia # a => cfg'[ia] = cfg[ia]
                          /\ ~nobinding => cfg'[a] = "conf"
        /\ nobinding => D = {}
    BY <1>3, <2>2 DEF AnswerRenew
  <2>4. /\ held' = held \cup D
        /\ \A ia \in IA : ia # a => st'[ia] = st[ia] /\ left'[ia] = left[ia]
        /\ D = {} => st'[a] = "inproc"
    BY <2>2, <2>3 DEF Configure
  <2>5. LeaseInv'
    <3>1. \A ia \in IA : st'[ia] = "conf" => cfg'[ia] = "conf"
      BY <2>3, <2>4 DEF TimedInv, LeaseInv
    <3> QED
      BY <2>2, <2>3, <3>1, LeasesConfigured
  <2>6. \A n \in trans', ia \in IA : Extends(n, ia) => ia # a /\ Extends(n, ia)'
    <3>1. ASSUME NEW n \in trans', NEW ia \in IA, Extends(n, ia)
          PROVE  ia # a
      <4>1. n \in trans /\ n # m
        BY <2>3
      <4>2. ia = a => n.ias \cap m.ias # {}
        BY <2>2, <3>1 DEF Extends
      <4> QED
        BY <4>1, <4>2 DEF TimedInv, MessageInv
    <3> QED
      BY <2>3, <2>4, <3>1 DEF Extends
  <2>7. MessageInv'
    BY <2>3, <2>6 DEF TimedInv, MessageInv
  <2> QED
    BY <2>5, <2>7
<1> QED
  BY <1>1, <1>2, <1>3 DEF Receive

LEMMA TimedMessages ==
  ASSUME TimedInv, NEW m \in trans, Resend(m) \/ Rebind(m) \/ GiveUp(m)
  PROVE  (MessageInv /\ LeaseInv)'
<1>1. PICK a \in IA : Extends(m, a)
  BY DEF TimedInv, MessageInv
<1>2. /\ m.wait = 0 /\ at = "messages"
      /\ m.ias = {a} /\ a \in held /\ cfg[a] = "conf" /\ st[a] = "inproc"
      /\ m.mrd + m.wait = IF m.type = "renew" THEN left[a].t2 ELSE left[a].valid
      /\ m.type = "renew" => left[a].t2 < left[a].valid
  BY <1>1 DEF Extends, Resend, Rebind, GiveUp, Due
<1>3. /\ m.mrd \in Nat /\ m.rt \in Nat /\ m.type \in {"renew", "rebind"}
      /\ left[a].t2 \in Nat /\ left[a].valid \in Nat
  BY Numbers DEF TimedInv
<1>4. CASE Resend(m)
  <2>1. PICK n \in Sent(m.type, {a}, m.rt, m.mrd) : trans' = (trans \ {m}) \cup {n}
    BY <1>2, <1>4 DEF Resend
  <2>2. UNCHANGED <<db, sleep, at>> /\ m.mrd > 0
    BY <1>4 DEF Resend
  <2>3. m.mrd = IF m.type = "renew" THEN left[a].t2 ELSE left[a].valid
    BY <1>2, <1>3
  <2> QED
    BY <1>1, <1>2, <1>3, <2>1, <2>2, <2>3, TimedSent
<1>5. CASE Rebind(m)
  <2>1. PICK n \in Sent("rebind", {a}, 0, Longest({a})) : trans' = (trans \ {m}) \cup {n}
    BY <1>2, <1>5 DEF Rebind
  <2>2. UNCHANGED <<db, sleep, at>> /\ m.type = "renew" /\ m.mrd = 0
    BY <1>5 DEF Rebind
  <2>3. left[a].t2 = 0 /\ left[a].valid > 0
    BY <1>2, <1>3, <2>2
  <2>4. Longest({a}) = left[a].valid
    <3>1. /\ Longest({a}) \in {0} \cup {left[ia].valid : ia \in {a} \cap held}
          /\ \A ia \in {a} \cap held : left[ia].valid <= Longest({a})
      BY LongestExists DEF TimedInv
    <3>2. {a} \cap held = {a}
      BY <1>2
    <3> QED
      BY <1>3, <2>3, <3>1, <3>2
  <2> QED
    BY <1>1, <1>2, <1>3, <2>1, <2>2, <2>3, <2>4, TimedSent
<1>6. CASE GiveUp(m)
  <2>1. /\ trans' = trans \ {m} /\ UNCHANGED <<left, sleep, at>> /\ held' = held \ {a}
        /\ st'[a] = "notconf"
        /\ \A ia \in IA : ia # a => st'[ia] = st[ia] /\ cfg'[ia] = cfg[ia]
    BY <1>2, <1>6 DEF GiveUp, TypeOK, TimedInv
  <2>2. LeaseInv'
    <3>1. \A ia \in IA : st'[ia] = "conf" => /\ st[ia] = "conf" /\ left'[ia] = left[ia]
                                             /\ ia \in held' /\ cfg'[ia] = "conf"
      BY <2>1 DEF TimedInv, LeaseInv
    <3> QED
      BY <2>1, <3>1, LeasesKept
  <2>3. \A n \in trans', ia \in IA : Extends(n, ia) => Extends(n, ia)'
    <3>1. ASSUME NEW n \in trans', NEW ia \in IA, Extends(n, ia)
          PROVE  ia # a
      <4>1. n \in trans /\ n # m
        BY <2>1
      <4>2. ia = a => n.ias \cap m.ias # {}
        BY <1>2, <3>1 DEF Extends
      <4> QED
        BY <4>1, <4>2 DEF TimedInv, MessageInv
    <3> QED
      BY <2>1, <3>1 DEF Extends
  <2>4. MessageInv'
    BY <1>2, <2>1, <2>3 DEF TimedInv, MessageInv
  <2> QED
    BY <2>2, <2>4
<1> QED
  BY <1>4, <1>5, <1>6

\* The first IA past T1 is renewed, and the others have a lease less before them.
LEMMA TimedCheckRenew ==
  ASSUME TimedInv, TypeOK', Apart, CheckRenew
  PROVE  (MessageInv /\ LeaseInv)'
<1>1. /\ at = "renew" /\ at' = "select" /\ UNCHANGED <<cfg, held, left>>
      /\ sleep' \in Nat /\ sleep' > 0
      /\ sleep' = 1 \/ \A n \in Timeouts(st', trans') : sleep' <= n
  BY SleepEnds DEF CheckRenew, TimedInv
<1>2. \A m \in trans' : m.wait \in Nat /\ (m.wait > 0 => sleep' <= m.wait)
  <2>1. \A m \in trans' : m.wait \in Nat
    BY DEF TypeOK, Message
  <2> QED
    BY <1>1, <2>1, LookedAt
<1>3. \A ia \in IA : st'[ia] = "conf" => sleep' <= left[ia].t1 \/ sleep' <= 1
  BY <1>1, LookedAt
<1>4. \A ia \in IA : left[ia].t1 \in Nat /\ left[ia].t2 \in Nat /\ left[ia].valid \in Nat
  BY Numbers DEF TimedInv
<1>5. CASE Aging = {}
  <2>1. UNCHANGED <<st, trans>>
    BY <1>5 DEF CheckRenew
  <2>2. \A ia \in IA : st[ia] = "conf" => left[ia].t1 # 0
    BY <1>5 DEF Aging
  <2>3. LeaseInv'
    BY <1>1, <1>3, <2>1, <2>2 DEF TimedInv, LeaseInv, N
  <2>4. \A m \in trans, ia \in IA : Extends(m, ia) => Extends(m, ia)'
    BY <1>1, <2>1 DEF Extends
  <2>5. MessageInv'
    BY <1>1, <1>2, <2>1, <2>4 DEF TimedInv, MessageInv
  <2> QED
    BY <2>3, <2>5
<1>6. CASE Aging # {}
  <2>1. PICK x \in IA : /\ x = Least(Aging) /\ st[x] = "conf" /\ left[x].t1 = 0
                        /\ \A ia \in Aging : x <= ia
    <3>1. Aging \subseteq Nat
      BY IAAssumption DEF Aging
    <3>2. Least(Aging) \in Aging /\ \A ia \in Aging : Least(Aging) <= ia
      BY <1>6, <3>1, LeastIsLeast
    <3> QED
      BY <3>2 DEF Aging
  <2>2. Group = {x} /\ Least(Group) = x
    <3>1. x \in Aging /\ Aging \subseteq IA
      BY <2>1 DEF Aging
    <3>2. Group = {x}
      BY <2>1, <3>1 DEF Group, Apart
    <3>3. {x} \subseteq Nat
      BY IAAssumption
    <3>4. Least({x}) \in {x}
      BY <3>3, LeastIsLeast
    <3> QED
      BY <3>2, <3>4
  <2>3. PICK n \in Sent("renew", {x}, 0, left[x].t2) : trans' = trans \cup {n}
    BY <1>6, <2>2 DEF CheckRenew
  <2>4. /\ st' = [ia \in IA |-> IF ia = x THEN "inproc" ELSE st[ia]]
    BY <1>6, <2>2 DEF CheckRenew
  <2>5. /\ cfg[x] = "conf" /\ x \in held /\ left[x].t2 > 0 /\ left[x].t2 < left[x].valid
    <3>1. PICK k \in 0..(N - 1) : Turn(x, k)
      BY <2>1 DEF TimedInv, LeaseInv
    <3>2. k \in Nat /\ k < left[x].t2
      BY <3>1, CountIAs DEF Turn
    <3> QED
      BY <1>4, <2>1, <3>2 DEF TimedInv, LeaseInv
  <2>6. n.type = "renew" /\ n.ias = {x} /\ n.wait > 0 /\ n.mrd + n.wait = left[x].t2
    BY <1>4, <2>3, <2>5, SentMessage
  <2>7. Extends(n, x)'
    BY <1>1, <2>4, <2>5, <2>6 DEF Extends
  <2>8. \A m \in trans, ia \in IA : Extends(m, ia) => ia # x /\ Extends(m, ia)'
    BY <1>1, <2>1, <2>4 DEF Extends
  <2>9. \A m \in trans : m.ias \cap n.ias = {}
    <3>1. \A m \in trans : \E ia \in IA : ia # x /\ m.ias = {ia}
      BY <2>8 DEF TimedInv, MessageInv, Extends
    <3> QED
      BY <2>6, <3>1
  <2>10. MessageInv'
    <3>1. \A m, k \in trans' : m.ias \cap k.ias # {} => m = k
      BY <2>3, <2>9 DEF TimedInv, MessageInv
    <3>2. \A m \in trans' : \E ia \in IA : Extends(m, ia)'
      BY <2>3, <2>7, <2>8 DEF TimedInv, MessageInv
    <3>3. \A m \in trans' : m.wait > 0
      BY <1>1, <2>3, <2>6 DEF TimedInv, MessageInv
    <3> QED
      BY <1>1, <1>2, <3>1, <3>2, <3>3 DEF MessageInv
  <2>11. LeaseInv'
    <3> SUFFICES ASSUME NEW ia \in IA, st'[ia] = "conf", left[ia].t1 = 0
                 PROVE  \E k \in 0..(N - 1) : Turn(ia, k)'
      BY <1>1, <1>3, <2>4 DEF TimedInv, LeaseInv, N
    <3>1. ia # x /\ st[ia] = "conf" /\ ia \in Aging
      BY <2>4 DEF Aging
    <3>2. x < ia
      BY <2>1, <3>1, IAAssumption
    <3>3. PICK k \in 0..(N - 1) : Turn(ia, k)
      BY <3>1 DEF TimedInv, LeaseInv
    <3>4. k \in Nat /\ x \in Before(ia, k)
      BY <2>1, <3>2, <3>3, CountIAs DEF Before
    <3>5. Before(ia, k)' = Before(ia, k) \ {x}
      BY <1>1, <2>4 DEF Before
    <3>6. Cardinality(Before(ia, k) \ {x}) = Cardinality(Before(ia, k)) - 1
      BY <3>4, BeforeAll, FS_RemoveElement
    <3>7. Cardinality(Before(ia, k)) \in Nat /\ Cardinality(Before(ia, k)) <= k
      BY <3>3, BeforeAll DEF Turn
    <3>8. Cardinality(Before(ia, k)') < k
      BY <3>4, <3>5, <3>6, <3>7
    <3>9. Turn(ia, k)'
      BY <1>1, <3>3, <3>4, <3>8, BeforeAll DEF Turn, N
    <3> QED
      BY <3>9
  <2> QED
    BY <2>10, <2>11
<1> QED
  BY <1>5, <1>6

LEMMA TimedPass ==
  ASSUME TimedInv, Wake \/ EndOfMessages \/ Expire \/ CheckSolicit
  PROVE  (MessageInv /\ LeaseInv)'
<1>1. CASE Wake \/ EndOfMessages
  <2>1. /\ UNCHANGED <<cfg, st, held, left, trans>> /\ at' \in {"messages", "expire"}
        /\ at' = "expire" => \A m \in trans : m.wait > 0
    BY <1>1 DEF Wake, EndOfMessages, db
  <2>2. LeaseInv'
    BY <2>1, LeasesKept DEF TimedInv, LeaseInv
  <2>3. MessageInv'
    BY <2>1 DEF TimedInv, MessageInv, Extends
  <2> QED
    BY <2>2, <2>3
<1>2. CASE Expire
  <2>1. /\ at = "expire" /\ at' = "solicit" /\ UNCHANGED <<left, trans>>
        /\ held' = held \ {ia \in held : left[ia].valid = 0}
        /\ \A ia \in IA : /\ left[ia].valid > 0 \/ ia \notin held => cfg'[ia] = cfg[ia]
                          /\ st'[ia] = st[ia] \/ st'[ia] = "notconf"
                          /\ ia \in held' => st'[ia] = st[ia]
    BY <1>2 DEF Expire
  <2>2. \A m \in trans, ia \in IA : Extends(m, ia) => Extends(m, ia)'
    <3>1. ASSUME NEW m \in trans, NEW ia \in IA, Extends(m, ia)
          PROVE  left[ia].valid > 0
      <4>1. m.wait > 0
        BY <2>1 DEF TimedInv, MessageInv
      <4> QED
        BY <3>1, <4>1, Numbers DEF TimedInv, Extends
    <3> QED
      BY <2>1, <3>1 DEF Extends
  <2>3. MessageInv'
    BY <2>1, <2>2 DEF TimedInv, MessageInv
  <2>4. \A ia \in IA : st[ia] = "conf" => left[ia].valid > 0
    BY Numbers DEF TimedInv, LeaseInv
  <2>5. LeaseInv'
    <3>1. \A ia \in IA : st'[ia] = "conf" => /\ st[ia] = "conf" /\ left'[ia] = left[ia]
                                             /\ ia \in held' /\ cfg'[ia] = "conf"
      BY <2>1, <2>4 DEF TimedInv, LeaseInv
    <3> QED
      BY <2>1, <3>1, LeasesKept
  <2> QED
    BY <2>3, <2>5
<1>3. CASE CheckSolicit
  <2>1. /\ at = "solicit" /\ at' = "renew" /\ UNCHANGED <<held, left, trans>>
        /\ \A ia \in IA : /\ cfg[ia] = "conf" => cfg'[ia] = "conf" /\ st'[ia] = st[ia]
                          /\ st'[ia] = st[ia] \/ st'[ia] = "inproc"
    BY <1>3 DEF CheckSolicit, TimedInv, TypeOK
  <2>2. LeaseInv'
    <3>1. \A ia \in IA : st'[ia] = "conf" => /\ st[ia] = "conf" /\ left'[ia] = left[ia]
                                             /\ ia \in held' /\ cfg'[ia] = "conf"
      BY <2>1 DEF TimedInv, LeaseInv
    <3> QED
      BY <2>1, <3>1, LeasesKept
  <2>3. \A m \in trans, ia \in IA : Extends(m, ia) => Extends(m, ia)'
    BY <2>1 DEF Extends
  <2>4. MessageInv'
    BY <2>1, <2>3 DEF TimedInv, MessageInv
  <2> QED
    BY <2>2, <2>4
<1> QED
  BY <1>1, <1>2, <1>3

LEMMA TimedStep ==
  ASSUME TimedInv, Apart, Spaced, [Next]_vars
  PROVE  TimedInv'
<1>1. TypeOK'
  BY TypeStep DEF TimedInv
<1>2. CASE UNCHANGED vars
  <2>1. UNCHANGED <<cfg, st, held, left, trans, sleep, at>>
    BY <1>2 DEF vars, db
  <2>2. LeaseInv'
    BY <2>1, LeasesKept DEF TimedInv, LeaseInv
  <2>3. MessageInv'
    BY <2>1 DEF TimedInv, MessageInv, Extends
  <2> QED
    BY <1>1, <2>2, <2>3 DEF TimedInv
<1>3. CASE Next
  BY <1>1, <1>3, TimedTick, TimedReceive, TimedMessages, TimedPass, TimedCheckRenew
     DEF Next, Pass, TimedInv
<1> QED
  BY <1>2, <1>3

LEMMA TimedInvariance ==
  ASSUME Apart, Spaced
  PROVE  Spec => []TimedInv
<1>1. Init => TimedInv
  BY TimeAssumption DEF Init, TimedInv, MessageInv, LeaseInv, TypeOK, State, Times
<1>2. TimedInv /\ [Next]_vars => TimedInv'
  BY TimedStep
<1> QED
  BY <1>1, <1>2, PTL DEF Spec

\* A RENEW is sent until T2 and a REBIND until the lease is over, to the
\* second, whatever the chance in RT, wherever MRT and MRD cut it, and however
\* many interfaces' leases the client has to renew one after the other.
THEOREM TimedByLeaseHolds == ASSUME Apart, Spaced PROVE Spec => []TimedByLease
<1>1. TimedInv => TimedByLease
  BY DEF TimedInv, MessageInv, Extends, TimedByLease
<1> QED
  BY <1>1, TimedInvariance, PTL

\* Nothing takes an address from its interface while it is valid.
THEOREM KeptWhileValidHolds == ASSUME Apart, Spaced PROVE Spec => KeptWhileValid
<1>1. ASSUME TimedInv, [Next]_vars, NEW ia \in held \ held'
      PROVE  left[ia].valid = 0
  <2>1. CASE Expire
    BY <1>1, <2>1 DEF Expire
  <2>2. ASSUME NEW m \in trans, GiveUp(m)
        PROVE  left[ia].valid = 0
    <3>1. PICK a \in IA : Extends(m, a)
      BY <1>1 DEF TimedInv, MessageInv
    <3>2. a = ia /\ m.type # "renew" /\ m.mrd = 0 /\ m.wait = 0
      BY <1>1, <2>2, <3>1 DEF GiveUp, Due, Extends
    <3> QED
      BY <3>1, <3>2 DEF Extends
  <2>3. CASE \/ Tick \/ Wake \/ EndOfMessages \/ CheckSolicit \/ CheckRenew \/ Receive
             \/ \E m \in trans : Resend(m) \/ Rebind(m)
             \/ UNCHANGED vars
    BY <1>1, <2>3 DEF Tick, Wake, EndOfMessages, CheckSolicit, CheckRenew, Receive, Disturbed,
                      Obtain, AnswerRenew, Configure, Resend, Rebind, vars, db
  <2> QED
    BY <1>1, <2>1, <2>2, <2>3 DEF Next, Pass
<1>2. TimedInv /\ [Next]_vars => [\A ia \in held \ held' : left[ia].valid = 0]_vars
  BY <1>1
<1> QED
  BY <1>2, TimedInvariance, PTL DEF Spec, KeptWhileValid

=============================================================================
