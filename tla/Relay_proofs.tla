--------------------------- MODULE Relay_proofs ---------------------------
(***************************************************************************)
(* An answer only ever travels links at which its next addressee is, in any *)
(* network of relays that do not guess.  The invariant says it of the whole *)
(* message: the levels of a question record the way it came, each by the    *)
(* relay that wrote it, and the levels of an answer the way back.  That the *)
(* server answers from the configuration of the client's link rests on the  *)
(* innermost of these levels, which the search looks at last.               *)
(***************************************************************************)
EXTENDS Relay, Least_proofs, FiniteSetTheorems, SequenceTheorems

AnyForwLevel == [hop : Nat, link : Ports, peer : Nodes, ifid : Ifaces \cup {NoId}]

\* Level i of a question was written by the node to which the level before it,
\* or the message, names as its sender
UpChain(m) ==
  /\ m.from \in Nodes /\ m.at \in Ports /\ m.levels \in Seq(AnyForwLevel) /\ m.q \in Questions
  /\ m.at \in Attached[m.from]
  /\ \A i \in DOMAIN m.levels :
       /\ m.levels[i].link \in Attached[m.levels[i].peer]
       /\ m.levels[i].ifid = IF m.levels[i].link[1] \in Omitting THEN NoId ELSE m.levels[i].link[2]
       /\ m.levels[i].link[1] = IF i = 1 THEN m.from ELSE m.levels[i - 1].peer
  /\ m.q[1] = IF m.levels = <<>> THEN m.from ELSE m.levels[Len(m.levels)].peer

DownChain(m) ==
  /\ m.to \in Nodes /\ m.levels \in Seq(ReplLevel) /\ m.q \in Questions
  /\ m.from \in Attached[m.to]
  /\ \A i \in DOMAIN m.levels :
       m.levels[i].ifid # NoId =>
         <<IF i = 1 THEN m.to ELSE m.levels[i - 1].peer, m.levels[i].ifid>>
            \in Attached[m.levels[i].peer]
  /\ \A i \in DOMAIN m.levels :
       (IF i = 1 THEN m.to ELSE m.levels[i - 1].peer) \in Relays
  /\ m.q[1] = IF m.levels = <<>> THEN m.to ELSE m.levels[Len(m.levels)].peer

\* The outermost level counts the levels within it
HopsCounted(m) == /\ m.levels # <<>> => m.levels[1].hop = Len(m.levels) - 1
                  /\ Len(m.levels) <= HopCountLimit + 1

UpInv == /\ asked \in [Clients -> Nat]
         /\ \A m \in up : UpChain(m) /\ HopsCounted(m)

ChainInv == UpInv /\ \A m \in down : DownChain(m)

\* A computed length is a number (TSrvMsg::send).
LEMMA LenFieldType ==
  ASSUME NEW levels \in Seq(AnyForwLevel), NEW i \in DOMAIN levels
  PROVE  LenField(levels, i) \in Nat
<1>1. Len(levels) \in Nat /\ i \in 1..Len(levels)
  BY LenProperties
<1>2. IsFiniteSet((i + 1)..Len(levels))
  BY <1>1, FS_Interval
<1>3. Marked(levels, i) \subseteq (i + 1)..Len(levels)
  BY DEF Marked
<1>4. IsFiniteSet(Marked(levels, i))
  BY <1>2, <1>3, FS_Subset
<1>5. Cardinality(Marked(levels, i)) \in Nat
  BY <1>4, FS_CardinalityType
<1> QED
  BY <1>1, <1>5 DEF LenField, HeaderSize, IdSize

\* An answer has as many levels as its question (TSrvMsg::storeSelfRelay).
LEMMA ReplLevelsType ==
  ASSUME NEW levels \in Seq(AnyForwLevel)
  PROVE  /\ ReplLevels(levels) \in Seq(ReplLevel)
         /\ DOMAIN ReplLevels(levels) = DOMAIN levels
         /\ Len(ReplLevels(levels)) = Len(levels)
<1> DEFINE ls == ReplLevels(levels)
<1>1. ASSUME NEW i \in DOMAIN levels
      PROVE  ls[i] \in ReplLevel
  <2>1. levels[i] \in AnyForwLevel
    BY ElementOfSeq, LenProperties
  <2>2. LenField(levels, i) \in Nat
    BY LenFieldType
  <2> QED
    BY <2>1, <2>2 DEF ReplLevels, ReplLevel, AnyForwLevel
<1>2. DOMAIN levels = 1..Len(levels) /\ Len(levels) \in Nat
  BY LenProperties
<1>3. ls \in [1..Len(levels) -> ReplLevel]
  BY <1>1, <1>2 DEF ReplLevels
<1> HIDE DEF ls
<1>4. ls \in Seq(ReplLevel) /\ Len(ls) = Len(levels)
  BY <1>2, <1>3, SeqDef
<1> QED
  BY <1>2, <1>3, <1>4 DEF ls

\* A relay writes a level that records where the message came from
\* (TRelTransMgr::relayMsg).
LEMMA ForwardChain ==
  ASSUME NEW m, UpChain(m), m.at[1] \in Relays, NEW p \in Attached[m.at[1]]
  PROVE  UpChain([from |-> m.at[1], at |-> p, levels |-> Encapsulate(m), q |-> m.q])
<1> DEFINE top == [hop |-> HopCount(m), link |-> m.at, peer |-> m.from,
                   ifid |-> IF m.at[1] \in Omitting THEN NoId ELSE m.at[2]]
           ls == <<top>> \o m.levels
<1>0. Encapsulate(m) = ls
  BY DEF Encapsulate
<1>1. m.from \in Nodes /\ m.at \in Ports /\ m.levels \in Seq(AnyForwLevel) /\ m.q \in Questions
  BY DEF UpChain
<1>2. HopCount(m) \in Nat
  <2>1. CASE m.levels = <<>>
    BY <2>1 DEF HopCount
  <2>2. CASE m.levels # <<>>
    <3>1. m.levels[1] \in AnyForwLevel
      BY <1>1, <2>2, ElementOfSeq, EmptySeq, LenProperties
    <3> QED
      BY <2>2, <3>1 DEF HopCount, AnyForwLevel
  <2> QED
    BY <2>1, <2>2
<1>3. m.at[2] \in Ifaces /\ m.at = <<m.at[1], m.at[2]>>
  BY <1>1 DEF Ports
<1>4. top \in AnyForwLevel
  BY <1>1, <1>2, <1>3 DEF AnyForwLevel
<1>5. ls \in Seq(AnyForwLevel) /\ Len(ls) = Len(m.levels) + 1 /\ ls[1] = top
      /\ \A i \in DOMAIN ls : i # 1 => i - 1 \in DOMAIN m.levels /\ ls[i] = m.levels[i - 1]
  <2> HIDE DEF top
  <2> QED
    BY <1>1, <1>4
<1>6. m.at[1] \in Nodes /\ p \in Ports /\ Attached[m.at[1]] \subseteq Ports
  BY RelayAssumption DEF Nodes
<1>7. m.at \in Attached[m.from]
  BY DEF UpChain
<1>8. ASSUME NEW i \in DOMAIN ls
      PROVE  /\ ls[i].link \in Attached[ls[i].peer]
             /\ ls[i].ifid = IF ls[i].link[1] \in Omitting THEN NoId ELSE ls[i].link[2]
             /\ ls[i].link[1] = IF i = 1 THEN m.at[1] ELSE ls[i - 1].peer
  <2>1. CASE i = 1
    BY <1>5, <1>7, <2>1
  <2>2. CASE i # 1
    <3> DEFINE j == i - 1
    <3>1. j \in DOMAIN m.levels /\ ls[i] = m.levels[j]
      BY <1>5, <2>2
    <3>2. /\ m.levels[j].link \in Attached[m.levels[j].peer]
          /\ m.levels[j].ifid = IF m.levels[j].link[1] \in Omitting THEN NoId
                                                                  ELSE m.levels[j].link[2]
          /\ m.levels[j].link[1] = IF j = 1 THEN m.from ELSE m.levels[j - 1].peer
      BY <3>1 DEF UpChain
    <3>3. i \in 1..Len(ls) /\ i - 1 \in DOMAIN ls
      BY <1>5, <2>2, LenProperties
    <3>4. ls[i - 1].peer = IF j = 1 THEN m.from ELSE m.levels[j - 1].peer
      BY <1>5, <3>3
    <3> QED
      BY <2>2, <3>1, <3>2, <3>4
  <2> QED
    BY <2>1, <2>2
<1>9. ls # <<>> /\ m.q[1] = ls[Len(ls)].peer
  <2>1. CASE m.levels = <<>>
    BY <1>5, <2>1 DEF UpChain
  <2>2. CASE m.levels # <<>>
    <3>1. Len(m.levels) \in Nat /\ Len(m.levels) # 0
      BY <1>1, <2>2, LenProperties, EmptySeq
    <3>2. ls[Len(ls)] = m.levels[Len(m.levels)]
      BY <1>5, <3>1, LenProperties
    <3> QED
      BY <1>5, <2>2, <3>2 DEF UpChain
  <2> QED
    BY <2>1, <2>2
<1> HIDE DEF ls
<1> QED
  BY <1>0, <1>1, <1>5, <1>6, <1>8, <1>9 DEF UpChain

\* The levels of an answer lead back where the levels of the question came from
\* (TSrvMsg::storeSelfRelay).
LEMMA ServeChain ==
  ASSUME NEW m, UpChain(m), m.levels # <<>>, NEW s
  PROVE  DownChain([from |-> m.at, to |-> m.from, levels |-> ReplLevels(m.levels),
                    q |-> m.q, subnet |-> s])
<1> DEFINE ls == ReplLevels(m.levels)
<1>1. m.from \in Nodes /\ m.at \in Ports /\ m.levels \in Seq(AnyForwLevel) /\ m.q \in Questions
  BY DEF UpChain
<1>2. /\ DOMAIN ls = DOMAIN m.levels /\ Len(ls) = Len(m.levels) /\ ls # <<>>
      /\ ls \in Seq(ReplLevel)
  <2> HIDE DEF ls
  <2> QED
    BY <1>1, ReplLevelsType, EmptySeq DEF ls
<1>3. ASSUME NEW i \in DOMAIN ls
      PROVE  /\ ls[i].peer = m.levels[i].peer
             /\ ls[i].ifid \in {NoId, m.levels[i].ifid}
  BY <1>2 DEF ReplLevels
<1>4. ASSUME NEW i \in DOMAIN ls, ls[i].ifid # NoId
      PROVE  <<IF i = 1 THEN m.from ELSE ls[i - 1].peer, ls[i].ifid>> \in Attached[ls[i].peer]
  <2>1. /\ m.levels[i].link \in Attached[m.levels[i].peer]
        /\ m.levels[i].ifid \in {NoId, m.levels[i].link[2]}
        /\ m.levels[i].link[1] = IF i = 1 THEN m.from ELSE m.levels[i - 1].peer
        /\ m.levels[i] \in AnyForwLevel
    BY <1>1, <1>2, ElementOfSeq, LenProperties DEF UpChain
  <2>2. ls[i].ifid = m.levels[i].link[2]
    BY <1>3, <1>4, <2>1
  <2>3. m.levels[i].link = <<m.levels[i].link[1], m.levels[i].link[2]>>
    BY <2>1 DEF AnyForwLevel, Ports
  <2>4. i # 1 => i - 1 \in DOMAIN ls
    BY <1>1, <1>2, LenProperties
  <2>5. m.levels[i].link[1] = IF i = 1 THEN m.from ELSE ls[i - 1].peer
    BY <1>3, <2>1, <2>4
  <2> HIDE DEF ls
  <2> QED
    BY <1>3, <2>1, <2>2, <2>3, <2>5
<1>9. ASSUME NEW i \in DOMAIN ls
      PROVE  (IF i = 1 THEN m.from ELSE ls[i - 1].peer) \in Relays
  <2>1. /\ m.levels[i].link[1] = IF i = 1 THEN m.from ELSE m.levels[i - 1].peer
        /\ m.levels[i] \in AnyForwLevel
    BY <1>1, <1>2, ElementOfSeq, LenProperties DEF UpChain
  <2>2. m.levels[i].link[1] \in Relays \cup {Server}
    BY <2>1 DEF AnyForwLevel, Ports
  <2>3. i # 1 => i - 1 \in DOMAIN ls /\ m.levels[i - 1] \in AnyForwLevel
    BY <1>1, <1>2, ElementOfSeq, LenProperties
  <2>4. m.levels[i].link[1] \in Nodes
    BY <1>1, <2>1, <2>3 DEF AnyForwLevel
  <2>5. m.levels[i].link[1] = IF i = 1 THEN m.from ELSE ls[i - 1].peer
    BY <1>3, <2>1, <2>3
  <2> HIDE DEF ls
  <2> QED
    BY <2>2, <2>4, <2>5, RelayAssumption
<1>5. m.q[1] = ls[Len(ls)].peer
  <2>1. Len(m.levels) \in DOMAIN ls
    BY <1>1, <1>2, LenProperties, EmptySeq
  <2> QED
    BY <1>2, <1>3, <2>1 DEF UpChain
<1>6. m.at \in Attached[m.from]
  BY DEF UpChain
<1>7. \A i \in DOMAIN ls : ls[i].ifid # NoId =>
        <<IF i = 1 THEN m.from ELSE ls[i - 1].peer, ls[i].ifid>> \in Attached[ls[i].peer]
  BY <1>4
<1> HIDE DEF ls
<1>8. SUFFICES DownChain([from |-> m.at, to |-> m.from, levels |-> ls, q |-> m.q, subnet |-> s])
  BY DEF ls
<1> QED
  BY <1>1, <1>2, <1>5, <1>6, <1>7, <1>9 DEF DownChain

\* A relay that does not guess sends what is inside where its own level says
\* (TRelTransMgr::relayMsgRepl).
LEMMA BackChain ==
  ASSUME NEW m, DownChain(m), m.to \in Relays, m.levels # <<>>,
         m.to \notin Guessing, DestIface(m) \in IfacesOf(m.to)
  PROVE  DownChain([from |-> <<m.to, DestIface(m)>>, to |-> Head(m.levels).peer,
                    levels |-> Inside(m), q |-> m.q, subnet |-> m.subnet])
<1> DEFINE top == Head(m.levels)
           ls == Tail(m.levels)
<1>1. m.to \in Nodes /\ m.levels \in Seq(ReplLevel) /\ m.q \in Questions
  BY DEF DownChain
<1>2. NoId \notin IfacesOf(m.to)
  <2>1. \A n \in Nodes : Attached[n] \subseteq (Relays \cup {Server}) \X Ifaces
    BY RelayAssumption DEF Ports
  <2>2. IfacesOf(m.to) \subseteq Ifaces
    BY <2>1 DEF IfacesOf
  <2> QED
    BY <2>2, RelayAssumption
<1>3. ~ Swallowed(m) /\ DestIface(m) = top.ifid /\ top.ifid # NoId
  BY <1>2 DEF DestIface
<1>4. Inside(m) = ls
  BY <1>3 DEF Inside
<1>5. /\ top = m.levels[1] /\ top \in ReplLevel /\ 1 \in DOMAIN m.levels
      /\ ls \in Seq(ReplLevel) /\ Len(ls) = Len(m.levels) - 1
      /\ \A i \in DOMAIN ls : i + 1 \in DOMAIN m.levels /\ ls[i] = m.levels[i + 1]
      /\ DOMAIN ls = 1..Len(ls) /\ Len(ls) \in Nat
  BY <1>1
<1>10. \A k \in DOMAIN m.levels :
         m.levels[k].ifid # NoId =>
           <<IF k = 1 THEN m.to ELSE m.levels[k - 1].peer, m.levels[k].ifid>>
             \in Attached[m.levels[k].peer]
  BY DEF DownChain
<1>6. <<m.to, top.ifid>> \in Attached[top.peer]
  BY <1>3, <1>5 DEF DownChain
<1>7. ASSUME NEW i \in DOMAIN ls, ls[i].ifid # NoId
      PROVE  <<IF i = 1 THEN top.peer ELSE ls[i - 1].peer, ls[i].ifid>> \in Attached[ls[i].peer]
  <2> DEFINE k == i + 1
  <2>0. k \in DOMAIN m.levels /\ ls[i] = m.levels[k] /\ m.levels[k].ifid # NoId
    BY <1>5, <1>7
  <2>2. k # 1 /\ k - 1 = i
    BY <1>5
  <2> HIDE DEF k, ls, top
  <2>1. <<m.levels[i].peer, m.levels[k].ifid>> \in Attached[m.levels[k].peer]
    BY <1>10, <2>0, <2>2
  <2> USE DEF ls, top
  <2>3. m.levels[i].peer = IF i = 1 THEN top.peer ELSE ls[i - 1].peer
    <3>1. CASE i = 1
      BY <1>5, <3>1
    <3>2. CASE i # 1
      <4>1. i - 1 \in DOMAIN ls /\ i - 1 + 1 = i
        BY <1>5, <3>2
      <4> QED
        BY <1>5, <3>2, <4>1
    <3> QED
      BY <3>1, <3>2
  <2> HIDE DEF top, ls
  <2> QED
    BY <2>0, <2>1, <2>3
<1>8. m.q[1] = IF ls = <<>> THEN top.peer ELSE ls[Len(ls)].peer
  <2>1. m.q[1] = m.levels[Len(m.levels)].peer
    BY DEF DownChain
  <2>2. CASE ls = <<>>
    <3>2. Len(m.levels) \in Nat
      BY <1>1, LenProperties
    <3> HIDE DEF ls
    <3>1. Len(ls) = 0
      BY <1>5, <2>2, EmptySeq
    <3>3. Len(m.levels) = 1
      BY <1>5, <3>1, <3>2
    <3> QED
      BY <1>5, <2>1, <2>2, <3>3
  <2>3. CASE ls # <<>>
    <3>1. Len(ls) \in DOMAIN ls
      BY <1>5, <2>3, EmptySeq
    <3>2. Len(ls) + 1 = Len(m.levels)
      BY <1>1, <1>5, LenProperties
    <3> QED
      BY <1>5, <2>1, <2>3, <3>1, <3>2
  <2> QED
    BY <2>2, <2>3
<1>9. top.peer \in Nodes
  BY <1>5 DEF ReplLevel
<1>11. ASSUME NEW i \in DOMAIN ls
       PROVE  (IF i = 1 THEN top.peer ELSE ls[i - 1].peer) \in Relays
  <2> DEFINE k == i + 1
  <2>1. k \in DOMAIN m.levels /\ k # 1 /\ k - 1 = i
    BY <1>5
  <2>0. \A j \in DOMAIN m.levels : (IF j = 1 THEN m.to ELSE m.levels[j - 1].peer) \in Relays
    BY DEF DownChain
  <2> HIDE DEF k, ls, top
  <2>2. m.levels[i].peer \in Relays
    BY <2>0, <2>1
  <2> USE DEF ls, top
  <2>3. CASE i = 1
    BY <1>5, <2>2, <2>3
  <2>4. CASE i # 1
    <3>1. i - 1 \in DOMAIN ls /\ i - 1 + 1 = i
      BY <1>5, <2>4
    <3> QED
      BY <1>5, <2>2, <2>4, <3>1
  <2> QED
    BY <2>3, <2>4
<1>12. /\ \A i \in DOMAIN ls : ls[i].ifid # NoId =>
            <<IF i = 1 THEN top.peer ELSE ls[i - 1].peer, ls[i].ifid>> \in Attached[ls[i].peer]
       /\ \A i \in DOMAIN ls : (IF i = 1 THEN top.peer ELSE ls[i - 1].peer) \in Relays
       /\ ls \in Seq(ReplLevel)
  BY <1>5, <1>7, <1>11
<1>13. SUFFICES DownChain([from |-> <<m.to, top.ifid>>, to |-> top.peer,
                           levels |-> ls, q |-> m.q, subnet |-> m.subnet])
  BY <1>3, <1>4
<1> HIDE DEF top, ls
<1> QED
  BY <1>1, <1>6, <1>8, <1>9, <1>12 DEF DownChain

\* The hop count of what a relay receives is the number of relays so far, less one,
\* so a message that is still decoded may go through one more (TRelTransMgr::relayMsg).
LEMMA ForwardHops ==
  ASSUME NEW m, UpChain(m), HopsCounted(m), Decodable(m), NEW p
  PROVE  HopsCounted([from |-> m.at[1], at |-> p, levels |-> Encapsulate(m), q |-> m.q])
<1> DEFINE top == [hop |-> HopCount(m), link |-> m.at, peer |-> m.from,
                   ifid |-> IF m.at[1] \in Omitting THEN NoId ELSE m.at[2]]
           ls == <<top>> \o m.levels
<1>1. Encapsulate(m) = ls
  BY DEF Encapsulate
<1>2. m.levels \in Seq(AnyForwLevel) /\ Len(m.levels) \in Nat
  BY LenProperties DEF UpChain
<1>3. Len(ls) = Len(m.levels) + 1 /\ ls[1] = top
  <2> HIDE DEF top
  <2> QED
    BY <1>2
<1>4. HopCount(m) = Len(m.levels) /\ Len(m.levels) <= HopCountLimit
  <2>1. HopCountLimit \in Nat
    BY RelayAssumption
  <2>2. CASE m.levels = <<>>
    BY <1>2, <2>1, <2>2, EmptySeq DEF HopCount
  <2>3. CASE m.levels # <<>>
    BY <1>2, <2>1, <2>3 DEF HopCount, HopsCounted, Decodable
  <2> QED
    BY <2>2, <2>3
<1>5. HopCountLimit \in Nat /\ top.hop = HopCount(m)
  BY RelayAssumption
<1> HIDE DEF ls, top
<1> QED
  BY <1>1, <1>2, <1>3, <1>4, <1>5 DEF HopsCounted

\* Only clients and relays put questions on their way.
LEMMA UpStep ==
  ASSUME UpInv, [Next]_vars
  PROVE  UpInv'
<1>1. ASSUME NEW c \in Clients, Ask(c)
      PROVE  UpInv'
  <2>1. asked' \in [Clients -> Nat]
    BY <1>1 DEF Ask, UpInv
  <2>2. <<c, asked[c] + 1>> \in Questions
    BY <1>1, RelayAssumption DEF Ask, UpInv, Questions
  <2>3. c \in Nodes /\ Attached[c] \subseteq Ports /\ HopCountLimit \in Nat
    BY RelayAssumption DEF Nodes
  <2>4. <<>> \in Seq(AnyForwLevel) /\ DOMAIN <<>> = {} /\ Len(<<>>) = 0
    BY EmptySeq
  <2>5. ASSUME NEW p \in Attached[c]
        PROVE  LET m == [from |-> c, at |-> p, levels |-> <<>>, q |-> <<c, asked[c] + 1>>]
               IN UpChain(m) /\ HopsCounted(m)
    BY <2>2, <2>3, <2>4 DEF UpChain, HopsCounted
  <2>6. \A m \in SentUp(c, <<>>, <<c, asked[c] + 1>>) : UpChain(m) /\ HopsCounted(m)
    BY <2>5 DEF SentUp
  <2> QED
    BY <1>1, <2>1, <2>6 DEF Ask, UpInv
<1>2. ASSUME NEW m \in up, Forward(m)
      PROVE  UpInv'
  <2>1. UpChain(m) /\ HopsCounted(m) /\ Decodable(m) /\ m.at[1] \in Relays
    BY <1>2 DEF Forward, AtRelay, UpInv
  <2>2. \A p \in Attached[m.at[1]] :
          LET x == [from |-> m.at[1], at |-> p, levels |-> Encapsulate(m), q |-> m.q]
          IN UpChain(x) /\ HopsCounted(x)
    BY <2>1, ForwardChain, ForwardHops
  <2>3. \A x \in SentUp(m.at[1], Encapsulate(m), m.q) : UpChain(x) /\ HopsCounted(x)
    BY <2>2 DEF SentUp
  <2> QED
    BY <1>2, <2>3 DEF Forward, UpInv
<1>3. ASSUME up' \subseteq up, asked' = asked
      PROVE  UpInv'
  BY <1>3 DEF UpInv
<1>4. ASSUME NEW m \in up, ForwardUndecoded(m) \/ Serve(m)
      PROVE  UpInv'
  BY <1>3, <1>4 DEF ForwardUndecoded, Serve
<1>5. ASSUME NEW m \in down, Back(m) \/ Receive(m)
      PROVE  UpInv'
  BY <1>3, <1>5 DEF Back, Receive
<1>6. ASSUME NEW m \in up \cup down, Lose(m)
      PROVE  UpInv'
  BY <1>3, <1>6 DEF Lose
<1>7. CASE UNCHANGED vars
  BY <1>3, <1>7 DEF vars
<1> QED
  BY <1>1, <1>2, <1>4, <1>5, <1>6, <1>7 DEF Next, Deliver

LEMMA UpInit == Init => UpInv
<1> QED
  BY DEF Init, UpInv

\* The server adds answers, relays that do not guess pass them on.
LEMMA ChainStep ==
  ASSUME Guessing = {}, ChainInv, [Next]_vars
  PROVE  ChainInv'
<1>1. UpInv'
  BY UpStep DEF ChainInv
<1>2. ASSUME NEW m \in up, Serve(m)
      PROVE  \A x \in down' : DownChain(x)
  <2> DEFINE s == ChosenSubnet(m.levels)
             reply == [from |-> m.at, to |-> m.from, levels |-> ReplLevels(m.levels),
                       q |-> m.q, subnet |-> s]
  <2>1. UpChain(m) /\ m.levels # <<>>
    BY <1>2 DEF Serve, ChainInv, UpInv
  <2> HIDE DEF s
  <2>2. DownChain(reply)
    BY <2>1, ServeChain
  <2>3. down' \subseteq down \cup {reply}
    BY <1>2 DEF Serve, s
  <2> QED
    BY <2>2, <2>3 DEF ChainInv
<1>3. ASSUME NEW m \in down, Back(m)
      PROVE  \A x \in down' : DownChain(x)
  <2> DEFINE inner == [from |-> <<m.to, DestIface(m)>>, to |-> Head(m.levels).peer,
                       levels |-> Inside(m), q |-> m.q, subnet |-> m.subnet]
  <2>1. DownChain(m) /\ m.to \in Relays /\ m.levels # <<>>
    BY <1>3 DEF Back, ChainInv
  <2>2. DestIface(m) \in IfacesOf(m.to) => DownChain(inner)
    BY <2>1, BackChain
  <2>3. \A x \in down' : x \in down \/ (DestIface(m) \in IfacesOf(m.to) /\ x = inner)
    BY <1>3 DEF Back
  <2> QED
    BY <2>2, <2>3 DEF ChainInv
<1>4. ASSUME down' \subseteq down
      PROVE  \A x \in down' : DownChain(x)
  BY <1>4 DEF ChainInv
<1>5. \A x \in down' : DownChain(x)
  BY <1>2, <1>3, <1>4
     DEF Next, Deliver, Ask, Forward, ForwardUndecoded, Receive, Lose, vars
<1> QED
  BY <1>1, <1>5 DEF ChainInv

LEMMA ChainHome == ChainInv => ComesHome
<1> SUFFICES ASSUME ChainInv, NEW m \in down
             PROVE  /\ Reaches(m)
                    /\ m.levels = <<>> => m.to = m.q[1]
                    /\ m.to \in Clients => m.levels = <<>>
  BY DEF ComesHome
<1>1. DownChain(m)
  BY DEF ChainInv
<1>2. m.levels # <<>> => m.to \in Relays
  <2>1. m.levels # <<>> => 1 \in DOMAIN m.levels
    BY <1>1, EmptySeq, LenProperties DEF DownChain
  <2> QED
    BY <1>1, <2>1 DEF DownChain
<1> QED
  BY <1>1, <1>2, RelayAssumption DEF DownChain, Reaches

\* Where no relay guesses, every answer is sent only on links at which its next
\* addressee is, and reaches a client only as the answer the client asked for, whatever the network, the
\* orders of options and the omitted interface-ids (TRelTransMgr::relayMsgRepl).
THEOREM ComesHomeHolds ==
  ASSUME Guessing = {}
  PROVE  Spec => []ComesHome
<1>1. Init => ChainInv
  BY UpInit DEF ChainInv, Init
<1>2. ChainInv /\ [Next]_vars => ChainInv'
  BY ChainStep
<1>3. ChainInv => ComesHome
  BY ChainHome
<1> QED
  BY <1>1, <1>2, <1>3, PTL DEF Spec

\* No message passes more relays than the limit allows, in any network, circles
\* included: each relay counts on from the count it decoded, and decodes no count
\* at the limit (TRelTransMgr::relayMsg, TRelMsgRelayForw::TRelMsgRelayForw).
THEOREM HopsBoundedHolds == Spec => []HopsBounded
<1>1. UpInv => HopsBounded
  BY DEF UpInv, HopsCounted, HopsBounded
<1>2. Init => UpInv
  BY UpInit
<1>3. UpInv /\ [Next]_vars => UpInv'
  BY UpStep
<1> QED
  BY <1>1, <1>2, <1>3, PTL DEF Spec

(***************************************************************************)
(* The server's search for the link of the client.                          *)
(***************************************************************************)
\* What the search has found after each level, the outermost first.
FoundUpTo(found, levels, n) ==
  found = [i \in 0..n |-> IF i = 0 THEN NoSubnet ELSE SelectSubnet(found[i - 1], levels[i])]

\* The search goes over any number of levels (TSrvIfaceMgr::decodeRelayForw).
LEMMA SearchDefined ==
  ASSUME NEW levels
  PROVE  \A n \in Nat : \E found : FoundUpTo(found, levels, n)
<1> DEFINE Stuck == {n \in Nat : ~ \E found : FoundUpTo(found, levels, n)}
<1>1. SUFFICES ASSUME Stuck # {}
               PROVE  FALSE
  OBVIOUS
<1>2. PICK n \in Stuck : \A k \in Stuck : n <= k
  BY <1>1, LeastExists
<1>3. n \in Nat /\ ~ \E found : FoundUpTo(found, levels, n)
  OBVIOUS
<1>4. CASE n = 0
  <2> DEFINE none == [i \in 0..0 |-> NoSubnet]
  <2>1. none = [i \in 0..0 |-> IF i = 0 THEN NoSubnet ELSE SelectSubnet(none[i - 1], levels[i])]
    OBVIOUS
  <2> QED
    BY <1>3, <1>4, <2>1 DEF FoundUpTo
<1>5. CASE n # 0
  <2>1. n - 1 \in Nat /\ ~ (n <= n - 1)
    BY <1>3, <1>5
  <2>2. n - 1 \notin Stuck
    BY <1>2, <2>1
  <2>3. PICK f : FoundUpTo(f, levels, n - 1)
    BY <2>1, <2>2
  <2> DEFINE g == [i \in 0..n |-> IF i = n THEN SelectSubnet(f[n - 1], levels[n]) ELSE f[i]]
  <2>4. ASSUME NEW i \in 0..n
        PROVE  g[i] = IF i = 0 THEN NoSubnet ELSE SelectSubnet(g[i - 1], levels[i])
    <3>1. CASE i = n
      <4>1. n - 1 \in 0..n /\ n - 1 # n /\ n # 0
        BY <1>3, <1>5
      <4> QED
        BY <3>1, <4>1
    <3>2. CASE i # n
      <4>1. i \in 0..(n - 1) /\ (i # 0 => i - 1 \in 0..n /\ i - 1 # n)
        BY <1>3, <3>2
      <4>2. f[i] = IF i = 0 THEN NoSubnet ELSE SelectSubnet(f[i - 1], levels[i])
        BY <2>3, <4>1 DEF FoundUpTo
      <4>3. g[i] = f[i] /\ (i # 0 => g[i - 1] = f[i - 1])
        BY <3>2, <4>1
      <4> QED
        BY <4>2, <4>3
    <3> QED
      BY <3>1, <3>2
  <2>5. g = [i \in 0..n |-> g[i]]
    OBVIOUS
  <2> HIDE DEF g
  <2>6. FoundUpTo(g, levels, n)
    BY <2>4, <2>5 DEF FoundUpTo
  <2> QED
    BY <1>3, <2>6
<1> QED
  BY <1>4, <1>5

LEMMA ChosenIsFound ==
  ASSUME NEW levels, Len(levels) \in Nat
  PROVE  \E found : /\ FoundUpTo(found, levels, Len(levels))
                    /\ ChosenSubnet(levels) = found[Len(levels)]
<1> DEFINE f == CHOOSE found : FoundUpTo(found, levels, Len(levels))
<1>1. FoundUpTo(f, levels, Len(levels))
  BY SearchDefined
<1>2. ChosenSubnet(levels) = f[Len(levels)]
  BY DEF ChosenSubnet, FoundUpTo
<1> HIDE DEF f
<1> QED
  BY <1>1, <1>2

LEMMA SelectSubnetType ==
  ASSUME NEW found \in Subnets \cup {NoSubnet}, NEW level \in AnyForwLevel
  PROVE  SelectSubnet(found, level) \in Subnets \cup {NoSubnet}
BY RelayAssumption DEF SelectSubnet, AnyForwLevel

\* The search ends at a configured subnet or at none.
LEMMA ChosenSubnetType ==
  ASSUME NEW levels \in Seq(AnyForwLevel)
  PROVE  ChosenSubnet(levels) \in Subnets \cup {NoSubnet}
<1>1. Len(levels) \in Nat /\ DOMAIN levels = 1..Len(levels)
  BY LenProperties
<1>2. PICK found : /\ FoundUpTo(found, levels, Len(levels))
                   /\ ChosenSubnet(levels) = found[Len(levels)]
  BY <1>1, ChosenIsFound
<1> DEFINE Wrong == {n \in 0..Len(levels) : found[n] \notin Subnets \cup {NoSubnet}}
<1>3. SUFFICES ASSUME Wrong # {}
               PROVE  FALSE
  BY <1>1, <1>2
<1>4. PICK n \in Wrong : \A k \in Wrong : n <= k
  <2>1. Wrong \subseteq Nat
    BY <1>1
  <2> HIDE DEF Wrong
  <2> QED
    BY <1>3, <2>1, LeastExists
<1>5. n \in 0..Len(levels) /\ found[n] \notin Subnets \cup {NoSubnet}
  OBVIOUS
<1>6. found[n] = IF n = 0 THEN NoSubnet ELSE SelectSubnet(found[n - 1], levels[n])
  BY <1>2, <1>5 DEF FoundUpTo
<1>7. n # 0
  BY <1>5, <1>6
<1>8. n - 1 \in 0..Len(levels) /\ ~ (n <= n - 1) /\ n \in DOMAIN levels
  BY <1>1, <1>5, <1>7
<1>9. found[n - 1] \in Subnets \cup {NoSubnet}
  BY <1>4, <1>8
<1>10. levels[n] \in AnyForwLevel
  BY <1>8, ElementOfSeq, <1>1
<1> QED
  BY <1>5, <1>6, <1>7, <1>9, <1>10, SelectSubnetType

\* The innermost level decides: it names the interface a client is at, unless its
\* relay omits the interface-id (TSrvIfaceMgr::decodeRelayForw).
LEMMA InnermostDecides ==
  ASSUME NEW m, UpChain(m), m.levels # <<>>, m.q[1] \in Clients,
         AnyRelay = NoSubnet,
         \A c \in Clients : \A p \in Attached[c] : p[1] \notin Omitting,
         ChosenSubnet(m.levels) # NoSubnet
  PROVE  \E p \in Attached[m.q[1]] : ChosenSubnet(m.levels) \in {SubnetOfId[p[2]], SubnetOfLink[p]}
<1> DEFINE n == Len(m.levels)
           last == m.levels[n]
<1>1. m.levels \in Seq(AnyForwLevel) /\ n \in Nat \ {0} /\ n \in DOMAIN m.levels
  BY EmptySeq, LenProperties DEF UpChain
<1>2. /\ last.link \in Attached[last.peer] /\ last \in AnyForwLevel
      /\ last.ifid = IF last.link[1] \in Omitting THEN NoId ELSE last.link[2]
      /\ m.q[1] = last.peer
  BY <1>1, ElementOfSeq, LenProperties DEF UpChain
<1>3. last.link[1] \notin Omitting /\ last.link[2] \in Ifaces /\ NoId \notin Ifaces
  BY <1>2, RelayAssumption DEF AnyForwLevel, Ports
<1>4. last.ifid = last.link[2] /\ last.ifid # NoId
  BY <1>2, <1>3
<1>5. PICK found : /\ FoundUpTo(found, m.levels, n)
                   /\ ChosenSubnet(m.levels) = found[n]
  BY <1>1, ChosenIsFound
<1>6. ChosenSubnet(m.levels) = SelectSubnet(found[n - 1], last)
  <2>1. n \in 0..n /\ n # 0
    BY <1>1
  <2> HIDE DEF n
  <2>2. found[n] = IF n = 0 THEN NoSubnet ELSE SelectSubnet(found[n - 1], m.levels[n])
    BY <1>5, <2>1 DEF FoundUpTo
  <2> QED
    BY <1>5, <2>1, <2>2
<1>7. SelectSubnet(found[n - 1], last) \in
        {SubnetOfId[last.link[2]], SubnetOfLink[last.link], NoSubnet}
  <2> HIDE DEF last, n
  <2> QED
    BY <1>4 DEF SelectSubnet
<1> HIDE DEF last, n
<1> QED
  BY <1>2, <1>6, <1>7

(***************************************************************************)
(* Type correctness.                                                        *)
(***************************************************************************)
TypeInv == TypeOK /\ UpInv

LEMMA ForwIsAny == ForwLevel \subseteq AnyForwLevel
BY RelayAssumption DEF ForwLevel, AnyForwLevel

\* A relay continues a hop count below the limit (TRelTransMgr::relayMsg).
LEMMA EncapsulateType ==
  ASSUME NEW m \in UpMsg, Decodable(m)
  PROVE  Encapsulate(m) \in Seq(ForwLevel)
<1> DEFINE top == [hop |-> HopCount(m), link |-> m.at, peer |-> m.from,
                   ifid |-> IF m.at[1] \in Omitting THEN NoId ELSE m.at[2]]
<1>1. m.from \in Nodes /\ m.at \in Ports /\ m.levels \in Seq(ForwLevel) /\ m.at[2] \in Ifaces
  BY DEF UpMsg, Ports
<1>2. HopCount(m) \in 0..HopCountLimit
  <2>1. HopCountLimit \in Nat
    BY RelayAssumption
  <2>2. CASE m.levels = <<>>
    BY <2>1, <2>2 DEF HopCount
  <2>3. CASE m.levels # <<>>
    <3>1. m.levels[1] \in ForwLevel
      BY <1>1, <2>3, ElementOfSeq, EmptySeq, LenProperties
    <3>2. m.levels[1].hop \in 0..HopCountLimit
      BY <3>1 DEF ForwLevel
    <3> QED
      BY <2>1, <2>3, <3>2 DEF HopCount, Decodable
  <2> QED
    BY <2>2, <2>3
<1>3. top \in ForwLevel
  BY <1>1, <1>2 DEF ForwLevel
<1> HIDE DEF top
<1>4. <<top>> \o m.levels \in Seq(ForwLevel)
  BY <1>1, <1>3
<1> QED
  BY <1>4 DEF Encapsulate, top

\* What is inside an answer is an answer, also if it takes in an interface-id
\* (TRelTransMgr::relayMsgRepl).
LEMMA InsideType ==
  ASSUME NEW m \in DownMsg, m.levels # <<>>
  PROVE  Inside(m) \in Seq(ReplLevel) /\ Head(m.levels) \in ReplLevel
<1> DEFINE ls == Tail(m.levels)
           top == Head(m.levels)
           taken == [ls EXCEPT ![1].ifid = top.ifid]
<1>1. m.levels \in Seq(ReplLevel)
  BY DEF DownMsg
<1>2. ls \in Seq(ReplLevel) /\ top \in ReplLevel
  BY <1>1
<1>3. taken \in Seq(ReplLevel)
  <2> HIDE DEF ls, top
  <2>1. DOMAIN ls = 1..Len(ls) /\ Len(ls) \in Nat
    BY <1>2, LenProperties
  <2>2. top.ifid \in Ifaces \cup {NoId}
    BY <1>2 DEF ReplLevel
  <2>3. ASSUME NEW i \in 1..Len(ls)
        PROVE  taken[i] \in ReplLevel
    <3>1. ls[i] \in ReplLevel
      BY <1>2, <2>1, ElementOfSeq
    <3>2. taken[i] = IF i = 1 THEN [ls[i] EXCEPT !.ifid = top.ifid] ELSE ls[i]
      BY <2>1
    <3> QED
      BY <2>2, <3>1, <3>2 DEF ReplLevel
  <2>4. taken \in [1..Len(ls) -> ReplLevel]
    BY <2>1, <2>3
  <2> QED
    BY <2>1, <2>4, SeqDef
<1> QED
  BY <1>2, <1>3 DEF Inside

LEMMA TypeStep ==
  ASSUME TypeInv, [Next]_vars
  PROVE  TypeInv'
<1>1. UpInv'
  BY UpStep DEF TypeInv
<1>2. TypeOK /\ UpInv /\ Attached \in [Nodes -> SUBSET Ports]
  BY RelayAssumption DEF TypeInv
<1>3. ASSUME NEW c \in Clients, Ask(c)
      PROVE  TypeOK'
  <2>1. asked[c] \in 0..MaxQuestions /\ MaxQuestions \in Nat
    BY <1>2, RelayAssumption DEF TypeOK
  <2>2. asked[c] + 1 \in 1..MaxQuestions
    BY <1>3, <2>1 DEF Ask
  <2>3. asked' \in [Clients -> 0..MaxQuestions]
    BY <1>2, <1>3, <2>1, <2>2 DEF TypeOK, Ask
  <2>4. SentUp(c, <<>>, <<c, asked[c] + 1>>) \subseteq UpMsg
    <3>1. <<c, asked[c] + 1>> \in Questions /\ c \in Nodes /\ Attached[c] \subseteq Ports
      BY <1>2, <2>2 DEF Questions, Nodes
    <3>2. <<>> \in Seq(ForwLevel)
      BY EmptySeq
    <3>3. \A p \in Attached[c] :
            [from |-> c, at |-> p, levels |-> <<>>, q |-> <<c, asked[c] + 1>>] \in UpMsg
      BY <3>1, <3>2 DEF UpMsg
    <3> QED
      BY <3>3 DEF SentUp
  <2> QED
    BY <1>2, <1>3, <2>3, <2>4 DEF TypeOK, Ask
<1>4. ASSUME NEW m \in up, Forward(m)
      PROVE  TypeOK'
  <2>1. m \in UpMsg /\ Decodable(m) /\ m.at[1] \in Relays
    BY <1>2, <1>4 DEF TypeOK, Forward, AtRelay
  <2>2. Encapsulate(m) \in Seq(ForwLevel)
    BY <2>1, EncapsulateType
  <2>3. m.q \in Questions /\ m.at[1] \in Nodes /\ Attached[m.at[1]] \subseteq Ports
    BY <1>2, <2>1 DEF UpMsg, Nodes
  <2>4. SentUp(m.at[1], Encapsulate(m), m.q) \subseteq UpMsg
    BY <2>2, <2>3 DEF SentUp, UpMsg
  <2> QED
    BY <1>2, <1>4, <2>4 DEF TypeOK, Forward
<1>5. ASSUME NEW m \in up, ForwardUndecoded(m)
      PROVE  TypeOK'
  BY <1>2, <1>5 DEF TypeOK, ForwardUndecoded, AtRelay
<1>6. ASSUME NEW m \in up, Serve(m)
      PROVE  TypeOK'
  <2> DEFINE s == ChosenSubnet(m.levels)
             reply == [from |-> m.at, to |-> m.from, levels |-> ReplLevels(m.levels),
                       q |-> m.q, subnet |-> s]
  <2>1. m \in UpMsg /\ UpChain(m)
    BY <1>2 DEF TypeOK, UpInv
  <2>2. m.levels \in Seq(AnyForwLevel) /\ m.from \in Nodes /\ m.at \in Ports /\ m.q \in Questions
    BY <2>1 DEF UpChain
  <2>3. ReplLevels(m.levels) \in Seq(ReplLevel) /\ s \in Subnets \cup {NoSubnet}
    BY <2>2, ReplLevelsType, ChosenSubnetType
  <2> HIDE DEF s
  <2>4. s # NoSubnet => reply \in DownMsg
    BY <2>2, <2>3 DEF DownMsg
  <2>5. down' \subseteq down \cup {x \in {reply} : s # NoSubnet}
    BY <1>6 DEF Serve, s
  <2>6. down' \subseteq DownMsg
    BY <1>2, <2>4, <2>5 DEF TypeOK
  <2> QED
    BY <1>2, <1>6, <2>6 DEF TypeOK, Serve
<1>7. ASSUME NEW m \in down, Back(m)
      PROVE  TypeOK'
  <2> DEFINE inner == [from |-> <<m.to, DestIface(m)>>, to |-> Head(m.levels).peer,
                       levels |-> Inside(m), q |-> m.q, subnet |-> m.subnet]
  <2>1. m \in DownMsg /\ m.levels # <<>> /\ m.to \in Relays
    BY <1>2, <1>7 DEF TypeOK, Back
  <2>2. Inside(m) \in Seq(ReplLevel) /\ Head(m.levels).peer \in Nodes
    BY <2>1, InsideType DEF ReplLevel
  <2>3. IfacesOf(m.to) \subseteq Ifaces
    <3>1. \A n \in Nodes : Attached[n] \subseteq (Relays \cup {Server}) \X Ifaces
      BY <1>2 DEF Ports
    <3> QED
      BY <3>1 DEF IfacesOf
  <2>4. m.q \in Questions /\ m.subnet \in Subnets
    BY <2>1 DEF DownMsg
  <2>5. DestIface(m) \in IfacesOf(m.to) => inner \in DownMsg
    BY <2>1, <2>2, <2>3, <2>4 DEF DownMsg, Ports
  <2>6. \A x \in down' : x \in down \/ (DestIface(m) \in IfacesOf(m.to) /\ x = inner)
    BY <1>7 DEF Back
  <2>7. down' \subseteq DownMsg
    BY <1>2, <2>5, <2>6 DEF TypeOK
  <2> QED
    BY <1>2, <1>7, <2>7 DEF TypeOK, Back
<1>8. ASSUME NEW m \in down, Receive(m)
      PROVE  TypeOK'
  <2>1. m.q \in Questions
    BY <1>2 DEF TypeOK, DownMsg
  <2> QED
    BY <1>2, <1>8, <2>1 DEF TypeOK, Receive
<1>9. ASSUME NEW m \in up \cup down, Lose(m)
      PROVE  TypeOK'
  <2>1. m.q \in Questions
    BY <1>2 DEF TypeOK, DownMsg, UpMsg
  <2> QED
    BY <1>2, <1>9, <2>1 DEF TypeOK, Lose
<1>10. ASSUME UNCHANGED vars
       PROVE  TypeOK'
  BY <1>2, <1>10 DEF TypeOK, vars
<1>11. TypeOK'
  BY <1>3, <1>4, <1>5, <1>6, <1>7, <1>8, <1>9, <1>10 DEF Next, Deliver
<1> QED
  BY <1>1, <1>11 DEF TypeInv

LEMMA TypeInit == Init => TypeInv
<1>1. Init => TypeOK
  BY RelayAssumption DEF Init, TypeOK
<1> QED
  BY <1>1, UpInit DEF TypeInv

\* Every message is well formed, in every network: an unwrapped answer may hold an
\* interface-id that was another level's, but only where a level has one, and no
\* level a relay writes counts above the limit (TRelTransMgr).
THEOREM TypeCorrect == Spec => []TypeOK
<1>1. Init => TypeInv
  BY TypeInit
<1>2. TypeInv /\ [Next]_vars => TypeInv'
  BY TypeStep
<1>3. TypeInv => TypeOK
  BY DEF TypeInv
<1> QED
  BY <1>1, <1>2, <1>3, PTL DEF Spec

(***************************************************************************)
(* The server answers from the configuration of the client's own link.      *)
(***************************************************************************)
SubnetInv == TypeInv /\ SubnetOfClient

LEMMA SubnetStep ==
  ASSUME AnyRelay = NoSubnet,
         \A c \in Clients : \A p \in Attached[c] : p[1] \notin Omitting,
         SubnetInv, [Next]_vars
  PROVE  SubnetInv'
<1> DEFINE AtLink(x) == \E p \in Attached[x.q[1]] :
                          x.subnet \in {SubnetOfId[p[2]], SubnetOfLink[p]}
<1>1. TypeInv'
  BY TypeStep DEF SubnetInv
<1>2. ASSUME NEW m \in up, Serve(m)
      PROVE  \A x \in down' : AtLink(x)
  <2> DEFINE s == ChosenSubnet(m.levels)
             reply == [from |-> m.at, to |-> m.from, levels |-> ReplLevels(m.levels),
                       q |-> m.q, subnet |-> s]
  <2>1. UpChain(m) /\ m.levels # <<>>
    BY <1>2 DEF Serve, SubnetInv, TypeInv, UpInv
  <2>2. m.q[1] \in Clients
    BY <2>1 DEF UpChain, Questions
  <2>3. s # NoSubnet => \E p \in Attached[m.q[1]] : s \in {SubnetOfId[p[2]], SubnetOfLink[p]}
    BY <2>1, <2>2, InnermostDecides
  <2> HIDE DEF s
  <2>4. s # NoSubnet => AtLink(reply)
    BY <2>3
  <2>5. \A x \in down' : x \in down \/ (s # NoSubnet /\ x = reply)
    BY <1>2 DEF Serve, s
  <2> QED
    BY <2>4, <2>5 DEF SubnetInv, SubnetOfClient
<1>3. ASSUME NEW m \in down, Back(m)
      PROVE  \A x \in down' : AtLink(x)
  <2> DEFINE inner == [from |-> <<m.to, DestIface(m)>>, to |-> Head(m.levels).peer,
                       levels |-> Inside(m), q |-> m.q, subnet |-> m.subnet]
  <2>1. AtLink(m)
    BY DEF SubnetInv, SubnetOfClient
  <2>2. inner.q = m.q /\ inner.subnet = m.subnet
    OBVIOUS
  <2>3. \A x \in down' : x \in down \/ x = inner
    BY <1>3 DEF Back
  <2> HIDE DEF inner
  <2> QED
    BY <2>1, <2>2, <2>3 DEF SubnetInv, SubnetOfClient
<1>4. ASSUME down' \subseteq down
      PROVE  \A x \in down' : AtLink(x)
  BY <1>4 DEF SubnetInv, SubnetOfClient
<1>5. \A x \in down' : AtLink(x)
  BY <1>2, <1>3, <1>4
     DEF Next, Deliver, Ask, Forward, ForwardUndecoded, Receive, Lose, vars
<1>6. SubnetOfClient'
  BY <1>5 DEF SubnetOfClient
<1> QED
  BY <1>1, <1>6 DEF SubnetInv

\* Where the relays at clients' links send interface-ids and the server does not
\* guess, the server answers from the configuration of a link its client is at,
\* whatever outer relays omit or name (TSrvIfaceMgr::decodeRelayForw).
THEOREM SubnetOfClientHolds ==
  ASSUME AnyRelay = NoSubnet,
         \A c \in Clients : \A p \in Attached[c] : p[1] \notin Omitting
  PROVE  Spec => []SubnetOfClient
<1>1. Init => SubnetInv
  BY TypeInit DEF Init, SubnetInv, SubnetOfClient
<1>2. SubnetInv /\ [Next]_vars => SubnetInv'
  BY SubnetStep
<1>3. SubnetInv => SubnetOfClient
  BY DEF SubnetInv
<1> QED
  BY <1>1, <1>2, <1>3, PTL DEF Spec

(***************************************************************************)
(* Relays that are not behind relays lose no answer.                        *)
(***************************************************************************)
\* Every relay is next to the server, and interface-ids are written both ways
Flat ==
  /\ \A r \in Relays : \A p \in Attached[r] : p[1] = Server
  /\ Omitting = {} /\ SrvOrder # "omit"

\* No relay has stopped, and whoever an answer is sent to gets it: a relay, which
\* parses it and knows the interface to send what is inside on, or the client
\* that asked (TRelTransMgr::relayMsgRepl).
PassedOn ==
  /\ stopped = {}
  /\ \A m \in down :
       /\ Reaches(m)
       /\ m.levels = <<>> => m.to = m.q[1]
       /\ m.levels # <<>> => m.to \in Relays /\ Parsed(m) /\ DestIface(m) \in IfacesOf(m.to)

\* The one level of an answer names the interface its client is at
FlatAnswer(m) ==
  /\ Reaches(m) /\ m.to \in Nodes
  /\ m.levels = <<>> => m.to = m.q[1]
  /\ m.levels # <<>> =>
       /\ m.to \in Relays /\ m.levels \in Seq(ReplLevel)
       /\ Len(m.levels) = 1 /\ m.levels[1].len = 0
       /\ m.levels[1].peer = m.q[1] /\ m.levels[1].ifid # NoId
       /\ <<m.to, m.levels[1].ifid>> \in Attached[m.levels[1].peer]

FlatInv == TypeInv /\ stopped = {} /\ \A m \in down : FlatAnswer(m)

\* A relay receives from clients only, and the server from relays.
LEMMA FlatQuestion ==
  ASSUME Flat, NEW m, UpChain(m), m.levels # <<>>
  PROVE  Len(m.levels) = 1 /\ m.from \in Relays
<1>1. m.levels \in Seq(AnyForwLevel) /\ Len(m.levels) \in Nat \ {0}
      /\ DOMAIN m.levels = 1..Len(m.levels)
  BY EmptySeq, LenProperties DEF UpChain
<1>2. \A i \in DOMAIN m.levels : m.levels[i] \in AnyForwLevel
  BY <1>1, ElementOfSeq
<1>3. \A i \in DOMAIN m.levels :
        /\ m.levels[i].link \in Attached[m.levels[i].peer]
        /\ m.levels[i].link[1] = IF i = 1 THEN m.from ELSE m.levels[i - 1].peer
  BY DEF UpChain
<1>4. \A i \in DOMAIN m.levels : m.levels[i].link[1] \in Relays \cup {Server}
                                 /\ m.levels[i].peer \in Nodes
  BY <1>2 DEF AnyForwLevel, Ports
<1>5. 1 \in DOMAIN m.levels
  BY <1>1
<1>6. m.levels[1].link[1] = m.from /\ m.from \in Relays
  BY <1>3, <1>4, <1>5, RelayAssumption DEF UpChain
<1>7. ASSUME Len(m.levels) # 1
      PROVE  FALSE
  <2> DEFINE n == Len(m.levels)
  <2>0. n \in Nat \ {0} /\ n # 1 /\ DOMAIN m.levels = 1..n
    BY <1>1, <1>7
  <2> HIDE DEF n
  <2>1. 2 \in DOMAIN m.levels
    BY <2>0
  <2>2. m.levels[2].link[1] = m.levels[1].peer
    BY <1>3, <2>1
  <2>3. m.levels[1].peer \in Relays
    BY <1>4, <1>5, <2>1, <2>2, RelayAssumption
  <2>4. m.levels[1].link[1] = Server
    BY <1>3, <1>5, <2>3 DEF Flat
  <2> QED
    BY <1>6, <2>4, RelayAssumption DEF Nodes
<1> QED
  BY <1>6, <1>7

\* Nothing is within a single level.
LEMMA NoneWithin ==
  ASSUME NEW levels, Len(levels) = 1
  PROVE  LenField(levels, 1) = 0 /\ LenWithin(levels, 1) = 0
<1>1. \A j \in (1 + 1)..1 : FALSE
  OBVIOUS
<1>2. Marked(levels, 1) \subseteq (1 + 1)..1
  BY DEF Marked
<1>3. Cardinality(Marked(levels, 1)) = 0
  BY <1>1, <1>2, FS_EmptySet
<1>4. HeaderSize * (Len(levels) - 1) = 0 /\ IdSize * 0 = 0 /\ 2 * IdSize * 0 = 0
  BY DEF HeaderSize, IdSize
<1> QED
  BY <1>3, <1>4 DEF LenField, LenWithin

\* The server computes the length of a single level right (TSrvMsg::storeSelfRelay).
LEMMA FlatServe ==
  ASSUME Flat, NEW m, UpChain(m), m.levels # <<>>, NEW s
  PROVE  FlatAnswer([from |-> m.at, to |-> m.from, levels |-> ReplLevels(m.levels),
                     q |-> m.q, subnet |-> s])
<1> DEFINE ls == ReplLevels(m.levels)
           top == m.levels[1]
<1>1. Len(m.levels) = 1 /\ m.from \in Relays
  BY FlatQuestion
<1>2. m.levels \in Seq(AnyForwLevel) /\ 1 \in DOMAIN m.levels
  BY <1>1, LenProperties DEF UpChain
<1>3. ls \in Seq(ReplLevel) /\ Len(ls) = 1 /\ ls # <<>>
  <2> HIDE DEF ls
  <2> QED
    BY <1>1, <1>2, ReplLevelsType, EmptySeq DEF ls
<1>4. LenField(m.levels, 1) = 0
  BY <1>1, NoneWithin
<1>5. ls[1].peer = top.peer /\ ls[1].ifid = top.ifid /\ ls[1].len = 0
  BY <1>2, <1>4 DEF ReplLevels, Flat
<1>6. /\ top.link \in Attached[top.peer] /\ top.link[1] = m.from
      /\ top.ifid = top.link[2] /\ m.q[1] = top.peer /\ m.at \in Attached[m.from]
  BY <1>1, <1>2 DEF UpChain, Flat
<1>7. top \in AnyForwLevel
  BY <1>2, ElementOfSeq, LenProperties
<1>8. top.link = <<m.from, top.ifid>> /\ top.ifid \in Ifaces
  BY <1>6, <1>7 DEF AnyForwLevel, Ports
<1>9. top.ifid # NoId
  BY <1>8, RelayAssumption
<1> HIDE DEF ls, top
<1>10. SUFFICES FlatAnswer([from |-> m.at, to |-> m.from, levels |-> ls, q |-> m.q, subnet |-> s])
  BY DEF ls
<1> QED
  BY <1>1, <1>3, <1>5, <1>6, <1>8, <1>9 DEF FlatAnswer, Reaches, Nodes

\* A relay parses an answer of one level and unwraps it (TRelTransMgr::relayMsgRepl).
LEMMA FlatBack ==
  ASSUME NEW m \in DownMsg, FlatAnswer(m), m.levels # <<>>
  PROVE  /\ Parsed(m) /\ DestIface(m) \in IfacesOf(m.to)
         /\ FlatAnswer([from |-> <<m.to, DestIface(m)>>, to |-> Head(m.levels).peer,
                        levels |-> Inside(m), q |-> m.q, subnet |-> m.subnet])
<1> DEFINE top == Head(m.levels)
<1>1. /\ m.levels \in Seq(ReplLevel) /\ Len(m.levels) = 1
      /\ top = m.levels[1] /\ top \in ReplLevel /\ top.len = 0 /\ top.peer = m.q[1]
      /\ top.ifid # NoId /\ <<m.to, top.ifid>> \in Attached[top.peer]
  <2>1. m.levels \in Seq(ReplLevel) /\ Len(m.levels) = 1
    BY DEF FlatAnswer
  <2>2. top = m.levels[1] /\ top \in ReplLevel
    BY <2>1
  <2> QED
    BY <2>1, <2>2 DEF FlatAnswer
<1>2. Excess(m) = 0
  <2>1. LenWithin(m.levels, 1) = 0
    BY <1>1, NoneWithin
  <2> QED
    BY <1>1, <2>1 DEF Excess
<1>3. Parsed(m) /\ ~ Swallowed(m)
  BY <1>2 DEF Parsed, Swallowed, Slack, IdSize
<1>4. DestIface(m) = top.ifid /\ Inside(m) = Tail(m.levels)
  <2>1. top.ifid # NoId
    BY <1>1
  <2> HIDE DEF top
  <2>2. DestIface(m) = top.ifid
    BY <1>3, <2>1 DEF DestIface, top
  <2>3. Inside(m) = Tail(m.levels)
    BY <1>3 DEF Inside
  <2> QED
    BY <2>2, <2>3
<1>5. Tail(m.levels) = <<>>
  <2>1. Tail(m.levels) \in Seq(ReplLevel) /\ Len(Tail(m.levels)) = 0
    BY <1>1
  <2> QED
    BY <2>1, EmptySeq
<1>6. top.peer \in Nodes
  BY <1>1 DEF ReplLevel
<1>7. top.ifid \in IfacesOf(m.to)
  <2> DEFINE p == <<m.to, top.ifid>>
  <2>1. p \in {x \in UNION {Attached[n] : n \in Nodes} : x[1] = m.to}
    BY <1>1, <1>6
  <2> QED
    BY <2>1 DEF IfacesOf
<1> HIDE DEF top
<1>8. FlatAnswer([from |-> <<m.to, top.ifid>>, to |-> top.peer,
                  levels |-> <<>>, q |-> m.q, subnet |-> m.subnet])
  BY <1>1, <1>6 DEF FlatAnswer, Reaches
<1> QED
  BY <1>3, <1>4, <1>5, <1>7, <1>8 DEF top

LEMMA FlatStep ==
  ASSUME Flat, FlatInv, [Next]_vars
  PROVE  FlatInv'
<1>1. TypeInv'
  BY TypeStep DEF FlatInv
<1>2. ASSUME NEW m \in up, ForwardUndecoded(m)
      PROVE  FALSE
  <2>1. UpChain(m) /\ m.at[1] \in Relays
    BY <1>2 DEF ForwardUndecoded, AtRelay, FlatInv, TypeInv, UpInv
  <2>2. m.levels # <<>> /\ m.levels[1].hop >= HopCountLimit /\ HopsCounted(m)
    <3>1. m \in UpMsg /\ HopsCounted(m) /\ m.levels # <<>>
      BY <1>2 DEF ForwardUndecoded, Decodable, FlatInv, TypeInv, TypeOK, UpInv
    <3>2. m.levels[1] \in ForwLevel
      BY <3>1, ElementOfSeq, EmptySeq, LenProperties DEF UpMsg
    <3> QED
      BY <1>2, <3>1, <3>2, RelayAssumption DEF ForwardUndecoded, Decodable, ForwLevel
  <2>3. Len(m.levels) = 1 /\ m.from \in Relays
    BY <2>1, <2>2, FlatQuestion
  <2> QED
    BY <2>2, <2>3, RelayAssumption DEF HopsCounted
<1>3. stopped' = {}
  BY <1>2 DEF FlatInv, Next, Deliver, Ask, Forward, Serve, Back, Receive, Lose, vars
<1>4. ASSUME NEW m \in up, Serve(m)
      PROVE  \A x \in down' : FlatAnswer(x)
  <2> DEFINE s == ChosenSubnet(m.levels)
             reply == [from |-> m.at, to |-> m.from, levels |-> ReplLevels(m.levels),
                       q |-> m.q, subnet |-> s]
  <2>1. UpChain(m) /\ m.levels # <<>>
    BY <1>4 DEF Serve, FlatInv, TypeInv, UpInv
  <2> HIDE DEF s
  <2>2. FlatAnswer(reply)
    BY <2>1, FlatServe
  <2>3. down' \subseteq down \cup {reply}
    BY <1>4 DEF Serve, s
  <2> QED
    BY <2>2, <2>3 DEF FlatInv
<1>5. ASSUME NEW m \in down, Back(m)
      PROVE  \A x \in down' : FlatAnswer(x)
  <2> DEFINE inner == [from |-> <<m.to, DestIface(m)>>, to |-> Head(m.levels).peer,
                       levels |-> Inside(m), q |-> m.q, subnet |-> m.subnet]
  <2>1. m \in DownMsg /\ FlatAnswer(m) /\ m.levels # <<>>
    BY <1>5 DEF Back, FlatInv, TypeInv, TypeOK
  <2>2. FlatAnswer(inner)
    BY <2>1, FlatBack
  <2>3. \A x \in down' : x \in down \/ x = inner
    BY <1>5 DEF Back
  <2> HIDE DEF inner
  <2> QED
    BY <2>2, <2>3 DEF FlatInv
<1>6. ASSUME down' \subseteq down
      PROVE  \A x \in down' : FlatAnswer(x)
  BY <1>6 DEF FlatInv
<1>7. \A x \in down' : FlatAnswer(x)
  BY <1>4, <1>5, <1>6
     DEF Next, Deliver, Ask, Forward, ForwardUndecoded, Receive, Lose, vars
<1> QED
  BY <1>1, <1>3, <1>7 DEF FlatInv, FlatAnswer, Reaches

\* In a network without relays behind relays nothing but the network loses an
\* answer: no relay stops or fails to parse one, each knows where it goes, and it
\* reaches the client that asked (TRelTransMgr::relayMsg, relayMsgRepl).  With
\* one relay behind another the lengths the server computes are wrong.
THEOREM PassedOnHolds ==
  ASSUME Flat
  PROVE  Spec => []PassedOn
<1>1. Init => FlatInv
  BY TypeInit DEF Init, FlatInv
<1>2. FlatInv /\ [Next]_vars => FlatInv'
  BY FlatStep
<1>3. FlatInv => PassedOn
  <2> SUFFICES ASSUME FlatInv, NEW m \in down
               PROVE  /\ stopped = {} /\ Reaches(m)
                      /\ m.levels = <<>> => m.to = m.q[1]
                      /\ m.levels # <<>> => /\ m.to \in Relays /\ Parsed(m)
                                            /\ DestIface(m) \in IfacesOf(m.to)
    BY DEF PassedOn, FlatInv
  <2>1. m \in DownMsg /\ FlatAnswer(m)
    BY DEF FlatInv, TypeInv, TypeOK
  <2>2. m.levels # <<>> => Parsed(m) /\ DestIface(m) \in IfacesOf(m.to)
    BY <2>1, FlatBack
  <2> QED
    BY <2>1, <2>2 DEF FlatInv, FlatAnswer
<1> QED
  BY <1>1, <1>2, <1>3, PTL DEF Spec

=============================================================================
