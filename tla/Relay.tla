------------------------------- MODULE Relay -------------------------------
(***************************************************************************)
(* Relay agents between clients and the server.  A relay wraps what comes   *)
(* from a client, or from another relay, in a RELAY-FORW and passes it on;  *)
(* the server unwraps all levels, picks the link whose configuration        *)
(* applies, and answers with a RELAY-REPL of as many levels, which every    *)
(* relay on the way back unwraps by one.  Relays keep no state between       *)
(* messages: all there is to know is in the messages.                       *)
(*                                                                          *)
(* A message is a sequence of levels, outermost first, around a question of *)
(* a client or its answer.  Contents are left out, but not the lengths: the *)
(* server computes the length field of every level before it writes any.    *)
(***************************************************************************)
EXTENDS Integers, Sequences, FiniteSets, SequencesExt

CONSTANTS
  Clients, Relays, Server,
  Ifaces,        \* interface ids; a port is a node and one of its interfaces
  Attached,      \* the ports at whose link a client, or the upper side of a relay, is
  FirstIface,    \* the first configured client interface of each relay
  Omitting,      \* relays with "interface-id-order omit"
  Guessing,      \* relays with "guess-mode"
  SrvOrder,      \* where the server puts the interface-id: "before", "after", "omit"
  Subnets, NoSubnet,
  SubnetOfId,    \* the server's "iface relay" with this "interface-id"
  SubnetOfLink,  \* the server's "iface relay" whose "subnet" holds this link address
  AnyRelay,      \* the first "iface relay" if the server is in guess-mode
  NoId,
  HopCountLimit, \* 32 in the code
  MaxQuestions   \* BOUND: questions of one client

Nodes  == Relays \cup Clients
Ports  == (Relays \cup {Server}) \X Ifaces
Questions == Clients \X (1..MaxQuestions)

\* Sizes in octets of a relay header with the header of its relay message
\* option, and of an interface-id option.  The relay's parser compares an
\* option's length with what is left of the message, the option's own header
\* included: it accepts up to Slack octets too many.
HeaderSize == 38
IdSize     == 8
Slack      == 4

ASSUME RelayAssumption ==
  /\ Server \notin Nodes /\ Relays \cap Clients = {}
  /\ Attached \in [Nodes -> SUBSET Ports]
  /\ FirstIface \in [Relays -> Ifaces]
  /\ Omitting \subseteq Relays /\ Guessing \subseteq Relays
  /\ SrvOrder \in {"before", "after", "omit"}
  /\ NoId \notin Ifaces /\ NoSubnet \notin Subnets
  /\ SubnetOfId \in [Ifaces -> Subnets \cup {NoSubnet}]
  /\ SubnetOfLink \in [Ports -> Subnets \cup {NoSubnet}]
  /\ AnyRelay \in Subnets \cup {NoSubnet}
  /\ HopCountLimit \in Nat \ {0} /\ MaxQuestions \in Nat

VARIABLES
  up,       \* messages on their way to the server
  down,     \* messages on their way to a client
  asked,    \* number of questions each client has sent
  answered, \* the questions whose answer has reached the client
  lost,     \* the questions of which the network lost a message
  stopped   \* relays that have stopped
vars == <<up, down, asked, answered, lost, stopped>>

ForwLevel == [hop : 0..HopCountLimit, link : Ports, peer : Nodes, ifid : Ifaces \cup {NoId}]
ReplLevel == [peer : Nodes, ifid : Ifaces \cup {NoId}, len : Nat]
UpMsg     == [from : Nodes, at : Ports, levels : Seq(ForwLevel), q : Questions]
DownMsg   == [from : Ports, to : Nodes, levels : Seq(ReplLevel), q : Questions, subnet : Subnets]

TypeOK ==
  /\ up \subseteq UpMsg
  /\ down \subseteq DownMsg
  /\ asked \in [Clients -> 0..MaxQuestions]
  /\ answered \subseteq Questions /\ lost \subseteq Questions
  /\ stopped \subseteq Relays

Init ==
  /\ up = {} /\ down = {}
  /\ asked = [c \in Clients |-> 0]
  /\ answered = {} /\ lost = {}
  /\ stopped = {}

(***************************************************************************)
(* Clients.                                                                 *)
(***************************************************************************)
\* What node n sends upwards arrives at each of the ports it is attached to
SentUp(n, levels, q) == {[from |-> n, at |-> p, levels |-> levels, q |-> q] : p \in Attached[n]}

Ask(c) ==
  /\ asked[c] < MaxQuestions
  /\ asked' = [asked EXCEPT ![c] = @ + 1]
  /\ up' = up \cup SentUp(c, <<>>, <<c, asked[c] + 1>>)
  /\ UNCHANGED <<down, answered, lost, stopped>>

\* The network hands a message to its addressee, if that is on the link
Reaches(m) == m.from \in Attached[m.to]

Receive(m) ==
  /\ m.levels = <<>> /\ m.to \in Clients /\ Reaches(m)
  /\ down' = down \ {m}
  /\ answered' = IF m.q[1] = m.to THEN answered \cup {m.q} ELSE answered
  /\ UNCHANGED <<up, asked, lost, stopped>>

(***************************************************************************)
(* The relay, upwards.                                                      *)
(***************************************************************************)
\* FAULTY VARIANT of HopCount: the count of the relay before is not continued
HopCount_Reset(m) == 0

HopCount(m) == IF m.levels = <<>> THEN 0 ELSE m.levels[1].hop + 1

Encapsulate(m) ==
  LET r == m.at[1] IN
  <<[hop |-> HopCount(m), link |-> m.at, peer |-> m.from,
     ifid |-> IF r \in Omitting THEN NoId ELSE m.at[2]]>> \o m.levels

\* FAULTY VARIANT of Decodable: the limit itself is let through
Decodable_AtLimit(m) == m.levels # <<>> => m.levels[1].hop <= HopCountLimit

\* A level whose hop count is at the limit is not decoded
Decodable(m) == m.levels # <<>> => m.levels[1].hop < HopCountLimit

AtRelay(m) == m.at[1] \in Relays \ stopped

Forward(m) ==
  /\ AtRelay(m) /\ Decodable(m)
  /\ up' = (up \ {m}) \cup SentUp(m.at[1], Encapsulate(m), m.q)
  /\ UNCHANGED <<down, asked, answered, lost, stopped>>

\* The message object of a level not decoded has no addresses, and is passed
\* on all the same: writing it dereferences a null pointer
ForwardUndecoded(m) ==
  /\ AtRelay(m) /\ ~ Decodable(m)
  /\ up' = up \ {m}
  /\ stopped' = stopped \cup {m.at[1]}
  /\ UNCHANGED <<down, asked, answered, lost>>

(***************************************************************************)
(* The server.                                                              *)
(***************************************************************************)
\* FAULTY VARIANT of SelectSubnet: an interface found by an outer relay is kept
SelectSubnet_OuterStays(found, level) ==
  IF found # NoSubnet THEN found
  ELSE IF level.ifid = NoId THEN SubnetOfLink[level.link] ELSE SubnetOfId[level.ifid]

\* One level of the search for the interface: what outer levels found stays
\* unless this level names an interface
SelectSubnet(found, level) ==
  LET byId   == IF level.ifid = NoId THEN found ELSE SubnetOfId[level.ifid]
      byLink == IF byId = NoSubnet THEN SubnetOfLink[level.link] ELSE byId
  IN IF byLink = NoSubnet THEN AnyRelay ELSE byLink

ChosenSubnet(levels) ==
  LET found[i \in 0..Len(levels)] ==
        IF i = 0 THEN NoSubnet ELSE SelectSubnet(found[i - 1], levels[i])
  IN found[Len(levels)]

\* The levels within level i that carry an interface-id
Marked(levels, i) == {j \in (i + 1)..Len(levels) : levels[j].ifid # NoId}

\* The length field of level i as computed, and the octets written within it,
\* both without the answer itself.  For each inner level that has an interface-id
\* the computation counts that option and then all options of the level, which
\* include it.
LenField(levels, i) ==
  HeaderSize * (Len(levels) - i)
    + (IF SrvOrder = "omit" THEN 0 ELSE 2 * IdSize * Cardinality(Marked(levels, i)))
LenWithin(levels, i) == HeaderSize * (Len(levels) - i) + IdSize * Cardinality(Marked(levels, i))

\* FAULTY VARIANT of ReplLevels: the levels are written innermost first
ReplLevels_Reversed(levels) ==
  [i \in DOMAIN levels |->
     LET k == Len(levels) + 1 - i IN
     [peer |-> levels[k].peer,
      ifid |-> IF SrvOrder = "omit" THEN NoId ELSE levels[k].ifid,
      len  |-> LenField(levels, i)]]

ReplLevels(levels) ==
  [i \in DOMAIN levels |->
     [peer |-> levels[i].peer,
      ifid |-> IF SrvOrder = "omit" THEN NoId ELSE levels[i].ifid,
      len  |-> LenField(levels, i)]]

\* A message nested deeper than the limit, or of no known link, is dropped
Serve(m) ==
  /\ m.at[1] = Server /\ m.levels # <<>>
  /\ up' = up \ {m}
  /\ LET s == ChosenSubnet(m.levels) IN
     down' = IF s = NoSubnet \/ Len(m.levels) > HopCountLimit THEN down
             ELSE down \cup {[from |-> m.at, to |-> m.from, levels |-> ReplLevels(m.levels),
                              q |-> m.q, subnet |-> s]}
  /\ UNCHANGED <<asked, answered, lost, stopped>>

(***************************************************************************)
(* The relay, downwards.                                                    *)
(***************************************************************************)
\* The parser takes the relay message option at its length field.  If that is too
\* long it takes in the interface-id behind it, or is longer than all that is left.
Excess(m)    == Head(m.levels).len - LenWithin(m.levels, 1)
IdBehind(m)  == SrvOrder = "after" /\ Head(m.levels).ifid # NoId
Parsed(m)    == Excess(m) <= Slack + (IF IdBehind(m) THEN IdSize ELSE 0)
Swallowed(m) == Excess(m) > 0 /\ IdBehind(m)

\* FAULTY VARIANT of DestIface: the first interface is taken although the answer names one
DestIface_AlwaysGuess(m) == FirstIface[m.to]

\* The interface the message is to leave on
DestIface(m) ==
  LET r == m.to
      id == IF Swallowed(m) THEN NoId ELSE Head(m.levels).ifid
  IN IF id = NoId /\ r \in Guessing THEN FirstIface[r] ELSE id

\* What is inside; a swallowed interface-id is read later as the inner level's
\* last one, which is the one that counts
Inside(m) ==
  LET ls == Tail(m.levels) IN
  IF Swallowed(m) THEN [ls EXCEPT ![1].ifid = Head(m.levels).ifid] ELSE ls

\* A relay has one configured interface per port in use
IfacesOf(r) == {p[2] : p \in {x \in UNION {Attached[n] : n \in Nodes} : x[1] = r}}

Back(m) ==
  /\ m.to \in Relays \ stopped /\ m.levels # <<>> /\ Reaches(m)
  /\ down' = (down \ {m}) \cup
       (IF Parsed(m) /\ DestIface(m) \in IfacesOf(m.to)
        THEN {[from |-> <<m.to, DestIface(m)>>, to |-> Head(m.levels).peer,
               levels |-> Inside(m), q |-> m.q, subnet |-> m.subnet]}
        ELSE {})
  /\ UNCHANGED <<up, asked, answered, lost, stopped>>

(***************************************************************************)
(* The network loses any message.                                           *)
(***************************************************************************)
Lose(m) ==
  /\ up' = up \ {m} /\ down' = down \ {m}
  /\ lost' = lost \cup {m.q}
  /\ UNCHANGED <<asked, answered, stopped>>

Deliver ==
  \/ \E m \in up : \/ Forward(m) \/ ForwardUndecoded(m) \/ Serve(m)
  \/ \E m \in down : \/ Back(m) \/ Receive(m)

Next ==
  \/ \E c \in Clients : Ask(c)
  \/ Deliver
  \/ \E m \in up \cup down : Lose(m)

Spec == Init /\ [][Next]_vars
\* Relays and the server process what reaches them
FairSpec == Spec /\ WF_vars(Deliver)

(***************************************************************************)
(* Properties.                                                              *)
(***************************************************************************)
\* An answer is only ever sent on a link at which its next addressee is, and
\* the last addressee, and the only client, is the one that asked: the interface-id and the peer
\* address of every level, written on the way up by one relay, must undo that
\* relay's step and no other's (TRelTransMgr::relayMsgRepl).
ComesHome == \A m \in down : /\ Reaches(m)
                             /\ m.levels = <<>> => m.to = m.q[1]
                             /\ m.to \in Clients => m.levels = <<>>

\* The configuration the server answers from is that of a link its client is at,
\* however many relays, up to the limit, are in between (TSrvIfaceMgr::decodeRelayForw).
SubnetOfClient == \A m \in down : \E p \in Attached[m.q[1]] :
                    m.subnet \in {SubnetOfId[p[2]], SubnetOfLink[p]}

\* No message gets around more relays than the limit allows, also where relays
\* pass messages to each other in a circle (TRelTransMgr::relayMsg).
HopsBounded == \A m \in up : Len(m.levels) <= HopCountLimit + 1

\* A question of which the network lost no message is answered.
Answered == \A c \in Clients : \A n \in 1..MaxQuestions :
              (asked[c] >= n) ~> (<<c, n>> \in answered \cup lost)

=============================================================================
