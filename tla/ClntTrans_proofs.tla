-------------------------- MODULE ClntTrans_proofs --------------------------
(***************************************************************************)
(* Proofs about ClntTrans, for any IAs, interfaces, servers, preferences,   *)
(* identifiers and numbers of retransmissions.                              *)
(***************************************************************************)
EXTENDS ClntTrans, Least_proofs, FiniteSetTheorems, TLAPS

-----------------------------------------------------------------------------
(* The operators of the model                                               *)

\* The first of some IAs, or of some identifiers, is one of them.
LEMMA FirstIsMember ==
  ASSUME NEW S, S \subseteq Nat, S # {}
  PROVE  First(S) \in S
BY LeastExists DEF First

\* A free identifier can be taken.
LEMMA FreeXid ==
  /\ Free \subseteq Xid
  /\ Free # {} => First(Free) \in Xid
  /\ \A x \in Free : Free # {x} => First(Free \ {x}) \in Xid
<1>1. Free \subseteq Xid /\ Free \subseteq Nat
  BY XidAssumption DEF Free
<1>2. Free # {} => First(Free) \in Free
  BY <1>1, FirstIsMember
<1>3. ASSUME NEW x \in Free, Free # {x}
      PROVE  First(Free \ {x}) \in Free \ {x}
  <2>1. Free \ {x} # {} /\ Free \ {x} \subseteq Nat
    BY <1>1, <1>3
  <2> QED
    BY <2>1, FirstIsMember
<1> QED
  BY <1>1, <1>2, <1>3

\* The addresses of an IA, after any of the operations on them.
LEMMA AddrTypes ==
  ASSUME NEW as \in [Server -> Status]
  PROVE  /\ NoAddr \in [Server -> Status]
         /\ Restarted(as) \in [Server -> Status]
         /\ \A s \in Server, how \in Outcome : Apply(as, s, how) \in [Server -> Status]
<1>1. NoAddr \in [Server -> Status] /\ Restarted(as) \in [Server -> Status]
  BY DEF NoAddr, Restarted, Status
<1>2. ASSUME NEW s \in Server, NEW how \in Outcome
      PROVE  Apply(as, s, how) \in [Server -> Status]
  BY <1>1 DEF Apply, Status
<1> QED
  BY <1>1, <1>2

\* The transmissions that are left of a message are never fewer than none.
LEMMA ResendType ==
  ASSUME NEW m \in Message, m.left > 0
  PROVE  [m EXCEPT !.left = @ - 1] \in Message /\ [m EXCEPT !.left = 0] \in Message
BY DEF Message

-----------------------------------------------------------------------------
(* Type correctness.  While the client runs a message has an identifier of   *)
(* its own; only a RELEASE is named by its IA.                               *)

TypeInv ==
  /\ TypeOK
  /\ at # "down" => \A m \in trans : m.xid \in Xid

LeasesType ==
  /\ cfg' \in [IA -> {"notconf", "inproc", "conf"}]
  /\ st' \in [IA -> {"notconf", "inproc", "conf", "confirmme"}]
  /\ addr' \in [IA -> [Server -> Status]]
  /\ from' \in [IA -> Server \cup {NoServer}]
  /\ age' \in [IA -> {"fresh", "due", "frozen"}]

TransType ==
  /\ trans' \subseteq Message /\ \A m \in trans' : m.xid \in Xid
  /\ adv' \in [Server -> 0..MaxAdv]

\* What is sent when a message ends for some of its IAs is well typed.
LEMMA SendRequestType ==
  ASSUME TypeInv, at # "down", NEW o \in trans, NEW ias \in SUBSET o.ias,
         NEW ids \in 0..2, NEW cid, cid \in BOOLEAN,
         NEW a \in [Server -> 0..MaxAdv],
         NEW c \in [IA -> {"notconf", "inproc", "conf"}],
         SendRequest(o, ias, ids, cid, a, c)
  PROVE  TransType /\ cfg' \in [IA -> {"notconf", "inproc", "conf"}]
<1>1. o \in Message /\ o.xid \in Xid
  BY DEF TypeInv, TypeOK
<1>2. CASE Best(a) = {} /\ trans' = trans \ {o} /\ adv' = a
           /\ cfg' = [ia \in IA |-> IF ia \in ias /\ IfaceOf[ia] = o.iface
                                    THEN "notconf" ELSE c[ia]]
  BY <1>2 DEF TransType, TypeInv, TypeOK
<1>3. ASSUME cfg' = c, NEW s \in Best(a), adv' = [a EXCEPT ![s] = @ - 1],
             trans' = (trans \ {o}) \cup
                    {New(o.xid, "request", o.iface, ias, s,
                         IF ids = 0 THEN 1 ELSE 2, cid, Retries)}
      PROVE  TransType /\ cfg' \in [IA -> {"notconf", "inproc", "conf"}]
  <2>1. s \in Server /\ a[s] > 0
    BY <1>3 DEF Best
  <2>2. adv' \in [Server -> 0..MaxAdv]
    <3>1. a[s] - 1 \in 0..MaxAdv
      BY <2>1, MaxAdvAssumption
    <3> QED
      BY <1>3, <3>1
  <2>3. New(o.xid, "request", o.iface, ias, s,
            IF ids = 0 THEN 1 ELSE 2, cid, Retries) \in Message
    BY <1>1, <2>1, RetriesAssumption DEF New, Message, Kind
  <2>4. New(o.xid, "request", o.iface, ias, s,
            IF ids = 0 THEN 1 ELSE 2, cid, Retries).xid = o.xid
    BY DEF New
  <2> QED
    BY <1>1, <1>3, <2>2, <2>3, <2>4 DEF TransType, TypeInv, TypeOK
<1> QED
  BY <1>2, <1>3 DEF SendRequest

\* ... also when the options are those of the message that ended.
LEMMA SendAgainType ==
  ASSUME TypeInv, at # "down", NEW o \in trans,
         NEW c \in [IA -> {"notconf", "inproc", "conf"}],
         SendRequest(o, o.ias, o.ids, o.cid, adv, c)
  PROVE  TransType /\ cfg' \in [IA -> {"notconf", "inproc", "conf"}]
<1>1. o \in Message /\ o.xid \in Xid /\ adv \in [Server -> 0..MaxAdv]
  BY DEF TypeInv, TypeOK
<1>2. CASE Best(adv) = {} /\ trans' = trans \ {o} /\ adv' = adv
           /\ cfg' = [ia \in IA |-> IF ia \in o.ias /\ IfaceOf[ia] = o.iface
                                    THEN "notconf" ELSE c[ia]]
  BY <1>1, <1>2 DEF TransType, TypeInv, TypeOK
<1>3. ASSUME cfg' = c, NEW s \in Best(adv), adv' = [adv EXCEPT ![s] = @ - 1],
             trans' = (trans \ {o}) \cup
                    {New(o.xid, "request", o.iface, o.ias, s,
                         IF o.ids = 0 THEN 1 ELSE 2, o.cid, Retries)}
      PROVE  TransType /\ cfg' \in [IA -> {"notconf", "inproc", "conf"}]
  <2>1. s \in Server /\ adv[s] > 0
    BY <1>3 DEF Best
  <2>2. adv' \in [Server -> 0..MaxAdv]
    <3>1. adv[s] - 1 \in 0..MaxAdv
      BY <1>1, <2>1, MaxAdvAssumption
    <3> QED
      BY <1>1, <1>3, <3>1
  <2> DEFINE n == New(o.xid, "request", o.iface, o.ias, s,
                      IF o.ids = 0 THEN 1 ELSE 2, o.cid, Retries)
  <2>3. n \in Message /\ n.xid = o.xid
    BY <1>1, <2>1, RetriesAssumption DEF New, Message, Kind
  <2> HIDE DEF n
  <2>4. trans' = (trans \ {o}) \cup {n}
    BY <1>3 DEF n
  <2> QED
    BY <1>1, <1>3, <2>2, <2>3, <2>4 DEF TransType, TypeInv, TypeOK
<1> QED
  BY <1>2, <1>3 DEF SendRequest

\* What an answer puts into the database is well typed.
LEMMA ConfigureType ==
  ASSUME TypeInv, NEW D \in SUBSET IA, NEW s \in Server, NEW how \in [IA -> Outcome],
         Configure(D, s, how)
  PROVE  /\ st' \in [IA -> {"notconf", "inproc", "conf", "confirmme"}]
         /\ addr' \in [IA -> [Server -> Status]]
         /\ from' \in [IA -> Server \cup {NoServer}]
         /\ age' \in [IA -> {"fresh", "due", "frozen"}]
         /\ Configured(D) \in [IA -> {"notconf", "inproc", "conf"}]
<1>1. \A ia \in IA : addr[ia] \in [Server -> Status] /\ Apply(addr[ia], s, how[ia]) \in [Server -> Status]
  BY AddrTypes DEF TypeInv, TypeOK
<1> QED
  BY <1>1 DEF Configure, Configured, TypeInv, TypeOK

LEMMA GivenUpType ==
  ASSUME TypeInv, NEW ias \in SUBSET IA, Rejected(ias) \/ Accepted(ias)
  PROVE  LeasesType
<1>1. \A ia \in IA : /\ addr[ia] \in [Server -> Status]
                     /\ Restarted(addr[ia]) \in [Server -> Status]
                     /\ NoAddr \in [Server -> Status]
  BY AddrTypes DEF TypeInv, TypeOK
<1> QED
  BY <1>1 DEF Rejected, Accepted, LeasesType, TypeInv, TypeOK

\* Answers: the message, its server and the interface are of the right types.
LEMMA ReceiveType ==
  ASSUME TypeInv, Receive
  PROVE  TypeInv'
<1>1. ASSUME NEW m \in trans, NEW s \in Server, ReceiveAdvertise(m, s)
      PROVE  TypeInv'
  <2> DEFINE a == [adv EXCEPT ![s] = @ + 1]
  <2>1. a \in [Server -> 0..MaxAdv]
    BY <1>1, MaxAdvAssumption DEF ReceiveAdvertise, TypeInv, TypeOK
  <2>2. CASE SendRequest(m, m.ias, 0, TRUE, a, cfg)
    <3>1. TransType /\ cfg' \in [IA -> {"notconf", "inproc", "conf"}]
      <4>1. at # "down" /\ m.ias \in SUBSET m.ias /\ 0 \in 0..2 /\ TRUE \in BOOLEAN
        BY <1>1 DEF ReceiveAdvertise
      <4>2. cfg \in [IA -> {"notconf", "inproc", "conf"}]
        BY DEF TypeInv, TypeOK
      <4> HIDE DEF a
      <4> QED
        BY <2>1, <2>2, <4>1, <4>2, SendRequestType
    <3> QED
      BY <1>1, <3>1 DEF ReceiveAdvertise, TransType, TypeInv, TypeOK, Phase
  <2>3. CASE adv' = a /\ UNCHANGED <<cfg, trans>>
    BY <1>1, <2>1, <2>3 DEF ReceiveAdvertise, TypeInv, TypeOK, Phase
  <2> QED
    BY <1>1, <2>2, <2>3 DEF ReceiveAdvertise
<1>2. ASSUME NEW m \in trans, NEW D \in SUBSET IA, NEW how \in [IA -> Outcome],
             D \subseteq m.ias, AnswerRequest(m, D, how)
      PROVE  TypeInv'
  <2>1. m.srv \in Server /\ at = "wait" /\ Configure(D, m.srv, how) /\ at' = "woken" /\ todo' = todo
    BY <1>2 DEF AnswerRequest, Accepts
  <2>2. /\ st' \in [IA -> {"notconf", "inproc", "conf", "confirmme"}]
        /\ addr' \in [IA -> [Server -> Status]]
        /\ from' \in [IA -> Server \cup {NoServer}]
        /\ age' \in [IA -> {"fresh", "due", "frozen"}]
        /\ Configured(D) \in [IA -> {"notconf", "inproc", "conf"}]
    BY <2>1, ConfigureType
  <2>3. CASE SendRequest(m, m.ias \ D, 0, FALSE, adv, Configured(D))
    <3>1. at # "down" /\ m.ias \ D \in SUBSET m.ias /\ 0 \in 0..2 /\ FALSE \in BOOLEAN
      BY <2>1
    <3>2. adv \in [Server -> 0..MaxAdv]
      BY DEF TypeInv, TypeOK
    <3>3. TransType /\ cfg' \in [IA -> {"notconf", "inproc", "conf"}]
      BY <2>2, <2>3, <3>1, <3>2, SendRequestType
    <3> QED
      BY <2>1, <2>2, <3>3 DEF TransType, TypeInv, TypeOK, Phase
  <2>4. CASE cfg' = Configured(D) /\ trans' = trans \ {m} /\ UNCHANGED adv
    BY <2>1, <2>2, <2>4 DEF TypeInv, TypeOK, Phase
  <2> QED
    BY <1>2, <2>3, <2>4 DEF AnswerRequest
<1>3. ASSUME NEW m \in trans, NEW D \in SUBSET IA, NEW how \in [IA -> Outcome],
             NEW nobinding \in BOOLEAN, D \subseteq m.ias,
             AnswerRenew(m, D, how, nobinding)
      PROVE  TypeInv'
  <2>1. m.srv \in Server /\ at = "wait" /\ Configure(D, m.srv, how) /\ at' = "woken" /\ todo' = todo
    BY <1>3 DEF AnswerRenew, Accepts
  <2>2. /\ st' \in [IA -> {"notconf", "inproc", "conf", "confirmme"}]
        /\ addr' \in [IA -> [Server -> Status]]
        /\ from' \in [IA -> Server \cup {NoServer}]
        /\ age' \in [IA -> {"fresh", "due", "frozen"}]
        /\ Configured(D) \in [IA -> {"notconf", "inproc", "conf"}]
    BY <2>1, ConfigureType
  <2>3. CASE SendRequest(m, m.ias, m.ids, m.cid, adv, Configured(D))
    <3>1. at # "down" /\ m.ias \in SUBSET m.ias /\ adv \in [Server -> 0..MaxAdv]
      BY <2>1 DEF TypeInv, TypeOK
    <3>2. TransType /\ cfg' \in [IA -> {"notconf", "inproc", "conf"}]
      BY <2>2, <2>3, <3>1, SendAgainType
    <3> QED
      BY <2>1, <2>2, <3>2 DEF TransType, TypeInv, TypeOK, Phase
  <2>4. CASE cfg' = Configured(D) /\ trans' = trans \ {m} /\ UNCHANGED adv
    BY <2>1, <2>2, <2>4 DEF TypeInv, TypeOK, Phase
  <2> QED
    BY <1>3, <2>3, <2>4 DEF AnswerRenew
<1>4. ASSUME NEW m \in trans, NEW status, AnswerConfirm(m, status)
      PROVE  TypeInv'
  <2>1. m.ias \in SUBSET IA
    BY DEF TypeInv, TypeOK, Message
  <2>2. LeasesType
    BY <1>4, <2>1, GivenUpType DEF AnswerConfirm
  <2> QED
    BY <1>4, <2>2 DEF AnswerConfirm, LeasesType, TypeInv, TypeOK, Phase
<1>5. ASSUME NEW m \in trans, AnswerDecline(m)
      PROVE  TypeInv'
  BY <1>5 DEF AnswerDecline, db, TypeInv, TypeOK, Phase
<1>6. CASE Reconfigure /\ at' = "crashed"
  BY <1>6 DEF Reconfigure, TypeInv, TypeOK, Phase
<1>7. CASE Reconfigure /\ at' # "crashed"
  <2>1. First(IA) \in IA
    BY FirstIsMember, IAAssumption
  <2>2. Free # {}
    <3>1. Roomy /\ Room \in Nat \ {0}
      BY <1>7, RoomAssumption DEF Reconfigure
    <3> QED
      BY <3>1, FS_EmptySet DEF Roomy
  <2> DEFINE m == New(First(Free), "renew", IfaceOf[First(IA)], IA,
                      from[First(IA)], 1, TRUE, Retries)
  <2>3. m \in Message /\ m.xid \in Xid
    BY <2>1, <2>2, FreeXid, RetriesAssumption, IfaceAssumption
    DEF New, Message, Kind, TypeInv, TypeOK
  <2>4. /\ trans' = trans \cup {m} /\ st' = [ia \in IA |-> "inproc"] /\ at' = "woken"
        /\ at = "wait" /\ UNCHANGED <<cfg, addr, from, age, adv, todo>>
    BY <1>7 DEF Reconfigure
  <2> HIDE DEF m
  <2> QED
    BY <2>3, <2>4 DEF TypeInv, TypeOK, Phase
<1> QED
  BY <1>1, <1>2, <1>3, <1>4, <1>5, <1>6, <1>7 DEF Receive, Advertised, Answered, Renewed, OnLink, Declined

\* The pass of doDuties over the messages.
LEMMA DutiesType ==
  ASSUME TypeInv, NEW m \in trans, Duties(m)
  PROVE  TypeInv'
<1>1. m \in Message /\ m.xid \in Xid /\ at = "msgs" /\ at' = at /\ todo' \subseteq Xid
  BY DEF Duties, TypeInv, TypeOK
<1>2. ASSUME LeasesType, TransType
      PROVE  TypeInv'
  BY <1>1, <1>2 DEF LeasesType, TransType, TypeInv, TypeOK
<1>3. UNCHANGED db => LeasesType
  BY DEF db, LeasesType, TypeInv, TypeOK
<1>4. UNCHANGED <<st, addr, from, age>> /\ cfg' \in [IA -> {"notconf", "inproc", "conf"}] => LeasesType
  BY DEF LeasesType, TypeInv, TypeOK
<1>5. ASSUME NEW n \in Message, n.xid = m.xid, trans' = (trans \ {m}) \cup {n}, UNCHANGED adv
      PROVE  TransType
  BY <1>1, <1>5 DEF TransType, TypeInv, TypeOK
<1>6. trans' = trans \ {m} /\ UNCHANGED adv => TransType
  BY <1>1 DEF TransType, TypeInv, TypeOK
<1>7. CASE Resend(m)
  <2>1. [m EXCEPT !.left = @ - 1] \in Message /\ [m EXCEPT !.left = @ - 1].xid = m.xid
    BY <1>1, <1>7, ResendType DEF Resend, Message
  <2>2. TransType
    BY <1>5, <1>7, <2>1 DEF Resend
  <2> QED
    BY <1>2, <1>3, <1>7, <2>2 DEF Resend
<1>8. CASE SolicitDuties(m)
  <2>1. CASE Best(adv) # {}
    <3>1. SendRequest(m, m.ias, 0, TRUE, adv, cfg) /\ UNCHANGED <<st, addr, from, age>>
      BY <1>8, <2>1 DEF SolicitDuties
    <3>2. /\ at # "down" /\ m.ias \in SUBSET m.ias /\ 0 \in 0..2 /\ TRUE \in BOOLEAN
          /\ cfg \in [IA -> {"notconf", "inproc", "conf"}] /\ adv \in [Server -> 0..MaxAdv]
      BY <1>1 DEF TypeInv, TypeOK
    <3>3. TransType /\ cfg' \in [IA -> {"notconf", "inproc", "conf"}]
      BY <3>1, <3>2, SendRequestType
    <3> QED
      BY <1>2, <1>4, <3>1, <3>3
  <2>2. CASE Best(adv) = {}
    <3>1. trans' = (trans \ {m}) \cup {[m EXCEPT !.left = 0]} /\ UNCHANGED <<db, adv>>
      BY <1>8, <2>2 DEF SolicitDuties
    <3>2. [m EXCEPT !.left = 0] \in Message /\ [m EXCEPT !.left = 0].xid = m.xid
      BY <1>1 DEF Message
    <3> QED
      BY <1>2, <1>3, <1>5, <3>1, <3>2
  <2> QED
    BY <2>1, <2>2
<1>9. ASSUME RequestDuties(m), ~Resend(m)
      PROVE  TypeInv'
  <2>1. SendRequest(m, m.ias, m.ids, m.cid, adv, cfg) /\ UNCHANGED <<st, addr, from, age>>
    BY <1>9 DEF RequestDuties
  <2>2. at # "down" /\ cfg \in [IA -> {"notconf", "inproc", "conf"}]
    BY <1>1 DEF TypeInv, TypeOK
  <2>3. TransType /\ cfg' \in [IA -> {"notconf", "inproc", "conf"}]
    BY <2>1, <2>2, SendAgainType
  <2> QED
    BY <1>2, <1>4, <2>1, <2>3
<1>10. ASSUME RenewDuties(m), ~Resend(m)
       PROVE  TypeInv'
  <2>1. UNCHANGED <<db, adv>> /\ \E left \in {Retries, 0} :
           trans' = (trans \ {m}) \cup
              {New(m.xid, "rebind", m.iface, m.ias, NoServer, 0, TRUE, left)}
    BY <1>10 DEF RenewDuties
  <2>2. PICK left \in {Retries, 0} :
           trans' = (trans \ {m}) \cup
              {New(m.xid, "rebind", m.iface, m.ias, NoServer, 0, TRUE, left)}
    BY <2>1
  <2> DEFINE n == New(m.xid, "rebind", m.iface, m.ias, NoServer, 0, TRUE, left)
  <2>3. n \in Message /\ n.xid = m.xid
    BY <1>1, RetriesAssumption DEF New, Message, Kind
  <2>4. trans' = (trans \ {m}) \cup {n}
    BY <2>2
  <2> HIDE DEF n
  <2> QED
    BY <1>2, <1>3, <1>5, <2>1, <2>3, <2>4
<1>11. ASSUME RebindDuties(m) \/ ConfirmDuties(m), ~Resend(m)
       PROVE  TypeInv'
  <2>1. (Rejected(m.ias) \/ Accepted(m.ias)) /\ trans' = trans \ {m} /\ UNCHANGED adv
    BY <1>11 DEF RebindDuties, ConfirmDuties
  <2>2. m.ias \in SUBSET IA
    BY <1>1 DEF Message
  <2> QED
    BY <1>2, <1>6, <2>1, <2>2, GivenUpType
<1>12. ASSUME DeclineDuties(m), ~Resend(m)
       PROVE  TypeInv'
  <2>1. trans' = trans \ {m} /\ UNCHANGED <<db, adv>>
    BY <1>12 DEF DeclineDuties
  <2> QED
    BY <1>2, <1>3, <1>6, <2>1
<1> QED
  BY <1>7, <1>8, <1>9, <1>10, <1>11, <1>12 DEF Duties

LEMMA TimeType ==
  ASSUME TypeInv, Time
  PROVE  TypeInv'
<1>1. ASSUME NEW ia \in IA, T1(ia)
      PROVE  TypeInv'
  BY <1>1 DEF T1, TypeInv, TypeOK
<1>2. ASSUME NEW ia \in IA, NEW s \in Server, Elapse(ia, s)
      PROVE  TypeInv'
  <2>1. addr' = [addr EXCEPT ![ia][s] = "over"] /\ "over" \in Status
    BY <1>2 DEF Elapse, Status
  <2>2. addr' \in [IA -> [Server -> Status]]
    BY <2>1 DEF TypeInv, TypeOK
  <2> QED
    BY <1>2, <2>2 DEF Elapse, TypeInv, TypeOK
<1>3. ASSUME NEW ia \in IA, NEW s \in Server, Detect(ia, s)
      PROVE  TypeInv'
  <2>1. PICK d \in Status : addr' = [addr EXCEPT ![ia][s] = d]
    BY <1>3 DEF Detect, Status
  <2>2. addr' \in [IA -> [Server -> Status]]
    BY <2>1 DEF TypeInv, TypeOK
  <2> QED
    BY <1>3, <2>2 DEF Detect, TypeInv, TypeOK
<1> QED
  BY <1>1, <1>2, <1>3 DEF Time

\* The addresses without those that are over.
Kept == [ia \in IA |-> [s \in Server |->
            IF addr[ia][s] = "over" THEN "none" ELSE addr[ia][s]]]

LEMMA KeptType ==
  ASSUME TypeInv
  PROVE  Kept \in [IA -> [Server -> Status]]
BY DEF Kept, Status, TypeInv, TypeOK

\* The IAs checkDecline groups are IAs, the first of them among them.
LEMMA DeclinedIAs ==
  ASSUME CheckDecline
  PROVE  \E f \in IA, G \in SUBSET IA, x \in Free :
           /\ Tentative(f) = "yes" /\ f \in G /\ Free # {x}
           /\ \A ia \in G : ia = f \/ \E b \in IA : b > f /\ ia > f /\ ia # b
           /\ addr' = [ia \in IA |-> [s \in Server |->
                          IF ia \in G /\ addr[ia][s] = "dup" THEN "none"
                          ELSE addr[ia][s]]]
           /\ trans' = trans \cup
                {New(x, "decline", IfaceOf[f], G, from[f], 1, TRUE, Retries),
                 New(First(Free \ {x}), "request", IfaceOf[f], G, from[f], 1, TRUE,
                     Retries)}
           /\ at = "decline" /\ UNCHANGED <<cfg, st, from, age, adv, todo, at>>
<1> DEFINE T == {ia \in IA : Tentative(ia) = "yes"}
           f == First(T)
           Behind == {ia \in IA : ia > f}
           G == {f} \cup {ia \in T \cap Behind :
                             /\ ia # First(Behind)
                             /\ from[ia] = from[f]}
           x == First(Free)
<1>1. T # {} /\ T \subseteq Nat
  BY IAAssumption DEF CheckDecline
<1>2. f \in T
  <2> HIDE DEF T
  <2> QED BY <1>1, FirstIsMember
<1>3. \A ia \in Behind : First(Behind) \in Behind
  <2>1. Behind \subseteq Nat
    BY IAAssumption
  <2> HIDE DEF Behind
  <2> QED BY <2>1, FirstIsMember
<1>4. \A ia \in G : ia = f \/ \E b \in IA : b > f /\ ia > f /\ ia # b
  BY <1>3
<1>5. /\ x \in Free /\ Free # {x}
      /\ addr' = [ia \in IA |-> [s \in Server |->
                     IF ia \in G /\ addr[ia][s] = "dup" THEN "none"
                     ELSE addr[ia][s]]]
      /\ trans' = trans \cup
           {New(x, "decline", IfaceOf[f], G, from[f], 1, TRUE, Retries),
            New(First(Free \ {x}), "request", IfaceOf[f], G, from[f], 1, TRUE,
                Retries)}
      /\ at = "decline" /\ UNCHANGED <<cfg, st, from, age, adv, todo, at>>
  BY DEF CheckDecline
<1>6. f \in IA /\ Tentative(f) = "yes" /\ f \in G /\ G \in SUBSET IA
  BY <1>2
<1> HIDE DEF f, G, x
<1> QED
  BY <1>4, <1>5, <1>6

LEMMA PassType ==
  ASSUME TypeInv, Pass
  PROVE  TypeInv'
<1>1. CASE SleepEnds
  BY <1>1 DEF SleepEnds, db, TypeInv, TypeOK, Phase
<1>2. ASSUME NEW C, Begin(C)
      PROVE  TypeInv'
  BY <1>2 DEF Begin, TypeInv, TypeOK, Phase
<1>3. CASE EndOfMessages
  BY <1>3 DEF EndOfMessages, db, TypeInv, TypeOK, Phase
<1>4. CASE RemoveExpired
  <2>1. addr' = Kept
    BY <1>4 DEF RemoveExpired, Kept
  <2>2. cfg' \in [IA -> {"notconf", "inproc", "conf"}]
    BY <1>4 DEF RemoveExpired, TypeInv, TypeOK
  <2> QED
    BY <1>4, <2>1, <2>2, KeptType DEF RemoveExpired, TypeInv, TypeOK, Phase
<1>5. CASE Prune
  <2>1. addr' = Kept
    BY <1>5 DEF Prune, Kept
  <2>2. st' \in [IA -> {"notconf", "inproc", "conf", "confirmme"}]
    BY <1>5 DEF Prune, TypeInv, TypeOK
  <2> QED
    BY <1>5, <2>1, <2>2, KeptType DEF Prune, TypeInv, TypeOK, Phase
<1>6. ASSUME NEW i \in Iface, CheckConfirm(i)
      PROVE  TypeInv'
  <2> DEFINE C == {ia \in On(i) : st[ia] = "confirmme"}
             m == New(First(Free), "confirm", i, C, NoServer, 0, TRUE, Retries)
  <2>1. C \in SUBSET IA /\ First(Free) \in Xid
    BY <1>6, FreeXid DEF CheckConfirm, On
  <2>2. m \in Message /\ m.xid \in Xid
    <3> HIDE DEF C
    <3> QED BY <2>1, RetriesAssumption DEF New, Message, Kind
  <2>3. trans' = trans \cup {m} /\ UNCHANGED <<addr, from, age, adv, todo, at>>
        /\ cfg' \in [IA -> {"notconf", "inproc", "conf"}]
        /\ st' \in [IA -> {"notconf", "inproc", "conf", "confirmme"}]
    BY <1>6 DEF CheckConfirm, TypeInv, TypeOK
  <2> HIDE DEF m
  <2> QED
    BY <2>2, <2>3 DEF TypeInv, TypeOK
<1>7. CASE EndOfConfirm \/ EndOfDecline \/ EndOfSolicit
  BY <1>7 DEF EndOfConfirm, EndOfDecline, EndOfSolicit, db, TypeInv, TypeOK, Phase
<1>8. CASE CheckDecline
  <2>1. PICK f \in IA, G \in SUBSET IA, x \in Free :
           /\ Tentative(f) = "yes" /\ f \in G /\ Free # {x}
           /\ addr' = [ia \in IA |-> [s \in Server |->
                          IF ia \in G /\ addr[ia][s] = "dup" THEN "none"
                          ELSE addr[ia][s]]]
           /\ trans' = trans \cup
                {New(x, "decline", IfaceOf[f], G, from[f], 1, TRUE, Retries),
                 New(First(Free \ {x}), "request", IfaceOf[f], G, from[f], 1, TRUE,
                     Retries)}
           /\ at = "decline" /\ UNCHANGED <<cfg, st, from, age, adv, todo, at>>
    BY <1>8, DeclinedIAs
  <2>2. /\ x \in Xid /\ First(Free \ {x}) \in Xid /\ IfaceOf[f] \in Iface
        /\ from[f] \in Server \cup {NoServer}
    BY <2>1, FreeXid, IfaceAssumption DEF TypeInv, TypeOK
  <2> DEFINE d == New(x, "decline", IfaceOf[f], G, from[f], 1, TRUE, Retries)
             r == New(First(Free \ {x}), "request", IfaceOf[f], G, from[f], 1, TRUE, Retries)
  <2>3. d \in Message /\ d.xid \in Xid
    BY <2>1, <2>2, RetriesAssumption DEF New, Message, Kind
  <2>4. r \in Message /\ r.xid \in Xid
    BY <2>1, <2>2, RetriesAssumption DEF New, Message, Kind
  <2>5. trans' = trans \cup {d, r}
    BY <2>1
  <2>6. addr' \in [IA -> [Server -> Status]]
    BY <2>1 DEF Status, TypeInv, TypeOK
  <2> HIDE DEF d, r
  <2> QED
    BY <2>1, <2>3, <2>4, <2>5, <2>6 DEF TypeInv, TypeOK
<1>9. ASSUME NEW i \in Iface, CheckSolicit(i)
      PROVE  TypeInv'
  <2> DEFINE L == {ia \in On(i) : cfg[ia] = "notconf"}
             m == New(First(Free), "solicit", i, L, NoServer, 0, TRUE, 1)
  <2>1. L \in SUBSET IA /\ First(Free) \in Xid
    BY <1>9, FreeXid DEF CheckSolicit, On
  <2>2. m \in Message /\ m.xid \in Xid
    <3> HIDE DEF L
    <3> QED BY <2>1 DEF New, Message, Kind
  <2>3. trans' = trans \cup {m} /\ UNCHANGED <<addr, from, age, adv, todo, at>>
        /\ cfg' \in [IA -> {"notconf", "inproc", "conf"}]
        /\ st' \in [IA -> {"notconf", "inproc", "conf", "confirmme"}]
    BY <1>9 DEF CheckSolicit, TypeInv, TypeOK
  <2> HIDE DEF m
  <2> QED
    BY <2>2, <2>3 DEF TypeInv, TypeOK
<1>10. CASE CheckRenew
  <2> DEFINE A == {ia \in IA : /\ age[ia] = "due" /\ st[ia] = "conf"
                               /\ Tentative(ia) # "unknown"}
             f == First(A)
             G == {ia \in A : /\ IfaceOf[ia] = IfaceOf[f]
                              /\ (from[ia] = NoServer) = (from[f] = NoServer)}
             m == New(First(Free), "renew", IfaceOf[f], G, from[f], 1, TRUE, Retries)
  <2>1. at = "renew" /\ at' = "wait" /\ UNCHANGED <<cfg, addr, from, age, adv, todo>>
    BY <1>10 DEF CheckRenew
  <2>2. CASE A = {}
    <3>1. UNCHANGED <<st, trans>>
      BY <1>10, <2>2 DEF CheckRenew
    <3> QED
      BY <2>1, <3>1 DEF TypeInv, TypeOK, Phase
  <2>3. CASE A # {}
    <3>1. /\ st' = [ia \in IA |-> IF ia \in G THEN "inproc" ELSE st[ia]]
          /\ Free # {} /\ trans' = trans \cup {m}
      BY <1>10, <2>3 DEF CheckRenew
    <3>2. A \subseteq IA /\ A \subseteq Nat
      BY IAAssumption
    <3>3. f \in IA /\ First(Free) \in Xid
      <4>1. f \in A
        <5> HIDE DEF A
        <5> QED BY <2>3, <3>2, FirstIsMember
      <4> QED
        BY <3>1, <3>2, <4>1, FreeXid
    <3>4. G \in SUBSET IA
      BY <3>2
    <3>5. m \in Message /\ m.xid \in Xid
      <4> HIDE DEF f, G
      <4>1. IfaceOf[f] \in Iface /\ from[f] \in Server \cup {NoServer}
        BY <3>3, IfaceAssumption DEF TypeInv, TypeOK
      <4> QED
        BY <3>3, <3>4, <4>1, RetriesAssumption DEF New, Message, Kind
    <3>6. st' \in [IA -> {"notconf", "inproc", "conf", "confirmme"}]
      <4> HIDE DEF G
      <4> QED BY <3>1 DEF TypeInv, TypeOK
    <3> HIDE DEF m, G, f
    <3> QED
      BY <2>1, <3>1, <3>5, <3>6 DEF TypeInv, TypeOK, Phase
  <2> QED
    BY <2>2, <2>3
<1> QED
  BY <1>1, <1>2, <1>3, <1>4, <1>5, <1>6, <1>7, <1>8, <1>9, <1>10 DEF Pass

LEMMA ShutdownType ==
  ASSUME TypeInv, Shutdown
  PROVE  TypeInv'
<1> DEFINE K == {ia \in IA : st[ia] \in {"conf", "inproc"} /\ Held(ia) # {}}
           Alike(ia) == {j \in K : from[j] = from[ia] /\ IfaceOf[j] = IfaceOf[ia]}
<1>1. /\ at' = "down" /\ UNCHANGED <<db, adv, todo>>
      /\ trans' = {New(ia, "release", IfaceOf[ia], Alike(ia), from[ia], 1, TRUE, 0)
                    : ia \in {j \in K : j = First(Alike(j))}}
  BY DEF Shutdown
<1>2. ASSUME NEW ia \in IA
      PROVE  New(ia, "release", IfaceOf[ia], Alike(ia), from[ia], 1, TRUE, 0) \in Message
  <2>1. Alike(ia) \in SUBSET IA /\ IfaceOf[ia] \in Iface /\ from[ia] \in Server \cup {NoServer}
    BY IfaceAssumption DEF TypeInv, TypeOK
  <2> QED
    BY <2>1 DEF New, Message, Kind
<1>3. trans' \subseteq Message
  BY <1>1, <1>2
<1> QED
  BY <1>1, <1>3 DEF db, TypeInv, TypeOK, Phase

LEMMA TypeStep ==
  ASSUME TypeInv, [Next]_vars
  PROVE  TypeInv'
<1>1. ASSUME NEW x, Due(x)
      PROVE  TypeInv'
  BY <1>1, DutiesType DEF Due
<1>2. CASE UNCHANGED vars
  BY <1>2 DEF vars, db, TypeInv, TypeOK
<1> QED
  BY <1>1, <1>2, ReceiveType, TimeType, PassType, ShutdownType DEF Next, Down, Gone

LEMMA TypeInvariance == Spec => []TypeInv
<1>1. Init => TypeInv
  <2> SUFFICES ASSUME Init
               PROVE  TypeInv
    OBVIOUS
  <2>1. addr \in [IA -> [Server -> Status]]
    BY DEF Init, NoAddr, Status
  <2>2. /\ from \in [IA -> Server \cup {NoServer}]
        /\ st \in [IA -> {"notconf", "inproc", "conf", "confirmme"}]
    BY DEF Init
  <2>3. adv \in [Server -> 0..MaxAdv]
    BY MaxAdvAssumption DEF Init
  <2> QED
    BY <2>1, <2>2, <2>3 DEF Init, TypeInv, TypeOK, Phase
<1> QED
  BY <1>1, TypeStep, PTL DEF Spec

\* The client's database, transactions and advertisements stay within their
\* types, whatever answers arrive and whichever timeouts elapse.
THEOREM ClientTypeCorrect == Spec => []TypeOK
<1>1. TypeInv => TypeOK
  BY DEF TypeInv
<1> QED
  BY TypeInvariance, <1>1, PTL

-----------------------------------------------------------------------------
(* What is held is released                                                 *)

\* An IA in state NOTCONFIGURED holds nothing: what shutdown passes over.
Known == \A ia \in IA : st[ia] = "notconf" => Held(ia) = {}

LEMMA KnownStep ==
  ASSUME TypeInv, Known, [Next]_vars
  PROVE  Known'
<1>1. \A D, s, how : Configure(D, s, how) => Known'
  BY DEF Configure, Known, Held
<1>2. \A ias : Rejected(ias) \/ Accepted(ias) => Known'
  BY DEF Rejected, Accepted, Known, Held, NoAddr, Restarted
<1>3. UNCHANGED <<st, addr>> => Known'
  BY DEF Known, Held
<1>4. CASE Receive
  <2>1. ASSUME NEW m, NEW s, ReceiveAdvertise(m, s) \/ AnswerDecline(m)
        PROVE  Known'
    BY <1>3, <2>1 DEF ReceiveAdvertise, AnswerDecline, db
  <2>2. ASSUME NEW m, NEW D, NEW how, NEW nb, AnswerRequest(m, D, how) \/ AnswerRenew(m, D, how, nb)
        PROVE  Known'
    BY <1>1, <2>2 DEF AnswerRequest, AnswerRenew
  <2>3. ASSUME NEW m, NEW status, AnswerConfirm(m, status)
        PROVE  Known'
    BY <1>2, <2>3 DEF AnswerConfirm
  <2>4. CASE Reconfigure
    BY <2>4 DEF Reconfigure, Known, Held
  <2> QED
    BY <1>4, <2>1, <2>2, <2>3, <2>4 DEF Receive, Advertised, Answered, Renewed, OnLink, Declined
<1>5. CASE Time
  <2>1. ASSUME NEW ia, T1(ia)
        PROVE  Known'
    BY <1>3, <2>1 DEF T1
  <2>2. ASSUME NEW ia \in IA, NEW s \in Server, Elapse(ia, s) \/ Detect(ia, s)
        PROVE  Known'
    <3>1. addr[ia][s] # "none" /\ st' = st /\ \E d : addr' = [addr EXCEPT ![ia][s] = d]
      BY <2>2 DEF Elapse, Detect
    <3>2. st[ia] # "notconf"
      BY <3>1 DEF Known, Held
    <3> QED
      BY <3>1, <3>2 DEF Known, Held, TypeInv, TypeOK
  <2> QED
    BY <1>5, <2>1, <2>2 DEF Time
<1>6. ASSUME NEW x, Due(x)
      PROVE  Known'
  <2>1. PICK m \in trans : Duties(m)
    BY <1>6 DEF Due
  <2>2. UNCHANGED <<st, addr>> \/ Rejected(m.ias) \/ Accepted(m.ias)
    BY <2>1 DEF Duties, SolicitDuties, RequestDuties, RenewDuties, RebindDuties,
                ConfirmDuties, DeclineDuties, Resend, db
  <2> QED
    BY <1>2, <1>3, <2>2
<1>7. CASE Pass
  <2>1. CASE SleepEnds \/ EndOfMessages \/ EndOfConfirm \/ EndOfDecline \/ EndOfSolicit
    BY <1>3, <2>1 DEF SleepEnds, EndOfMessages, EndOfConfirm, EndOfDecline, EndOfSolicit, db
  <2>2. ASSUME NEW C, Begin(C)
        PROVE  Known'
    BY <2>2 DEF Begin, Known, Held
  <2>3. CASE RemoveExpired
    BY <2>3 DEF RemoveExpired, Known, Held
  <2>4. CASE Prune
    BY <2>4 DEF Prune, Known, Held, NoAddr
  <2>5. ASSUME NEW i, CheckConfirm(i) \/ CheckSolicit(i)
        PROVE  Known'
    BY <2>5 DEF CheckConfirm, CheckSolicit, Known, Held
  <2>6. CASE CheckDecline
    BY <2>6 DEF CheckDecline, Known, Held
  <2>7. CASE CheckRenew
    BY <2>7 DEF CheckRenew, Known, Held
  <2> QED
    BY <1>7, <2>1, <2>2, <2>3, <2>4, <2>5, <2>6, <2>7 DEF Pass
<1>8. CASE Shutdown \/ Down \/ UNCHANGED vars
  BY <1>3, <1>8 DEF Shutdown, Down, db, vars
<1> QED
  BY <1>4, <1>5, <1>6, <1>7, <1>8 DEF Next

\* Each IA that shutdown finds with addresses is in a RELEASE: that of the first
\* IA with its server and interface.
LEMMA ShutdownReleases ==
  ASSUME TypeInv, Known, Shutdown,
         NEW ia \in IA, Held(ia) # {}, st[ia] # "confirmme"
  PROVE  \E m \in trans' : m.type = "release" /\ ia \in m.ias
<1> DEFINE K == {i \in IA : st[i] \in {"conf", "inproc"} /\ Held(i) # {}}
           Alike(i) == {j \in K : from[j] = from[i] /\ IfaceOf[j] = IfaceOf[i]}
           f == First(Alike(ia))
           m == New(f, "release", IfaceOf[f], Alike(f), from[f], 1, TRUE, 0)
<1>1. trans' = {New(i, "release", IfaceOf[i], Alike(i), from[i], 1, TRUE, 0)
                  : i \in {j \in K : j = First(Alike(j))}}
  BY DEF Shutdown
<1>2. ia \in K /\ ia \in Alike(ia) /\ Alike(ia) \subseteq Nat
  BY IAAssumption DEF Known, TypeInv, TypeOK
<1>3. f \in Alike(ia)
  <2> DEFINE S == Alike(ia)
  <2>1. S \subseteq Nat /\ S # {}
    BY <1>2
  <2> HIDE DEF S
  <2>2. First(S) \in S
    BY <2>1, FirstIsMember
  <2> QED
    BY <2>2 DEF S
<1>4. f \in K /\ Alike(f) = Alike(ia)
  BY <1>3
<1>5. m \in trans'
  BY <1>1, <1>4
<1>6. m.type = "release" /\ ia \in m.ias
  BY <1>2, <1>4 DEF New
<1> QED
  BY <1>5, <1>6

LEMMA KnownInvariance == Spec => []Known
<1>1. Init => Known
  BY DEF Init, Known, Held, NoAddr
<1> QED
  BY TypeInvariance, KnownStep, <1>1, PTL DEF Spec

\* shutdown releases every address, of whatever server and interface, but those
\* whose confirmation has not been asked for yet.
THEOREM AllReleasedHolds == Spec => AllReleased
<1> DEFINE Rel == Shutdown => \A ia \in IA :
                    Held(ia) # {} /\ st[ia] # "confirmme" =>
                       \E m \in trans' : m.type = "release" /\ ia \in m.ias
<1>1. TypeInv /\ Known => [Rel]_vars
  BY ShutdownReleases
<1> QED
  BY TypeInvariance, KnownInvariance, <1>1, PTL DEF Spec, AllReleased

-----------------------------------------------------------------------------
(* No IA is forgotten.  With one IA to an interface, and no more than two    *)
(* where duplicates are found: checkDecline asks for the addresses of a      *)
(* third one on the interface of the first.  Addresses go only under         *)
(* removeExpired: no server revokes one and no tick comes between.           *)

OneByOne ==
  /\ \A a, b \in IA : IfaceOf[a] = IfaceOf[b] => a = b
  /\ Duplicates => \A a, b, c \in IA : a = b \/ b = c \/ a = c

Undisturbed == OneByOne /\ ~Ticks /\ ~Revoking

Sought(ia) == cfg[ia] = "notconf" \/ Asking(ia)

\* Beside the property: what is over is gone when the address database is pruned,
\* what is to be confirmed has survived it, and no duplicate comes from nowhere.
AskInv ==
  /\ at # "down" => \A ia \in IA : Held(ia) = {} => Sought(ia)
  /\ at = "prune" => \A ia \in IA, s \in Server : addr[ia][s] # "over"
  /\ at = "confirm" => \A ia \in IA : st[ia] = "confirmme" => Held(ia) # {}
  /\ Duplicates \/ \A ia \in IA, s \in Server : addr[ia][s] # "dup"

\* A request goes on asking for its IAs, or they are to be solicited anew.
LEMMA AskAgain ==
  ASSUME NEW o \in trans, NEW ias, NEW ids, NEW cid, NEW a, NEW c, SendRequest(o, ias, ids, cid, a, c)
  PROVE  /\ \A m \in trans : m # o => m \in trans'
         /\ \A ia \in IA : c[ia] = "notconf" /\ c \in [IA -> {"notconf", "inproc", "conf"}]
                              => cfg'[ia] = "notconf"
         /\ \A ia \in IA : ia \in ias /\ IfaceOf[ia] = o.iface => Sought(ia)'
<1>1. CASE /\ trans' = trans \ {o}
           /\ cfg' = [ia \in IA |-> IF ia \in ias /\ IfaceOf[ia] = o.iface
                                    THEN "notconf" ELSE c[ia]]
  BY <1>1 DEF Sought
<1>2. ASSUME cfg' = c, NEW s,
             trans' = (trans \ {o}) \cup
                    {New(o.xid, "request", o.iface, ias, s,
                         IF ids = 0 THEN 1 ELSE 2, cid, Retries)}
      PROVE  /\ \A m \in trans : m # o => m \in trans'
             /\ \A ia \in IA : c[ia] = "notconf" => cfg'[ia] = "notconf"
             /\ \A ia \in IA : ia \in ias /\ IfaceOf[ia] = o.iface => Sought(ia)'
  <2> DEFINE n == New(o.xid, "request", o.iface, ias, s,
                      IF ids = 0 THEN 1 ELSE 2, cid, Retries)
  <2>1. n \in trans' /\ n.type = "request" /\ n.ias = ias /\ n.iface = o.iface
    BY <1>2 DEF New
  <2>2. \A m \in trans : m # o => m \in trans'
    BY <1>2
  <2> HIDE DEF n
  <2> QED
    BY <1>2, <2>1, <2>2 DEF Sought, Asking
<1> QED
  BY <1>1, <1>2 DEF SendRequest

\* An answer gives the IAs it configures an address; the others keep theirs.
LEMMA ConfigureHolds ==
  ASSUME Undisturbed, TypeInv, AskInv, NEW D, NEW s \in Server, NEW how \in [IA -> Outcome],
         Configure(D, s, how)
  PROVE  /\ \A ia \in IA : IF ia \in D THEN Held(ia)' # {} ELSE Held(ia)' = Held(ia)
         /\ Duplicates \/ \A ia \in IA, r \in Server : addr'[ia][r] # "dup"
<1>1. ASSUME NEW ia \in IA
      PROVE  /\ Apply(addr[ia], s, how[ia])[s] # "none"
             /\ Apply(addr[ia], s, how[ia]) \in [Server -> Status]
             /\ \A r \in Server : Apply(addr[ia], s, how[ia])[r] = "dup" => addr[ia][r] = "dup"
  <2>1. how[ia] = "lease"
    BY DEF Undisturbed, Outcome
  <2>2. addr[ia] \in [Server -> Status]
    BY DEF TypeInv, TypeOK
  <2> QED
    BY <2>1, <2>2 DEF Apply, Restarted, Status
<1>2. ASSUME NEW ia \in IA, ia \in D
      PROVE  Held(ia)' # {}
  BY <1>1, <1>2 DEF Configure, Held
<1>3. ASSUME NEW ia \in IA, ia \notin D
      PROVE  Held(ia)' = Held(ia)
  BY <1>3 DEF Configure, Held
<1>4. Duplicates \/ \A ia \in IA, r \in Server : addr'[ia][r] # "dup"
  BY <1>1 DEF Configure, AskInv
<1> QED
  BY <1>2, <1>3, <1>4

\* An IA stays sought when a message becomes a request that keeps it.
LEMMA SoughtOn ==
  ASSUME NEW o \in trans, NEW ias, NEW ids, NEW cid, NEW a,
         NEW c \in [IA -> {"notconf", "inproc", "conf"}],
         SendRequest(o, ias, ids, cid, a, c),
         NEW ia \in IA, c[ia] = "notconf" \/ Asking(ia), ia \in o.ias => ia \in ias
  PROVE  Sought(ia)'
<1>1. /\ \A m \in trans : m # o => m \in trans'
      /\ c[ia] = "notconf" => cfg'[ia] = "notconf"
      /\ ia \in ias /\ IfaceOf[ia] = o.iface => Sought(ia)'
  BY AskAgain
<1>2. CASE c[ia] = "notconf"
  BY <1>1, <1>2 DEF Sought
<1>3. CASE Asking(ia)
  <2>1. PICK m \in trans : /\ m.type \in {"solicit", "request"}
                           /\ ia \in m.ias /\ m.iface = IfaceOf[ia]
    BY <1>3 DEF Asking
  <2>2. CASE m = o
    BY <1>1, <2>1, <2>2
  <2>3. CASE m # o
    BY <1>1, <2>1, <2>3 DEF Sought, Asking
  <2> QED
    BY <2>2, <2>3
<1> QED
  BY <1>2, <1>3

\* ... and when what ends is no solicit and no request.
LEMMA SoughtBeside ==
  ASSUME NEW ia \in IA, Sought(ia),
         cfg[ia] = "notconf" => cfg'[ia] = "notconf",
         \A m \in trans : m.type \in {"solicit", "request"} => m \in trans'
  PROVE  Sought(ia)'
BY DEF Sought, Asking

\* Answers
LEMMA AskReceive ==
  ASSUME Undisturbed, TypeInv, AskInv, Receive
  PROVE  AskInv'
<1>0. at = "wait" /\ at' \in {"woken", "crashed"}
  BY DEF Receive, Advertised, Answered, Renewed, OnLink, Declined, ReceiveAdvertise,
         AnswerRequest, AnswerRenew, AnswerConfirm, AnswerDecline, Reconfigure
<1>1. ASSUME UNCHANGED addr, \A ia \in IA : Held(ia) = {} => Sought(ia)'
      PROVE  AskInv'
  BY <1>0, <1>1 DEF AskInv, Held
<1>2. ASSUME NEW m \in trans, NEW s \in Server, ReceiveAdvertise(m, s)
      PROVE  AskInv'
  <2> DEFINE a == [adv EXCEPT ![s] = @ + 1]
  <2>1. CASE SendRequest(m, m.ias, 0, TRUE, a, cfg)
    <3>1. cfg \in [IA -> {"notconf", "inproc", "conf"}]
      BY DEF TypeInv, TypeOK
    <3>2. \A ia \in IA : Held(ia) = {} => Sought(ia)
      BY <1>0 DEF AskInv
    <3> HIDE DEF a
    <3>3. \A ia \in IA : Sought(ia) => Sought(ia)'
      BY <2>1, <3>1, SoughtOn DEF Sought
    <3> QED
      BY <1>1, <1>2, <3>2, <3>3 DEF ReceiveAdvertise
  <2>2. CASE UNCHANGED <<cfg, trans>>
    <3>1. \A ia \in IA : Held(ia) = {} => Sought(ia)'
      BY <1>0, <2>2 DEF AskInv, Sought, Asking
    <3> QED
      BY <1>1, <1>2, <3>1 DEF ReceiveAdvertise
  <2> QED
    BY <1>2, <2>1, <2>2 DEF ReceiveAdvertise
<1>3. ASSUME NEW D, NEW s \in Server, NEW how \in [IA -> Outcome], Configure(D, s, how),
             \A ia \in IA : ia \notin D /\ Sought(ia) => Sought(ia)'
      PROVE  AskInv'
  <2>1. /\ \A ia \in IA : IF ia \in D THEN Held(ia)' # {} ELSE Held(ia)' = Held(ia)
        /\ Duplicates \/ \A ia \in IA, r \in Server : addr'[ia][r] # "dup"
    BY <1>3, ConfigureHolds
  <2> QED
    BY <1>0, <1>3, <2>1 DEF AskInv
<1>4. ASSUME NEW m \in trans, NEW D \in SUBSET IA, NEW how \in [IA -> Outcome],
             D \subseteq m.ias, AnswerRequest(m, D, how)
      PROVE  AskInv'
  <2>1. m.srv \in Server /\ Configure(D, m.srv, how)
    BY <1>4 DEF AnswerRequest, Accepts
  <2>2. Configured(D) \in [IA -> {"notconf", "inproc", "conf"}]
    BY DEF Configured, TypeInv, TypeOK
  <2>3. \A ia \in IA : ia \notin D => Configured(D)[ia] = cfg[ia]
    BY DEF Configured
  <2>4. CASE SendRequest(m, m.ias \ D, 0, FALSE, adv, Configured(D))
    <3>1. ASSUME NEW ia \in IA, ia \notin D, Sought(ia)
          PROVE  Sought(ia)'
      <4>1. Configured(D)[ia] = "notconf" \/ Asking(ia)
        BY <2>3, <3>1 DEF Sought
      <4>2. ia \in m.ias => ia \in m.ias \ D
        BY <3>1
      <4> QED
        BY <2>2, <2>4, <4>1, <4>2, SoughtOn
    <3> QED
      BY <1>3, <2>1, <3>1
  <2>5. CASE m.ias \ D = {} /\ cfg' = Configured(D) /\ trans' = trans \ {m}
    <3>1. \A ia \in IA : ia \notin D /\ Sought(ia) => Sought(ia)'
      BY <1>4, <2>3, <2>5 DEF Sought, Asking
    <3> QED
      BY <1>3, <2>1, <3>1
  <2> QED
    BY <1>4, <2>4, <2>5 DEF AnswerRequest
<1>5. ASSUME NEW m \in trans, NEW D \in SUBSET IA, NEW how \in [IA -> Outcome],
             NEW nobinding \in BOOLEAN, AnswerRenew(m, D, how, nobinding)
      PROVE  AskInv'
  <2>1. m.srv \in Server /\ Configure(D, m.srv, how) /\ m.type = "renew"
    BY <1>5 DEF AnswerRenew, Accepts
  <2>2. Configured(D) \in [IA -> {"notconf", "inproc", "conf"}]
    BY DEF Configured, TypeInv, TypeOK
  <2>3. \A ia \in IA : ia \notin D => Configured(D)[ia] = cfg[ia]
    BY DEF Configured
  <2>4. CASE SendRequest(m, m.ias, m.ids, m.cid, adv, Configured(D))
    <3>1. ASSUME NEW ia \in IA, ia \notin D, Sought(ia)
          PROVE  Sought(ia)'
      <4>1. Configured(D)[ia] = "notconf" \/ Asking(ia)
        BY <2>3, <3>1 DEF Sought
      <4>2. Configured(D)[ia] = "notconf" => cfg'[ia] = "notconf"
        BY <2>2, <2>4 DEF SendRequest
      <4>3. \A n \in trans : n # m => n \in trans'
        BY <2>4 DEF SendRequest
      <4> QED
        BY <2>1, <4>1, <4>2, <4>3 DEF Sought, Asking
    <3> QED
      BY <1>3, <2>1, <3>1
  <2>5. CASE cfg' = Configured(D) /\ trans' = trans \ {m}
    <3>1. \A ia \in IA : ia \notin D /\ Sought(ia) => Sought(ia)'
      BY <2>1, <2>3, <2>5 DEF Sought, Asking
    <3> QED
      BY <1>3, <2>1, <3>1
  <2> QED
    BY <1>5, <2>4, <2>5 DEF AnswerRenew
<1>6. ASSUME NEW m \in trans, NEW status, AnswerConfirm(m, status)
      PROVE  AskInv'
  <2>1. m.type = "confirm" /\ (Accepted(m.ias) \/ Rejected(m.ias)) /\ trans' \in {trans, trans \ {m}}
    BY <1>6 DEF AnswerConfirm
  <2>2. \A n \in trans : n.type \in {"solicit", "request"} => n \in trans'
    BY <2>1
  <2>3. CASE Accepted(m.ias)
    <3>1. \A ia \in IA : /\ Held(ia)' = Held(ia)
                         /\ \A s \in Server : addr'[ia][s] = "dup" => addr[ia][s] = "dup"
      BY <2>3 DEF Accepted, Held, Restarted
    <3>2. \A ia \in IA : Sought(ia) => Sought(ia)'
      BY <2>2, <2>3, SoughtBeside DEF Accepted
    <3> QED
      BY <1>0, <3>1, <3>2 DEF AskInv
  <2>4. CASE Rejected(m.ias)
    <3>1. \A ia \in IA : ia \in m.ias \/ Held(ia)' = Held(ia)
      BY <2>4 DEF Rejected, Held
    <3>2. \A ia \in IA : ia \in m.ias => Sought(ia)'
      BY <2>4 DEF Rejected, Sought
    <3>3. \A ia \in IA : Sought(ia) => Sought(ia)'
      BY <2>2, <2>4, SoughtBeside DEF Rejected
    <3>4. Duplicates \/ \A ia \in IA, s \in Server : addr'[ia][s] # "dup"
      BY <2>4 DEF Rejected, NoAddr, AskInv
    <3> QED
      BY <1>0, <3>1, <3>2, <3>3, <3>4 DEF AskInv
  <2> QED
    BY <2>1, <2>3, <2>4
<1>7. ASSUME NEW m \in trans, AnswerDecline(m)
      PROVE  AskInv'
  <2>1. \A ia \in IA : Sought(ia) => Sought(ia)'
    BY <1>7, SoughtBeside DEF AnswerDecline, db
  <2> QED
    BY <1>0, <1>1, <1>7, <2>1 DEF AnswerDecline, db, AskInv
<1>8. CASE Reconfigure
  <2>1. \A ia \in IA : Sought(ia) => Sought(ia)'
    BY <1>8, SoughtBeside DEF Reconfigure
  <2> QED
    BY <1>0, <1>1, <1>8, <2>1 DEF Reconfigure, AskInv
<1> QED
  BY <1>2, <1>4, <1>5, <1>6, <1>7, <1>8
  DEF Receive, Advertised, Answered, Renewed, OnLink, Declined

\* Timeouts of the messages
LEMMA AskDuties ==
  ASSUME Undisturbed, TypeInv, AskInv, NEW m \in trans, Duties(m)
  PROVE  AskInv'
<1>0. at = "msgs" /\ at' = "msgs"
  BY DEF Duties
<1>1. ASSUME UNCHANGED addr, \A ia \in IA : Sought(ia) => Sought(ia)'
      PROVE  AskInv'
  BY <1>0, <1>1 DEF AskInv, Held
<1>2. ASSUME NEW n, n.type = m.type, n.ias = m.ias, n.iface = m.iface,
             trans' = (trans \ {m}) \cup {n}, UNCHANGED db
      PROVE  AskInv'
  <2>1. \A ia \in IA : Sought(ia) => Sought(ia)'
    BY <1>2 DEF Sought, Asking, db
  <2> QED
    BY <1>1, <1>2, <2>1 DEF db
<1>3. ASSUME m.type \notin {"solicit", "request"}, UNCHANGED db,
             \A n \in trans : n # m => n \in trans'
      PROVE  AskInv'
  <2>1. \A ia \in IA : Sought(ia) => Sought(ia)'
    BY <1>3, SoughtBeside DEF db
  <2> QED
    BY <1>1, <1>3, <2>1 DEF db
<1>4. cfg \in [IA -> {"notconf", "inproc", "conf"}] /\ m \in Message
  BY DEF TypeInv, TypeOK
<1>5. CASE Resend(m)
  <2>1. [m EXCEPT !.left = @ - 1].type = m.type /\ [m EXCEPT !.left = @ - 1].ias = m.ias
        /\ [m EXCEPT !.left = @ - 1].iface = m.iface
    BY <1>4 DEF Message
  <2> QED
    BY <1>2, <1>5, <2>1 DEF Resend
<1>6. CASE SolicitDuties(m)
  <2>1. CASE Best(adv) # {}
    <3>1. SendRequest(m, m.ias, 0, TRUE, adv, cfg) /\ UNCHANGED addr
      BY <1>6, <2>1 DEF SolicitDuties
    <3>2. \A ia \in IA : Sought(ia) => Sought(ia)'
      BY <1>4, <3>1, SoughtOn DEF Sought
    <3> QED
      BY <1>1, <3>1, <3>2
  <2>2. CASE Best(adv) = {}
    <3>1. trans' = (trans \ {m}) \cup {[m EXCEPT !.left = 0]} /\ UNCHANGED db
      BY <1>6, <2>2 DEF SolicitDuties
    <3>2. [m EXCEPT !.left = 0].type = m.type /\ [m EXCEPT !.left = 0].ias = m.ias
          /\ [m EXCEPT !.left = 0].iface = m.iface
      BY <1>4 DEF Message
    <3> QED
      BY <1>2, <3>1, <3>2
  <2> QED
    BY <2>1, <2>2
<1>7. ASSUME RequestDuties(m), ~Resend(m)
      PROVE  AskInv'
  <2>1. SendRequest(m, m.ias, m.ids, m.cid, adv, cfg) /\ UNCHANGED addr
    BY <1>7 DEF RequestDuties
  <2>2. \A ia \in IA : Sought(ia) => Sought(ia)'
    <3> SUFFICES ASSUME NEW ia \in IA, Sought(ia)
                 PROVE  Sought(ia)'
      OBVIOUS
    <3>1. CASE Best(adv) = {} /\ trans' = trans \ {m}
               /\ cfg' = [j \in IA |-> IF j \in m.ias /\ IfaceOf[j] = m.iface
                                        THEN "notconf" ELSE cfg[j]]
      BY <3>1 DEF Sought, Asking
    <3>2. ASSUME cfg' = cfg, NEW s,
                 trans' = (trans \ {m}) \cup
                    {New(m.xid, "request", m.iface, m.ias, s,
                         IF m.ids = 0 THEN 1 ELSE 2, m.cid, Retries)}
          PROVE  Sought(ia)'
      <4> DEFINE n == New(m.xid, "request", m.iface, m.ias, s,
                          IF m.ids = 0 THEN 1 ELSE 2, m.cid, Retries)
      <4>1. n \in trans' /\ n.type = "request" /\ n.ias = m.ias /\ n.iface = m.iface
        BY <3>2 DEF New
      <4>2. \A k \in trans : k # m => k \in trans'
        BY <3>2
      <4> HIDE DEF n
      <4> QED
        BY <3>2, <4>1, <4>2 DEF Sought, Asking
    <3> QED
      BY <2>1, <3>1, <3>2 DEF SendRequest
  <2> QED
    BY <1>1, <2>1, <2>2
<1>8. ASSUME RenewDuties(m) \/ DeclineDuties(m), ~Resend(m)
      PROVE  AskInv'
  BY <1>3, <1>8 DEF RenewDuties, DeclineDuties
<1>9. ASSUME ConfirmDuties(m), ~Resend(m)
      PROVE  AskInv'
  <2>1. m.type = "confirm" /\ Accepted(m.ias) /\ trans' = trans \ {m}
    BY <1>9 DEF ConfirmDuties
  <2>2. \A ia \in IA : /\ Held(ia)' = Held(ia)
                       /\ \A s \in Server : addr'[ia][s] = "dup" => addr[ia][s] = "dup"
    BY <2>1 DEF Accepted, Held, Restarted
  <2>3. \A ia \in IA : Sought(ia) => Sought(ia)'
    BY <2>1, SoughtBeside DEF Accepted
  <2> QED
    BY <1>0, <2>2, <2>3 DEF AskInv
<1>10. ASSUME RebindDuties(m), ~Resend(m)
       PROVE  AskInv'
  <2>1. m.type = "rebind" /\ Rejected(m.ias) /\ trans' = trans \ {m}
    BY <1>10 DEF RebindDuties
  <2>2. \A ia \in IA : ia \in m.ias \/ Held(ia)' = Held(ia)
    BY <2>1 DEF Rejected, Held
  <2>3. \A ia \in IA : /\ ia \in m.ias => Sought(ia)'
                       /\ Sought(ia) => Sought(ia)'
    BY <2>1, SoughtBeside DEF Rejected, Sought
  <2>4. Duplicates \/ \A ia \in IA, s \in Server : addr'[ia][s] # "dup"
    BY <2>1 DEF Rejected, NoAddr, AskInv
  <2> QED
    BY <1>0, <2>2, <2>3, <2>4 DEF AskInv
<1> QED
  BY <1>5, <1>6, <1>7, <1>8, <1>9, <1>10 DEF Duties

\* Time takes no address away.
LEMMA AskTime ==
  ASSUME Undisturbed, TypeInv, AskInv, Time
  PROVE  AskInv'
<1>1. ASSUME NEW ia, T1(ia)
      PROVE  AskInv'
  BY <1>1 DEF T1, AskInv, Sought, Asking, Held
<1>2. ASSUME NEW ia \in IA, NEW s \in Server, Elapse(ia, s) \/ Detect(ia, s)
      PROVE  AskInv'
  <2>1. PICK d \in Status :
             /\ addr' = [addr EXCEPT ![ia][s] = d] /\ d # "none"
             /\ d = "dup" => Duplicates
    BY <1>2 DEF Elapse, Detect, Status
  <2>2. at = "wait" /\ UNCHANGED <<at, cfg, st, trans>>
    BY <1>2 DEF Elapse, Detect, Undisturbed
  <2>3. \A j \in IA, r \in Server : addr'[j][r] = IF j = ia /\ r = s THEN d ELSE addr[j][r]
    BY <2>1 DEF TypeInv, TypeOK
  <2>4. \A j \in IA : Held(j) \subseteq Held(j)'
    BY <2>1, <2>3 DEF Held
  <2>5. \A j \in IA : Sought(j) => Sought(j)'
    BY <2>2 DEF Sought, Asking
  <2>6. Duplicates \/ \A j \in IA, r \in Server : addr'[j][r] # "dup"
    BY <2>1, <2>3 DEF AskInv
  <2> QED
    BY <2>2, <2>4, <2>5, <2>6 DEF AskInv
<1> QED
  BY <1>1, <1>2 DEF Time

\* With one IA to an interface and two in all checkDecline groups nothing.
LEMMA DeclinedAlone ==
  ASSUME OneByOne, Duplicates, NEW f \in IA, NEW G \in SUBSET IA, f \in G,
         \A ia \in G : ia = f \/ \E b \in IA : b > f /\ ia > f /\ ia # b
  PROVE  G = {f}
<1>1. ASSUME NEW ia \in G, ia # f
      PROVE  FALSE
  <2>1. PICK b \in IA : b > f /\ ia > f /\ ia # b
    BY <1>1
  <2>2. f \in Nat /\ b \in Nat /\ ia \in Nat /\ ia \in IA
    BY IAAssumption
  <2>3. b # f
    BY <2>1, <2>2
  <2> QED
    BY <1>1, <2>1, <2>2, <2>3 DEF OneByOne
<1> QED
  BY <1>1

\* The pass
LEMMA AskPass ==
  ASSUME Undisturbed, TypeInv, AskInv, Pass
  PROVE  AskInv'
<1>0. at # "down" => \A ia \in IA : Held(ia) = {} => Sought(ia)
  BY DEF AskInv
<1>1. CASE SleepEnds \/ EndOfMessages \/ EndOfConfirm \/ EndOfDecline \/ EndOfSolicit
  BY <1>1 DEF SleepEnds, EndOfMessages, EndOfConfirm, EndOfDecline, EndOfSolicit, db,
              AskInv, Sought, Asking, Held
<1>2. ASSUME NEW C, Begin(C)
      PROVE  AskInv'
  BY <1>2 DEF Begin, AskInv, Sought, Asking, Held
<1>3. CASE RemoveExpired
  <2>1. ASSUME NEW ia \in IA, Held(ia)' = {}
        PROVE  Sought(ia)'
    <3>1. \A s \in Server : addr[ia][s] \in {"none", "over"}
      BY <1>3, <2>1 DEF RemoveExpired, Held
    <3>2. CASE \E s \in Server : addr[ia][s] = "over"
      <4>1. cfg'[ia] = "notconf"
        BY <1>3, <3>1, <3>2 DEF RemoveExpired
      <4> QED
        BY <4>1 DEF Sought
    <3>3. CASE \A s \in Server : addr[ia][s] = "none"
      <4>1. Sought(ia)
        BY <1>0, <1>3, <3>3 DEF RemoveExpired, Held
      <4>2. cfg'[ia] \in {"notconf", cfg[ia]} /\ trans' = trans
        BY <1>3 DEF RemoveExpired
      <4> QED
        BY <4>1, <4>2 DEF Sought, Asking
    <3> QED
      BY <3>1, <3>2, <3>3
  <2>2. \A ia \in IA, s \in Server : /\ addr'[ia][s] # "over"
                                     /\ addr'[ia][s] = "dup" => addr[ia][s] = "dup"
    BY <1>3 DEF RemoveExpired
  <2>3. at' = "prune"
    BY <1>3 DEF RemoveExpired
  <2> QED
    BY <2>1, <2>2, <2>3 DEF AskInv
<1>4. CASE Prune
  <2>1. \A ia \in IA, s \in Server : addr[ia][s] # "over"
    BY <1>4 DEF Prune, AskInv
  <2>2. \A ia \in IA, s \in Server : addr'[ia][s] = addr[ia][s]
    BY <1>4, <2>1 DEF Prune
  <2>3. \A ia \in IA : Held(ia)' = Held(ia)
    BY <2>2 DEF Held
  <2>4. \A ia \in IA : Sought(ia) => Sought(ia)'
    BY <1>4 DEF Prune, Sought, Asking
  <2>5. ASSUME NEW ia \in IA, st'[ia] = "confirmme"
        PROVE  Held(ia)' # {}
    <3> DEFINE as == [i \in IA |-> [s \in Server |->
                        IF addr[i][s] = "over" THEN "none" ELSE addr[i][s]]]
    <3>1. addr' = as /\ as[ia] # NoAddr
      BY <1>4, <2>5 DEF Prune
    <3>2. \E s \in Server : as[ia][s] # "none"
      BY <3>1 DEF NoAddr
    <3> QED
      BY <3>1, <3>2 DEF Held
  <2>6. at = "prune" /\ at' = "confirm"
    BY <1>4 DEF Prune
  <2> QED
    BY <2>2, <2>3, <2>4, <2>5, <2>6 DEF AskInv
<1>5. ASSUME NEW i \in Iface, CheckConfirm(i)
      PROVE  AskInv'
  <2>1. PICK c \in On(i) : st[c] = "confirmme"
    BY <1>5 DEF CheckConfirm
  <2>2. On(i) = {c}
    BY <2>1 DEF On, Undisturbed, OneByOne
  <2>3. First({c}) = c /\ c \in IA /\ Held(c) # {}
    <3>1. c \in IA /\ at = "confirm"
      BY <1>5, <2>1 DEF On, CheckConfirm
    <3>2. {c} \subseteq Nat /\ {c} # {}
      BY <3>1, IAAssumption
    <3>3. First({c}) \in {c}
      BY <3>2, FirstIsMember
    <3> QED
      BY <2>1, <3>1, <3>3 DEF AskInv
  <2>4. cfg' = [cfg EXCEPT ![c] = "inproc"]
    BY <1>5, <2>2, <2>3 DEF CheckConfirm
  <2>5. UNCHANGED <<addr, at>> /\ at = "confirm" /\ trans \subseteq trans'
        /\ \A ia \in IA : st'[ia] = "confirmme" => st[ia] = "confirmme"
    BY <1>5 DEF CheckConfirm
  <2>6. \A ia \in IA : Sought(ia) /\ ia # c => Sought(ia)'
    BY <2>4, <2>5 DEF Sought, Asking, TypeInv, TypeOK
  <2> QED
    BY <2>3, <2>5, <2>6 DEF AskInv, Held
<1>6. CASE CheckDecline
  <2>1. PICK f \in IA, G \in SUBSET IA, x \in Free :
           /\ Tentative(f) = "yes" /\ f \in G /\ Free # {x}
           /\ \A ia \in G : ia = f \/ \E b \in IA : b > f /\ ia > f /\ ia # b
           /\ addr' = [ia \in IA |-> [s \in Server |->
                          IF ia \in G /\ addr[ia][s] = "dup" THEN "none"
                          ELSE addr[ia][s]]]
           /\ trans' = trans \cup
                {New(x, "decline", IfaceOf[f], G, from[f], 1, TRUE, Retries),
                 New(First(Free \ {x}), "request", IfaceOf[f], G, from[f], 1, TRUE,
                     Retries)}
           /\ at = "decline" /\ UNCHANGED <<cfg, st, from, age, adv, todo, at>>
    BY <1>6, DeclinedIAs
  <2>2. Duplicates
    BY <2>1 DEF Tentative, AskInv
  <2>3. G = {f}
    BY <2>1, <2>2, DeclinedAlone DEF Undisturbed
  <2> DEFINE r == New(First(Free \ {x}), "request", IfaceOf[f], G, from[f], 1, TRUE, Retries)
  <2>4. r \in trans' /\ r.type = "request" /\ f \in r.ias /\ r.iface = IfaceOf[f]
    BY <2>1 DEF New
  <2>5. trans \subseteq trans'
    BY <2>1
  <2> HIDE DEF r
  <2>6. Sought(f)'
    BY <2>4 DEF Sought, Asking
  <2>7. \A ia \in IA : ia # f => Held(ia)' = Held(ia)
    BY <2>1, <2>3 DEF Held
  <2>8. \A ia \in IA : Sought(ia) => Sought(ia)'
    BY <2>1, <2>5 DEF Sought, Asking
  <2> QED
    BY <2>1, <2>2, <2>6, <2>7, <2>8 DEF AskInv
<1>7. ASSUME NEW i \in Iface, CheckSolicit(i)
      PROVE  AskInv'
  <2> DEFINE L == {ia \in On(i) : cfg[ia] = "notconf"}
             m == New(First(Free), "solicit", i, L, NoServer, 0, TRUE, 1)
  <2>1. m \in trans' /\ m.type = "solicit" /\ m.ias = L /\ m.iface = i
    BY <1>7 DEF CheckSolicit, New
  <2>2. \A ia \in IA : ia \in L \/ cfg'[ia] = cfg[ia]
    BY <1>7 DEF CheckSolicit
  <2>3. trans \subseteq trans' /\ UNCHANGED <<addr, at>> /\ at = "solicit"
    BY <1>7 DEF CheckSolicit
  <2>4. \A ia \in L : ia \in IA /\ IfaceOf[ia] = i
    BY DEF On
  <2> HIDE DEF L, m
  <2>5. \A ia \in IA : Sought(ia) => Sought(ia)'
    BY <2>1, <2>2, <2>3, <2>4 DEF Sought, Asking
  <2> QED
    BY <2>3, <2>5 DEF AskInv, Held
<1>8. CASE CheckRenew
  <2>1. trans \subseteq trans' /\ UNCHANGED <<addr, cfg>> /\ at = "renew" /\ at' = "wait"
    BY <1>8 DEF CheckRenew
  <2>2. \A ia \in IA : Sought(ia) => Sought(ia)'
    BY <2>1 DEF Sought, Asking
  <2> QED
    BY <2>1, <2>2 DEF AskInv, Held
<1> QED
  BY <1>1, <1>2, <1>3, <1>4, <1>5, <1>6, <1>7, <1>8 DEF Pass

LEMMA AskStep ==
  ASSUME Undisturbed, TypeInv, AskInv, [Next]_vars
  PROVE  AskInv'
<1>1. ASSUME NEW x, Due(x)
      PROVE  AskInv'
  BY <1>1, AskDuties DEF Due
<1>2. CASE Shutdown
  BY <1>2 DEF Shutdown, db, AskInv
<1>3. CASE Down \/ UNCHANGED vars
  BY <1>3 DEF Down, vars, db, AskInv, Sought, Asking, Held
<1> QED
  BY <1>1, <1>2, <1>3, AskReceive, AskTime, AskPass DEF Next

\* No sequence of answers, refusals, timeouts, expiries and link changes leaves
\* the client with an IA that has no address and that nothing asks for.
THEOREM NoneForgottenHolds == ASSUME Undisturbed PROVE Spec => []NoneForgotten
<1>1. Init => AskInv
  <2> SUFFICES ASSUME Init
               PROVE  AskInv
    OBVIOUS
  <2>1. \A ia \in IA : cfg[ia] = "notconf"
    BY DEF Init
  <2>2. \A ia \in IA, s \in Server : addr[ia][s] # "dup"
    BY DEF Init, NoAddr
  <2> QED
    BY <2>1, <2>2 DEF Init, AskInv, Sought
<1>2. TypeInv /\ AskInv /\ [Next]_vars => AskInv'
  BY AskStep
<1>3. AskInv => NoneForgotten
  BY DEF AskInv, Sought, NoneForgotten
<1> QED
  BY TypeInvariance, <1>1, <1>2, <1>3, PTL DEF Spec

=============================================================================
