------------------------------ MODULE ClntTrans ------------------------------
(***************************************************************************)
(* The client's transaction manager (ClntTransMgr, ClntMessages) with the  *)
(* address database it drives (ClntAddrMgr): from the search for a server  *)
(* to the renewal, confirmation, decline and release of what it granted.   *)
(*                                                                         *)
(* The client has one thread (TDHCPClient::run): it sleeps in select       *)
(* (at = "wait"), handles at most one message (relayMsg), then makes one   *)
(* pass of doDuties, whose parts are the other values of at.  Nothing else *)
(* changes its state, but time passes everywhere.  The network is not a    *)
(* variable: while a message is in trans, any server it may reach can      *)
(* answer it, at any time, in any order, any number of times or never,     *)
(* which is what loss, delay and duplication amount to for the client; an  *)
(* answer to a message that has left trans is dropped (wrong transID).     *)
(*                                                                         *)
(* A server has one address for each IA: the address is named by it.       *)
(* IA_TA and IA_PD travel in the same messages and are not modelled.       *)
(***************************************************************************)
EXTENDS Integers, FiniteSets

CONSTANTS
    IA,          \* the IAIDs of client.conf, in the order of the lists
    Iface,       \* the configured interfaces
    IfaceOf,     \* the interface of an IA
    Server,      \* servers, named by their DUIDs
    NoServer,    \* no DUID yet
    Reach,       \* the interfaces on which a server is reached
    Pref,        \* the preference option of a server's ADVERTISE
    TopPref,     \* 255
    Retries,     \* transmissions after the first one, then a message gives up
    MaxAdv,      \* bound: ADVERTISEs kept of one server
    Xid,         \* bound: transaction identifiers (messages alive at once)
    Room,        \* bound: with fewer of them free, leases do not age, links do
                 \* not change, no duplicate is found, and no RECONFIGURE
                 \* that is answered with a RENEW or reply to a CONFIRM
                 \* without a status arrives
    Loaded,      \* IAs whose addresses the client may find in its database
    Revoking,    \* servers may answer with valid lifetime 0
    Ticks,       \* the clock may tick between removeExpired and doDuties
    LinkMoves,   \* link state changes are reported
    Reconf,      \* RECONFIGURE is accepted
    Duplicates   \* duplicate address detection may fail

\* IAIDs are numbers: the lists of IAs are in their order.
ASSUME IAAssumption == IA \subseteq Nat /\ IA # {} /\ IsFiniteSet(IA)
ASSUME IfaceAssumption == IfaceOf \in [IA -> Iface]
ASSUME ServerAssumption == NoServer \notin Server
ASSUME ReachAssumption == Reach \in [Server -> SUBSET Iface]
ASSUME MaxAdvAssumption == MaxAdv \in Nat
ASSUME XidAssumption == Xid \subseteq Nat
ASSUME RoomAssumption == Room \in Nat \ {0}
ASSUME RetriesAssumption == Retries \in Nat
ASSUME LoadedAssumption == Loaded \subseteq IA

VARIABLES
    cfg,     \* TClntCfgIA::State: is the IA to be solicited?
    st,      \* TAddrIA::State in the address database
    addr,    \* the addresses of an IA, by server, with their status
    from,    \* TAddrIA::DUID, the server of the last new address
    age,     \* the IA's timestamp against T1
    trans,   \* Transactions
    adv,     \* AdvertiseLst: ADVERTISEs not yet used, counted by server
    todo,    \* the messages whose doDuties this pass may still call
    at       \* where the thread is

db == <<cfg, st, addr, from, age>>
vars == <<db, trans, adv, todo, at>>

Status == {"none", "unknown", "ok", "dup", "over"}
Kind == {"solicit", "request", "renew", "rebind", "confirm", "decline",
         "release"}
Phase == {"wait", "woken", "msgs", "expire", "prune", "confirm", "decline",
          "solicit", "renew", "down", "crashed"}

\* ids: the SERVERID options in the message (2: two or more); cid: whether
\* its CLIENTID is still there; left: transmissions to go.
Message == [xid : Xid \cup IA, type : Kind, iface : Iface, ias : SUBSET IA,
            srv : Server \cup {NoServer}, ids : 0..2, cid : BOOLEAN,
            left : Nat]

TypeOK == /\ cfg \in [IA -> {"notconf", "inproc", "conf"}]
          /\ st \in [IA -> {"notconf", "inproc", "conf", "confirmme"}]
          /\ addr \in [IA -> [Server -> Status]]
          /\ from \in [IA -> Server \cup {NoServer}]
          /\ age \in [IA -> {"fresh", "due", "frozen"}]
          /\ trans \subseteq Message
          /\ adv \in [Server -> 0..MaxAdv]
          /\ todo \subseteq Xid
          /\ at \in Phase

First(S) == CHOOSE i \in S : \A j \in S : i <= j
On(i) == {ia \in IA : IfaceOf[ia] = i}
Held(ia) == {s \in Server : addr[ia][s] # "none"}

\* TAddrIA::getTentative
Tentative(ia) ==
    CASE \E s \in Server : addr[ia][s] = "dup" -> "yes"
      [] \A s \in Server : addr[ia][s] \notin {"dup", "unknown"} -> "no"
      [] OTHER -> "unknown"

Free == {x \in Xid : \A m \in trans : m.xid # x}

Roomy == Cardinality(Free) >= Room

New(x, type, iface, ias, srv, ids, cid, left) ==
    [xid |-> x, type |-> type, iface |-> iface, ias |-> ias, srv |-> srv,
     ids |-> ids, cid |-> cid, left |-> left]

\* TAddrIA::setTimestamp: every address of the IA starts its lifetimes anew.
Restarted(as) == [s \in Server |-> IF as[s] = "over" THEN "ok" ELSE as[s]]

NoAddr == [s \in Server |-> "none"]

------------------------------------------------------------------------------
(***************************************************************************)
(* sendRequest: the message o ends and a Request for ias goes to the best  *)
(* server of the list a (sortAdvertiseLst), which leaves the list; with an *)
(* empty list the IAs are to be solicited again.  The options are those of *)
(* o: with ids SERVERIDs in them, to which that of the new server is       *)
(* added.  c is the IAs' configuration state as o's handler leaves it.     *)
(***************************************************************************)
\* FAULTY VARIANT of Best: that there is an entry at all is not looked at.
Best_Any(a) == {s \in Server : \A r \in Server : Pref[r] <= Pref[s]}

Best(a) == {s \in Server : /\ a[s] > 0
                           /\ \A r \in Server : a[r] > 0 => Pref[r] <= Pref[s]}

\* FAULTY VARIANT of SendRequest: with an empty list nothing is restarted.
SendRequest_NoRestart(o, ias, ids, cid, a, c) ==
    \/ /\ Best(a) = {}
       /\ cfg' = c
       /\ adv' = a
       /\ trans' = trans \ {o}
    \/ /\ cfg' = c
       /\ \E s \in Best(a) :
              /\ adv' = [a EXCEPT ![s] = @ - 1]
              /\ trans' = (trans \ {o}) \cup
                    {New(o.xid, "request", o.iface, ias, s,
                         IF ids = 0 THEN 1 ELSE 2, cid, Retries)}

SendRequest(o, ias, ids, cid, a, c) ==
    \/ /\ Best(a) = {}
       /\ cfg' = [ia \in IA |-> IF ia \in ias /\ IfaceOf[ia] = o.iface
                                THEN "notconf" ELSE c[ia]]
       /\ adv' = a
       /\ trans' = trans \ {o}
    \/ /\ cfg' = c
       /\ \E s \in Best(a) :
              /\ adv' = [a EXCEPT ![s] = @ - 1]
              /\ trans' = (trans \ {o}) \cup
                    {New(o.xid, "request", o.iface, ias, s,
                         IF ids = 0 THEN 1 ELSE 2, cid, Retries)}

(***************************************************************************)
(* A reply's IA_NA (TClntOptIA_NA::doDuties): its address is new or known, *)
(* or comes back with valid lifetime 0, which deletes it.                  *)
(***************************************************************************)
Outcome == {"lease"} \cup (IF Revoking THEN {"revoke"} ELSE {})

Apply(as, s, how) ==
    IF how = "revoke" THEN [Restarted(as) EXCEPT ![s] = "none"]
    ELSE [Restarted(as) EXCEPT ![s] = IF @ = "none" THEN "unknown" ELSE @]

\* FAULTY VARIANT of Configure: the IA's timestamp is not set.
Configure_KeepAge(D, s, how) ==
    /\ st' = [ia \in IA |-> IF ia \in D THEN "conf" ELSE st[ia]]
    /\ addr' = [ia \in IA |-> IF ia \in D THEN Apply(addr[ia], s, how[ia])
                              ELSE addr[ia]]
    /\ from' = [ia \in IA |-> IF ia \in D /\ how[ia] = "lease"
                                          /\ addr[ia][s] = "none"
                              THEN s ELSE from[ia]]
    /\ UNCHANGED age

\* The IAs of D get what how says from server s; cfg is set by the caller.
Configure(D, s, how) ==
    /\ st' = [ia \in IA |-> IF ia \in D THEN "conf" ELSE st[ia]]
    /\ addr' = [ia \in IA |-> IF ia \in D THEN Apply(addr[ia], s, how[ia])
                              ELSE addr[ia]]
    /\ from' = [ia \in IA |-> IF ia \in D /\ how[ia] = "lease"
                                          /\ addr[ia][s] = "none"
                              THEN s ELSE from[ia]]
    /\ age' = [ia \in IA |-> IF ia \in D THEN "fresh" ELSE age[ia]]

Configured(D) == [ia \in IA |-> IF ia \in D THEN "conf" ELSE cfg[ia]]

\* FAULTY VARIANT of Rejected: the addresses stay in the database.
Rejected_KeepAddr(ias) ==
    /\ st' = [ia \in IA |-> IF ia \in ias THEN "notconf" ELSE st[ia]]
    /\ cfg' = [ia \in IA |-> IF ia \in ias THEN "notconf" ELSE cfg[ia]]
    /\ UNCHANGED <<addr, from, age>>

\* addrsRejected, TClntMsgRebind::releaseIA: back to the beginning.
Rejected(ias) ==
    /\ addr' = [ia \in IA |-> IF ia \in ias THEN NoAddr ELSE addr[ia]]
    /\ st' = [ia \in IA |-> IF ia \in ias THEN "notconf" ELSE st[ia]]
    /\ cfg' = [ia \in IA |-> IF ia \in ias THEN "notconf" ELSE cfg[ia]]
    /\ UNCHANGED <<from, age>>

\* addrsAccepted: the timestamp is taken from the wall clock, all timeouts
\* are computed with the monotonic one: the lease neither ages nor expires.
Accepted(ias) ==
    /\ st' = [ia \in IA |-> IF ia \in ias THEN "conf" ELSE st[ia]]
    /\ age' = [ia \in IA |-> IF ia \in ias THEN "frozen" ELSE age[ia]]
    /\ addr' = [ia \in IA |-> IF ia \in ias THEN Restarted(addr[ia])
                              ELSE addr[ia]]
    /\ UNCHANGED <<cfg, from>>

------------------------------------------------------------------------------
(* Start: populateAddrMgr has created the IAs; those found in the database *)
(* hold an address of some server, checked for duplicates long ago, and    *)
(* are to be confirmed (processLoadedDB).                                  *)
Init == /\ cfg = [ia \in IA |-> "notconf"]
        /\ \E L \in SUBSET Loaded, f \in [IA -> Server] :
              /\ from = [ia \in IA |-> IF ia \in L THEN f[ia] ELSE NoServer]
              /\ addr = [ia \in IA |->
                            IF ia \in L THEN [NoAddr EXCEPT ![f[ia]] = "ok"]
                            ELSE NoAddr]
              /\ st = [ia \in IA |-> IF ia \in L THEN "confirmme"
                                     ELSE "notconf"]
        /\ age = [ia \in IA |-> "fresh"]
        /\ trans = {}
        /\ adv = [s \in Server |-> 0]
        /\ todo = {}
        /\ at = "woken"

------------------------------------------------------------------------------
(* Time. *)

\* T1 of a lease elapses.
T1(ia) == /\ at = "wait" /\ Roomy
          /\ age[ia] = "fresh" /\ Held(ia) # {}
          /\ age' = [age EXCEPT ![ia] = "due"]
          /\ UNCHANGED <<cfg, st, addr, from, trans, adv, todo, at>>

\* The valid lifetime of an address elapses, in select or, one tick too
\* early for removeExpired, just after it.
Elapse(ia, s) ==
    /\ \/ at = "wait" /\ Roomy
       \/ Ticks /\ at = "prune"
    /\ age[ia] = "due" /\ addr[ia][s] \in {"unknown", "ok", "dup"}
    /\ addr' = [addr EXCEPT ![ia][s] = "over"]
    /\ UNCHANGED <<cfg, st, from, age, trans, adv, todo, at>>

\* DADTIMEOUT after its timestamp an address is looked up in the kernel
\* (TAddrIA::getTentative, called by getTimeout); the first duplicate of an
\* IA ends the look.
Detect(ia, s) ==
    /\ at = "wait"
    /\ addr[ia][s] = "unknown" /\ age[ia] # "frozen"
    /\ Tentative(ia) # "yes"
    /\ \E d \in {"ok"} \cup (IF Duplicates /\ Roomy THEN {"dup"} ELSE {}) :
          addr' = [addr EXCEPT ![ia][s] = d]
    /\ UNCHANGED <<cfg, st, from, age, trans, adv, todo, at>>

------------------------------------------------------------------------------
(* What relayMsg hands to the message it answers. *)

\* A server accepts a message that reaches it with exactly one SERVERID,
\* its own, and a CLIENTID (TMsg::check).
Accepts(m) == /\ m.srv \in Server /\ m.iface \in Reach[m.srv]
              /\ m.ids = 1 /\ m.cid

ReceiveAdvertise(m, s) ==
    LET a == [adv EXCEPT ![s] = @ + 1] IN
    /\ at = "wait" /\ m.type = "solicit" /\ m.iface \in Reach[s]
    /\ adv[s] < MaxAdv
    /\ IF Pref[s] = TopPref \/ m.left = 0   \* RC > 1
       THEN SendRequest(m, m.ias, 0, TRUE, a, cfg)
       ELSE adv' = a /\ UNCHANGED <<cfg, trans>>
    /\ at' = "woken"
    /\ UNCHANGED <<st, addr, from, age, todo>>

\* TClntMsg::answer for a REQUEST.  An IA left out or refused stays in the
\* options, with which another server is asked; the options the REPLY
\* repeats, CLIENTID and SERVERID among them, have been deleted from them.
AnswerRequest(m, D, how) ==
    LET rest == m.ias \ D IN
    /\ at = "wait" /\ m.type = "request" /\ Accepts(m)
    /\ Configure(D, m.srv, how)
    /\ IF rest # {}
       THEN SendRequest(m, rest, 0, FALSE, adv, Configured(D))
       ELSE /\ cfg' = Configured(D)
            /\ trans' = trans \ {m}
            /\ UNCHANGED adv
    /\ at' = "woken"
    /\ UNCHANGED todo

\* TClntMsgRenew::answer: D are the IAs renewed, with nobinding those whose
\* options precede the one with that status; other errors are only logged.
AnswerRenew(m, D, how, nobinding) ==
    /\ at = "wait" /\ m.type = "renew" /\ Accepts(m)
    /\ nobinding => D # m.ias
    /\ Configure(D, m.srv, how)
    /\ IF nobinding
       THEN SendRequest(m, m.ias, m.ids, m.cid, adv, Configured(D))
       ELSE /\ cfg' = Configured(D)
            /\ trans' = trans \ {m}
            /\ UNCHANGED adv
    /\ at' = "woken"
    /\ UNCHANGED todo

AnswerConfirm(m, status) ==
    /\ at = "wait" /\ m.type = "confirm"
    /\ status = "none" => Roomy
    /\ IF status = "success" THEN Accepted(m.ias) ELSE Rejected(m.ias)
    /\ trans' = IF status = "none" THEN trans ELSE trans \ {m}
    /\ at' = "woken"
    /\ UNCHANGED <<adv, todo>>

AnswerDecline(m) ==
    /\ at = "wait" /\ m.type = "decline" /\ Accepts(m)
    /\ trans' = trans \ {m}
    /\ at' = "woken"
    /\ UNCHANGED <<db, adv, todo>>

\* A REPLY to a REBIND (or to a SOLICIT with rapid commit) is dropped by
\* TClntMsg::answer: it looks for the server's DUID in the question.

\* handleReconfigure, sendRenew: one RENEW for every IA, to the server of
\* the first.  Before the first lease there is no such server, the RENEW has
\* a SERVERID without a DUID, and TOptDUID::storeSelf follows the null
\* pointer: the client is gone.
Reconfigure ==
    /\ Reconf /\ at = "wait"
    /\ \/ /\ from[First(IA)] = NoServer
          /\ at' = "crashed"
          /\ UNCHANGED <<st, trans>>
       \/ /\ from[First(IA)] # NoServer /\ Roomy
          /\ trans' = trans \cup {New(First(Free), "renew", IfaceOf[First(IA)],
                                      IA, from[First(IA)], 1, TRUE, Retries)}
          /\ st' = [ia \in IA |-> "inproc"]
          /\ at' = "woken"
    /\ UNCHANGED <<cfg, addr, from, age, adv, todo>>

------------------------------------------------------------------------------
(* The pass. *)

SleepEnds == /\ at = "wait" /\ at' = "woken"
             /\ UNCHANGED <<db, trans, adv, todo>>

\* TDHCPClient::run before doDuties: the interfaces of C have changed links.
\* setIA2Confirm
Begin(C) ==
    /\ at = "woken" /\ at' = "msgs"
    /\ C # {} => LinkMoves /\ Roomy
    /\ st' = [ia \in IA |-> IF IfaceOf[ia] \in C /\ st[ia] \in {"conf", "inproc"}
                            THEN "confirmme" ELSE st[ia]]
    /\ todo' = {m.xid : m \in trans}
    /\ UNCHANGED <<cfg, addr, from, age, trans, adv>>

\* The doDuties of a message whose timeout has come, by its type.
Resend(m) == /\ m.left > 0
             /\ trans' = (trans \ {m}) \cup {[m EXCEPT !.left = @ - 1]}
             /\ UNCHANGED <<db, adv>>

SolicitDuties(m) ==
    /\ m.type = "solicit"
    /\ IF Best(adv) # {}
       THEN /\ SendRequest(m, m.ias, 0, TRUE, adv, cfg)
            /\ UNCHANGED <<st, addr, from, age>>
       ELSE /\ trans' = (trans \ {m}) \cup {[m EXCEPT !.left = 0]}
            /\ UNCHANGED <<db, adv>>

RequestDuties(m) ==
    /\ m.type = "request"
    /\ \/ Resend(m)
       \/ /\ m.left = 0   \* RC > MRC
          /\ SendRequest(m, m.ias, m.ids, m.cid, adv, cfg)
          /\ UNCHANGED <<st, addr, from, age>>

\* A REBIND lasts as long as the longest valid lifetime.
RenewDuties(m) ==
    /\ m.type = "renew"
    /\ \/ Resend(m)
       \/ /\ m.left = 0   \* MRD = 0: T2
          /\ LET alive == \E ia \in m.ias, s \in Server :
                              addr[ia][s] \notin {"none", "over"}
             IN trans' = (trans \ {m}) \cup
                   {New(m.xid, "rebind", m.iface, m.ias, NoServer, 0, TRUE,
                        IF alive THEN Retries ELSE 0)}
          /\ UNCHANGED <<db, adv>>

RebindDuties(m) ==
    /\ m.type = "rebind"
    /\ \/ Resend(m)
       \/ /\ m.left = 0
          /\ Rejected(m.ias)
          /\ trans' = trans \ {m}
          /\ UNCHANGED adv

ConfirmDuties(m) ==
    /\ m.type = "confirm"
    /\ \/ Resend(m)
       \/ /\ m.left = 0
          /\ Accepted(m.ias)
          /\ trans' = trans \ {m}
          /\ UNCHANGED adv

DeclineDuties(m) ==
    /\ m.type = "decline"
    /\ \/ Resend(m)
       \/ /\ m.left = 0   \* RC = MRC
          /\ trans' = trans \ {m}
          /\ UNCHANGED <<db, adv>>

Duties(m) ==
    /\ at = "msgs" /\ m.xid \in todo
    /\ todo' = todo \ {m.xid}
    /\ \/ SolicitDuties(m)
       \/ RequestDuties(m)
       \/ RenewDuties(m)
       \/ RebindDuties(m)
       \/ ConfirmDuties(m)
       \/ DeclineDuties(m)
    /\ UNCHANGED at

EndOfMessages == /\ at = "msgs" /\ at' = "expire"
                 /\ todo' = {}
                 /\ UNCHANGED <<db, trans, adv>>

\* removeExpired: an IA that loses its last address is to be solicited.
RemoveExpired ==
    LET Left(ia) == {s \in Server : addr[ia][s] \notin {"none", "over"}}
        Hit == {ia \in IA : \E s \in Server : addr[ia][s] = "over"} IN
    /\ at = "expire" /\ at' = "prune"
    /\ addr' = [ia \in IA |-> [s \in Server |->
                    IF addr[ia][s] = "over" THEN "none" ELSE addr[ia][s]]]
    /\ cfg' = [ia \in IA |-> IF ia \in Hit /\ Left(ia) = {} THEN "notconf"
                             ELSE cfg[ia]]
    /\ UNCHANGED <<st, from, age, trans, adv, todo>>

\* TClntAddrMgr::doDuties
Prune ==
    LET as == [ia \in IA |-> [s \in Server |->
                    IF addr[ia][s] = "over" THEN "none" ELSE addr[ia][s]]] IN
    /\ at = "prune" /\ at' = "confirm"
    /\ addr' = as
    /\ st' = [ia \in IA |-> IF st[ia] \in {"conf", "confirmme"} /\ as[ia] = NoAddr
                            THEN "notconf" ELSE st[ia]]
    /\ UNCHANGED <<cfg, from, age, trans, adv, todo>>

\* checkConfirm, interface i: the loop over the configured IAs finds all IAs
\* to be confirmed for the first of them, whose state alone it changes.
CheckConfirm(i) ==
    LET C == {ia \in On(i) : st[ia] = "confirmme"} IN
    /\ at = "confirm" /\ C # {}
    /\ st' = [ia \in IA |-> IF ia \in C THEN "inproc" ELSE st[ia]]
    /\ cfg' = [cfg EXCEPT ![First(On(i))] = "inproc"]
    /\ Free # {}
    /\ trans' = trans \cup
          {New(First(Free), "confirm", i, C, NoServer, 0, TRUE, Retries)}
    /\ UNCHANGED <<addr, from, age, adv, todo, at>>

EndOfConfirm ==
    /\ at = "confirm" /\ at' = "decline"
    /\ \A ia \in IA : st[ia] # "confirmme"
    /\ UNCHANGED <<db, trans, adv, todo>>

\* checkDecline, one round: the first IA with a duplicate and those of the
\* same server behind it, except the one right behind it, which the loop's
\* condition consumes.
CheckDecline ==
    LET T == {ia \in IA : Tentative(ia) = "yes"}
        f == First(T)
        Behind == {ia \in IA : ia > f}
        G == {f} \cup {ia \in T \cap Behind :
                          /\ ia # First(Behind)
                          /\ from[ia] = from[f]}
        x == First(Free) IN
    /\ at = "decline" /\ T # {}
    /\ addr' = [ia \in IA |-> [s \in Server |->
                    IF ia \in G /\ addr[ia][s] = "dup" THEN "none"
                    ELSE addr[ia][s]]]
    /\ x \in Free /\ Free # {x}
    /\ trans' = trans \cup
          {New(x, "decline", IfaceOf[f], G, from[f], 1, TRUE, Retries),
           New(First(Free \ {x}), "request", IfaceOf[f], G, from[f], 1, TRUE,
               Retries)}
    /\ UNCHANGED <<cfg, st, from, age, adv, todo, at>>

EndOfDecline ==
    /\ at = "decline" /\ at' = "solicit"
    /\ \A ia \in IA : Tentative(ia) # "yes"
    /\ UNCHANGED <<db, trans, adv, todo>>

\* checkSolicit, interface i
CheckSolicit(i) ==
    LET L == {ia \in On(i) : cfg[ia] = "notconf"} IN
    /\ at = "solicit" /\ L # {}
    /\ cfg' = [ia \in IA |-> IF ia \in L THEN "inproc" ELSE cfg[ia]]
    /\ st' = [ia \in IA |-> IF ia \in L THEN "inproc" ELSE st[ia]]
    /\ Free # {}
    /\ trans' = trans \cup {New(First(Free), "solicit", i, L, NoServer, 0, TRUE, 1)}
    /\ UNCHANGED <<addr, from, age, adv, todo, at>>

EndOfSolicit ==
    /\ at = "solicit" /\ at' = "renew"
    /\ \A ia \in IA : cfg[ia] # "notconf"
    /\ UNCHANGED <<db, trans, adv, todo>>

\* checkRenew: one RENEW, to the server of the first aging IA, for all aging
\* IAs of its interface.  ia->getDUID() == iaPattern->getDUID() compares the
\* pointers as Booleans: it holds whatever the servers are.
CheckRenew ==
    LET A == {ia \in IA : /\ age[ia] = "due" /\ st[ia] = "conf"
                          /\ Tentative(ia) # "unknown"}
        f == First(A)
        G == {ia \in A : /\ IfaceOf[ia] = IfaceOf[f]
                         /\ (from[ia] = NoServer) = (from[f] = NoServer)} IN
    /\ at = "renew" /\ at' = "wait"
    /\ IF A = {}
       THEN UNCHANGED <<st, trans>>
       ELSE /\ st' = [ia \in IA |-> IF ia \in G THEN "inproc" ELSE st[ia]]
            /\ Free # {}
            /\ trans' = trans \cup {New(First(Free), "renew", IfaceOf[f], G,
                                        from[f], 1, TRUE, Retries)}
    /\ UNCHANGED <<cfg, addr, from, age, adv, todo>>

\* shutdown: transactions are dropped, IAs without addresses or in another
\* state forgotten, the others released, grouped by server and interface;
\* each RELEASE is sent once.
Shutdown ==
    LET K == {ia \in IA : st[ia] \in {"conf", "inproc"} /\ Held(ia) # {}}
        Alike(ia) == {j \in K : from[j] = from[ia] /\ IfaceOf[j] = IfaceOf[ia]}
    IN
    /\ at = "woken" /\ at' = "down"
    /\ trans' = {New(ia, "release", IfaceOf[ia], Alike(ia), from[ia], 1, TRUE, 0)
                    : ia \in {j \in K : j = First(Alike(j))}}
    /\ UNCHANGED <<db, adv, todo>>

Gone == at \in {"down", "crashed"}
Down == Gone /\ UNCHANGED vars

------------------------------------------------------------------------------
Advertised(x, s) == \E m \in trans : m.xid = x /\ ReceiveAdvertise(m, s)
Answered(x) == \E m \in trans, D \in SUBSET IA, how \in [IA -> Outcome] :
                  m.xid = x /\ D \subseteq m.ias /\ AnswerRequest(m, D, how)
Renewed(x) == \E m \in trans, D \in SUBSET IA, how \in [IA -> Outcome],
                 nobinding \in BOOLEAN :
                  /\ m.xid = x /\ D \subseteq m.ias
                  /\ AnswerRenew(m, D, how, nobinding)
OnLink(x) == \E m \in trans, status \in {"success", "notonlink", "none"} :
                  m.xid = x /\ AnswerConfirm(m, status)
Declined(x) == \E m \in trans : m.xid = x /\ AnswerDecline(m)
Due(x) == \E m \in trans : m.xid = x /\ Duties(m)

Receive == \/ \E x \in Xid : \/ \E s \in Server : Advertised(x, s)
                             \/ Answered(x)
                             \/ Renewed(x)
                             \/ OnLink(x)
                             \/ Declined(x)
           \/ Reconfigure
Time == \E ia \in IA : \/ T1(ia)
                       \/ \E s \in Server : Elapse(ia, s) \/ Detect(ia, s)
Pass == \/ SleepEnds
        \/ \E C \in SUBSET Iface : Begin(C)
        \/ EndOfMessages
        \/ RemoveExpired
        \/ Prune
        \/ \E i \in Iface : CheckConfirm(i)
        \/ EndOfConfirm
        \/ CheckDecline
        \/ EndOfDecline
        \/ \E i \in Iface : CheckSolicit(i)
        \/ EndOfSolicit
        \/ CheckRenew

Next == \/ Receive
        \/ Time
        \/ Pass
        \/ \E x \in Xid : Due(x)
        \/ Shutdown
        \/ Down

Spec == Init /\ [][Next]_vars
------------------------------------------------------------------------------
(***************************************************************************)
(* An IA without addresses is about to be solicited, or a live message is  *)
(* already asking for some: no sequence of answers, timeouts, expiries and *)
(* link changes leaves the client sitting without address and without      *)
(* asking for one.  With one IA per interface, while addresses expire only *)
(* under removeExpired and no server revokes one.                          *)
(***************************************************************************)
Asking(ia) == \E m \in trans : /\ m.type \in {"solicit", "request"}
                               /\ ia \in m.ias
                               /\ m.iface = IfaceOf[ia]
NoneForgotten == at # "down" =>
    \A ia \in IA : Held(ia) = {} => \/ cfg[ia] = "notconf"
                                     \/ Asking(ia)

(***************************************************************************)
(* shutdown releases every address: an IA that holds one is in a state it  *)
(* releases, unless its confirmation has not been asked for yet.           *)
(***************************************************************************)
AllReleased == [][Shutdown => \A ia \in IA :
                    Held(ia) # {} /\ st[ia] # "confirmme" =>
                       \E m \in trans' : m.type = "release" /\ ia \in m.ias]_vars

(***************************************************************************)
(* The options a Request is made of carry no SERVERID of an earlier server *)
(* and still say who asks: a server that gets it can accept it.            *)
(***************************************************************************)
WellFormed == \A m \in trans : m.type = "request" => m.ids = 1 /\ m.cid

(***************************************************************************)
(* An IA without addresses gets one, and a lease whose T1 has come is      *)
(* renewed or given up, whatever is lost, refused or answered late, if the *)
(* servers answer and grant an IA now and then.  Unless the client is shut *)
(* down, or killed by a RECONFIGURE that comes before any lease.           *)
(***************************************************************************)
Granted(ia) == \E m \in trans : /\ ia \in m.ias
                                /\ AnswerRequest(m, m.ias, [j \in IA |-> "lease"])
Fairness ==
    /\ WF_vars(Pass)
    /\ \A x \in Xid : SF_vars(Due(x))
    /\ \A ia \in IA : SF_vars(Granted(ia))
    /\ \A s \in Server : SF_vars(\E x \in Xid : Advertised(x, s))
    /\ \A ia \in IA : SF_vars(\E s \in Server : Detect(ia, s) \/ Elapse(ia, s))
LiveSpec == Spec /\ Fairness
Configures == \A ia \in IA : Held(ia) = {} ~> (Held(ia) # {} \/ Gone)
Ages == \A ia \in IA : age[ia] = "due" ~> \/ age[ia] # "due" \/ Held(ia) = {}
                                         \/ Gone
==============================================================================
