----------------------------- MODULE ClntTimers -----------------------------
(***************************************************************************)
(* The times of the client's leases and of the messages that extend them:  *)
(* T1, T2 and the valid lifetime of an IA (AddrMgr), the retransmission of *)
(* RENEW and REBIND (TClntMsg::send), and how long the client sleeps       *)
(* (TClntTransMgr::getTimeout).  What the messages say and who answers is  *)
(* ClntTrans's subject; here the search for a server is one step, Obtain.  *)
(*                                                                         *)
(* A time is kept as the seconds left: a timestamp plus a lifetime minus   *)
(* the clock, as every get...Timeout returns it, is at least 0.  Both      *)
(* clocks of the client, the monotonic one of the leases and the wall clock *)
(* of the messages, tick together.                                         *)
(***************************************************************************)
EXTENDS Integers, FiniteSets

CONSTANTS
    IA,          \* the IAIDs of client.conf, in the order of the lists
    IfaceOf,     \* the interface of an IA
    Offers,      \* the times in a server's IA_NA
    IRT, MRT,    \* REN_TIMEOUT and REB_TIMEOUT (10), REN_MAX_RT and REB_MAX_RT (600)
    Forever,     \* DHCPV6_INFINITY, the sleep when there is nothing to wait for
    Late         \* the process may get the processor later than select ends

ASSUME IAAssumption == IA \subseteq Nat /\ IA # {} /\ IsFiniteSet(IA)
ASSUME OfferAssumption == Offers \subseteq [t1 : Nat, t2 : Nat, pref : Nat, valid : Nat \ {0}]
ASSUME TimeAssumption == /\ IRT \in Nat \ {0} /\ MRT \in Nat \ {0}
                         /\ Forever \in Nat \ {0}

VARIABLES
    cfg,     \* TClntCfgIA::State: notconf, inproc (being solicited), conf
    st,      \* TAddrIA::State
    held,    \* the IAs with an address
    left,    \* the seconds left of an IA's T1, T2 and valid lifetime
    trans,   \* the RENEWs and REBINDs of Transactions
    sleep,   \* the seconds left of select's timeout
    at       \* where the thread is

db == <<cfg, st, held, left>>
vars == <<db, trans, sleep, at>>

State == {"notconf", "inproc", "conf"}
Times == [t1 : Nat, t2 : Nat, valid : Nat]

\* mrd: what is left of MRD after this transmission; wait: of RT
Message == [type : {"renew", "rebind"}, ias : SUBSET IA, mrd : Nat, rt : Nat, wait : Nat]

TypeOK == /\ cfg \in [IA -> State]
          /\ st \in [IA -> State]
          /\ held \subseteq IA
          /\ left \in [IA -> Times]
          /\ trans \subseteq Message
          /\ \A m \in trans : m.rt > 0 /\ m.wait <= m.rt /\ m.ias # {}
          /\ sleep \in 0..Forever
          /\ at \in {"select", "messages", "expire", "solicit", "renew"}

Least(S) == CHOOSE n \in S : \A m \in S : n <= m
AtMost(a, b) == IF a <= b THEN a ELSE b
Less(n) == IF n > 0 THEN n - 1 ELSE 0

Init == /\ cfg = [ia \in IA |-> "notconf"]
        /\ st = [ia \in IA |-> "notconf"]
        /\ held = {}
        /\ left = [ia \in IA |-> [t1 |-> 0, t2 |-> 0, valid |-> 0]]
        /\ trans = {}
        /\ sleep = 0
        /\ at = "select"

------------------------------------------------------------------------------
(* Retransmission, TClntMsg::send. *)

\* n within a tenth, rounded: (int)(0.5 + n + n * r), r from -0.1 to 0.1
About(n) == ((9 * n + 5) \div 10) .. ((11 * n + 5) \div 10)
\* (int)(0.5 + 2.0 * n + n * r)
AboutTwice(n) == ((19 * n + 5) \div 10) .. ((21 * n + 5) \div 10)

\* The RTs after rt, 0 before the first transmission, as far as MRT goes.
NextRT(rt) ==
    LET grown == IF rt = 0 THEN About(IRT) ELSE AboutTwice(rt)
    IN {n \in grown : n <= MRT} \cup (IF \E n \in grown : n > MRT THEN About(MRT) ELSE {})

\* FAULTY VARIANT of Sent: MRD does not cut RT.
Sent_NotCut(type, ias, rt, mrd) ==
    {[type |-> type, ias |-> ias, rt |-> r, mrd |-> IF mrd = 0 THEN 0 ELSE mrd - r, wait |-> r] :
        r \in NextRT(rt)}

\* The message of this type as it stands after a transmission, if its RT was rt
\* and mrd was left to it: MRD cuts RT and loses it, unless it is 0.
Sent(type, ias, rt, mrd) ==
    {[type |-> type, ias |-> ias, rt |-> r, mrd |-> IF mrd = 0 THEN 0 ELSE mrd - r, wait |-> r] :
        r \in {IF mrd = 0 THEN n ELSE AtMost(n, mrd) : n \in NextRT(rt)}}

------------------------------------------------------------------------------
(* Time and the network, in select. *)

Tick == /\ at = "select"
        /\ sleep > 0 \/ Late
        /\ left' = [ia \in IA |-> [t1 |-> Less(left[ia].t1), t2 |-> Less(left[ia].t2),
                                   valid |-> Less(left[ia].valid)]]
        /\ trans' = {[m EXCEPT !.wait = Less(@)] : m \in trans}
        /\ sleep' = Less(sleep)
        /\ UNCHANGED <<cfg, st, held, at>>

\* The timeout is over.
Wake == /\ at = "select" /\ sleep = 0
        /\ at' = "messages"
        /\ UNCHANGED <<db, trans, sleep>>

\* A message nobody here waits for arrives.
Disturbed == /\ at = "select" /\ sleep > 0
             /\ at' = "messages"
             /\ sleep' = 0
             /\ UNCHANGED <<db, trans>>

\* The T1, T2 and valid lifetime an IA gets: those of the IA_NA, or by default
\* half and seven tenths of the preferred lifetime.
Chosen(o) == IF o.t1 > 0 /\ o.t2 > 0
             THEN [t1 |-> o.t1, t2 |-> o.t2, valid |-> o.valid]
             ELSE [t1 |-> o.pref \div 2, t2 |-> (7 * o.pref) \div 10, valid |-> o.valid]

\* TClntOptIA_NA::doDuties for the IAs of D; cfg is set by the caller.  A server
\* has one address for each IA: the one held starts its lifetimes anew.
Configure(D, o) ==
    /\ st' = [ia \in IA |-> IF ia \in D THEN "conf" ELSE st[ia]]
    /\ held' = held \cup D
    /\ left' = [ia \in IA |-> IF ia \in D THEN Chosen(o[ia]) ELSE left[ia]]

\* The search for a server ends: the REPLY to a REQUEST brings leases for D.
Obtain(D, o) ==
    /\ at = "select" /\ \A ia \in D : cfg[ia] = "inproc"
    /\ Configure(D, o)
    /\ cfg' = [ia \in IA |-> IF ia \in D THEN "conf" ELSE cfg[ia]]
    /\ at' = "messages" /\ sleep' = 0
    /\ UNCHANGED trans

\* The REPLY to a RENEW renews the IAs of D.  For the others it has an error: they
\* stay in process; with nobinding all are to be solicited, as no other server
\* is known (sendRequest with an empty list).  A REPLY to a REBIND is dropped:
\* TClntMsg::answer looks for the server identifier in the REBIND.
AnswerRenew(m, D, o, nobinding) ==
    /\ at = "select" /\ m.type = "renew"
    /\ nobinding => D # m.ias
    /\ Configure(D, o)
    /\ cfg' = [ia \in IA |-> IF nobinding /\ ia \in m.ias THEN "notconf"
                             ELSE IF ia \in D THEN "conf" ELSE cfg[ia]]
    /\ trans' = trans \ {m}
    /\ at' = "messages" /\ sleep' = 0

------------------------------------------------------------------------------
(* TClntTransMgr::doDuties: messages whose RT is over, ... *)

Due(m) == at = "messages" /\ m \in trans /\ m.wait = 0

Resend(m) == /\ Due(m) /\ m.mrd > 0
             /\ \E n \in Sent(m.type, m.ias, m.rt, m.mrd) : trans' = (trans \ {m}) \cup {n}
             /\ UNCHANGED <<db, sleep, at>>

\* The longest valid lifetime of the IAs, getMaxValidTimeout.
Longest(ias) == CHOOSE n \in {0} \cup {left[ia].valid : ia \in ias \cap held} :
                   \A ia \in ias \cap held : left[ia].valid <= n

\* FAULTY VARIANT of Rebind: the REBIND goes on for what was left to the RENEW.
Rebind_RenewMRD(m) ==
    /\ Due(m) /\ m.type = "renew" /\ m.mrd = 0
    /\ \E n \in Sent("rebind", m.ias, 0, m.mrd) : trans' = (trans \ {m}) \cup {n}
    /\ UNCHANGED <<db, sleep, at>>

\* T2: the RENEW becomes a REBIND.
Rebind(m) ==
    /\ Due(m) /\ m.type = "renew" /\ m.mrd = 0
    /\ \E n \in Sent("rebind", m.ias, 0, Longest(m.ias)) : trans' = (trans \ {m}) \cup {n}
    /\ UNCHANGED <<db, sleep, at>>

\* The REBIND gives up: its IAs lose their addresses (releaseIA).
GiveUp(m) ==
    /\ Due(m) /\ m.type = "rebind" /\ m.mrd = 0
    /\ held' = held \ m.ias
    /\ st' = [ia \in IA |-> IF ia \in m.ias THEN "notconf" ELSE st[ia]]
    /\ cfg' = [ia \in IA |-> IF ia \in m.ias THEN "notconf" ELSE cfg[ia]]
    /\ trans' = trans \ {m}
    /\ UNCHANGED <<left, sleep, at>>

EndOfMessages == /\ at = "messages" /\ at' = "expire"
                 /\ \A m \in trans : m.wait > 0
                 /\ UNCHANGED <<db, trans, sleep>>

(* ... addresses that have run out (removeExpired, TClntAddrMgr::doDuties), *)

\* FAULTY VARIANT of Expire: IAs in process are passed over.
Expire_Configured ==
    LET over == {ia \in held : left[ia].valid = 0 /\ st[ia] = "conf"} IN
    /\ at = "expire" /\ at' = "solicit"
    /\ held' = held \ over
    /\ cfg' = [ia \in IA |-> IF ia \in over THEN "notconf" ELSE cfg[ia]]
    /\ st' = [ia \in IA |-> IF ia \in over THEN "notconf" ELSE st[ia]]
    /\ UNCHANGED <<left, trans, sleep>>

Expire ==
    LET over == {ia \in held : left[ia].valid = 0} IN
    /\ at = "expire" /\ at' = "solicit"
    /\ held' = held \ over
    /\ cfg' = [ia \in IA |-> IF ia \in over THEN "notconf" ELSE cfg[ia]]
    /\ st' = [ia \in IA |-> IF st[ia] = "conf" /\ ia \notin held' THEN "notconf" ELSE st[ia]]
    /\ UNCHANGED <<left, trans, sleep>>

(* ... IAs to be solicited, ... *)

CheckSolicit ==
    /\ at = "solicit" /\ at' = "renew"
    /\ cfg' = [ia \in IA |-> IF cfg[ia] = "notconf" THEN "inproc" ELSE cfg[ia]]
    /\ st' = [ia \in IA |-> IF cfg[ia] = "notconf" THEN "inproc" ELSE st[ia]]
    /\ UNCHANGED <<held, left, trans, sleep>>

(* ... and IAs to be renewed: the first one past T1 and those of its interface. *)

\* checkRenew also passes over an IA whose address the kernel is still checking
\* for duplicates, which it does not ask about for DADTIMEOUT seconds.  No lease
\* of this model is so short: T1 always comes later.
DADTIMEOUT == 3
ASSUME DADAssumption == \A o \in Offers : Chosen(o).t1 > DADTIMEOUT

Aging == {ia \in IA : st[ia] = "conf" /\ left[ia].t1 = 0}
Group == {ia \in Aging : IfaceOf[ia] = IfaceOf[Least(Aging)]}

\* FAULTY VARIANT of Timeouts: leases in process are not looked at.
Timeouts_ConfOnly(s, M) ==
    (UNION {{left[ia].t1, left[ia].t2, left[ia].valid} : ia \in {x \in IA : s[x] = "conf"}})
      \cup (IF \E ia \in IA : s[ia] = "notconf" THEN {0} ELSE {})
      \cup {m.wait : m \in M}
      \cup {Forever}

\* What getTimeout looks at, with the states s and the messages M: T1 and T2 of
\* what is configured, all addresses, all messages.
Timeouts(s, M) ==
    (UNION {{left[ia].t1, left[ia].t2} : ia \in {x \in IA : s[x] = "conf"}})
      \cup (IF \E ia \in IA : s[ia] = "notconf" THEN {0} ELSE {})
      \cup {left[ia].valid : ia \in held}
      \cup {m.wait : m \in M}
      \cup {Forever}

\* TDHCPClient::run sleeps for a second where getTimeout says 0.
Timeout(s, M) == IF 0 \in Timeouts(s, M) THEN 1 ELSE Least(Timeouts(s, M))

\* The messages of the search, duplicate address detection and router
\* lifetimes may end the sleep earlier.
CheckRenew ==
    LET s == [ia \in IA |-> IF ia \in Group THEN "inproc" ELSE st[ia]] IN
    /\ at = "renew" /\ at' = "select"
    /\ IF Aging = {}
       THEN UNCHANGED <<st, trans>>
       ELSE /\ st' = s
            /\ \E n \in Sent("renew", Group, 0, left[Least(Group)].t2) : trans' = trans \cup {n}
    /\ sleep' \in 1..Timeout(st', trans')
    /\ UNCHANGED <<cfg, held, left>>

------------------------------------------------------------------------------
Pass == \/ Wake
        \/ \E m \in trans : Resend(m) \/ Rebind(m) \/ GiveUp(m)
        \/ EndOfMessages
        \/ Expire
        \/ CheckSolicit
        \/ CheckRenew

Receive == \/ Disturbed
           \/ \E D \in (SUBSET IA) \ {{}}, o \in [IA -> Offers] : Obtain(D, o)
           \/ \E m \in trans, o \in [IA -> Offers], nobinding \in BOOLEAN :
                 \E D \in SUBSET m.ias : AnswerRenew(m, D, o, nobinding)

Next == Tick \/ Pass \/ Receive

Spec == Init /\ [][Next]_vars

\* The clock ticks whatever the client does, and run() is a loop; servers
\* need not answer.
FairSpec == Spec /\ SF_vars(Tick) /\ WF_vars(Pass)

------------------------------------------------------------------------------
(***************************************************************************)
(* A RENEW is sent until T2 and not beyond, and a REBIND until the lease   *)
(* is over: what is left to the message, MRD and the RT it is waiting for, *)
(* is at any time what is left of the lease, though the two are counted    *)
(* apart, in steps of random length.  With one IA per interface, T1, T2    *)
(* and the valid lifetime some seconds apart, and a punctual process.      *)
(***************************************************************************)
TimedByLease == \A m \in trans : \A ia \in m.ias :
    m.mrd + m.wait = IF m.type = "renew" THEN left[ia].t2 ELSE left[ia].valid

(***************************************************************************)
(* Neither the end of a REBIND nor anything else takes an address from an  *)
(* interface while it is valid (releaseIA: "remove outdated address").     *)
(***************************************************************************)
KeptWhileValid == [][\A ia \in held \ held' : left[ia].valid = 0]_vars

(***************************************************************************)
(* The client does not oversleep: while it sleeps, it has no address that  *)
(* has run out, and no lease is past T1 without a RENEW having been sent,  *)
(* but for one of another interface, to be sent within a second.           *)
(***************************************************************************)
OnTime == at = "select" /\ sleep > 0 =>
    \A ia \in IA : /\ ia \in held => left[ia].valid > 0
                   /\ st[ia] = "conf" => left[ia].t1 > 0 \/ sleep = 1

(***************************************************************************)
(* An IA that has been asked to be renewed gets a new lease or loses its   *)
(* address, even if the answer was an error and nothing is sent for it any *)
(* more (TClntMsgRenew::answer).                                           *)
(***************************************************************************)
Settles == \A ia \in IA : (ia \in held /\ st[ia] = "inproc")
                             ~> (ia \notin held \/ st[ia] # "inproc")
==============================================================================
