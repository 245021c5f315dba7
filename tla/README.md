# Dibbler in TLA+

Specifications of [dibbler](../src), a DHCPv6 server, client and relay, with TLC
configurations that check them and TLAPS proofs about them. Everything is
translated from the C++ source; `PROJECT.json` names, for each definition, the
lines it stands for.

## 1. The system

| part | source | state it keeps | operations |
|---|---|---|---|
| server lease database | `SrvAddrMgr`, `AddrMgr` | clients → IAs → addresses and prefixes, each with timestamp and lifetimes; address/prefix cache | add, delete, renew, expire, count, is-free, dump, load |
| server configuration | `SrvCfgMgr` | interfaces, address classes (pools) with usage counters, TA and PD pools, reservations (`client { }`), access lists, client classes | choose class, count up/down, is reserved, recount at start |
| server messages and options | `SrvMessages`, `SrvOptions` | one object per message being answered | one constructor per message type; `TSrvOptIA_NA`, `TSrvOptTA`, `TSrvOptIA_PD` assign, renew, release |
| server main loop | `Misc/DHCPServer.cpp`, `SrvTransMgr` | done flags, sockets | duties (expiry), timeout, relay a message to its handler, dump, reconfigure at start-up |
| client transactions | `ClntTransMgr`, `ClntMessages` | list of transactions with RT/RC/MRT/MRD, list of advertisements | solicit, request, renew, rebind, confirm, decline, release, inf-request; answers, retransmission |
| client bindings | `ClntAddrMgr`, `ClntCfgMgr`, `ClntOptions` | each IA twice: configured state and address database state | configure, renew, expire, decline, confirm after restart |
| relay | `RelTransMgr`, `RelMessages`, `RelIfaceMgr`, `RelCfgMgr` | configuration only | encapsulate, decapsulate |
| requestor | `Requestor` | none | one query, one answer |
| messages, options, authentication | `Messages`, `Options`, `CfgMgr` | keys, replay detection value | encode, decode, sign, verify |
| interfaces and ports | `IfaceMgr`, `*IfaceMgr`, `Port-*` | sockets, operating-system interfaces | I/O |

How they interact: client and server exchange UDP messages that may be lost,
duplicated and reordered; a relay wraps and unwraps them. Inside a process
everything is one thread around `select()`: managers are singletons that call
each other directly. The server's handlers call the options' constructors, which
change the lease database (`SrvAddrMgr`) and the counters (`SrvCfgMgr`) by two
separate calls; the two are meant to agree but nothing ties them. The database
and the cache go to two files, rewritten in place after every message.

What is hard in it:

* **two copies of one fact**: the counter of a class against the leases of the
  database; the state of an IA in the client's two managers; the files against
  memory;
* **offer by doing and undoing**: an ADVERTISE leases addresses and releases
  them again in the same handler;
* **order**: hint, cache, reservation, random choice, decline, expiry and
  restart may follow each other in any way;
* **crashes**: after the answer and before the dump, inside a dump, between the
  two files;
* **timers and retries** in the client: retransmission, T1/T2, a late answer.

What makes each part correct:

* database: one holder per address; one address per IA; an address in
  quarantine (declined) goes to nobody; a lease ends by its client, by expiry or
  by a crash only; every expired lease is eventually removed;
* counters: never below the leases they count, never below zero, exact where
  nothing leaks; the search that trusts them ends (all of it as long as no SOLICIT
  names an IA twice, section 3);
* cache: within its size, one entry per client, nothing reserved;
* policy: limits per client, access lists, reservations;
* files: complete whenever the server waits;
* client: every IA is in step in both managers, is renewed, rebound or given up,
  and no transaction is left hanging; retransmission ends when it must;
* relay: what was wrapped n times is unwrapped n times, by the way it came.

## 2. Plan

| order | module | content | status |
|---|---|---|---|
| 1 | `SrvLeases` | IA_NA leases, cache, counters, expiry, dump, crash, restart | done |
| 1 | `LeaseTable`, `SrvLeasesTable` | abstract table of holders; the server implements it | done, checked and proved |
| 1 | `SrvLeases_proofs`, `SrvLeasesSafety_proofs` | type correctness and safety, for every configuration | done |
| 1 | `Relay`, `Relay_proofs` | chains of relays and the server's side of them | done |
| 2 | `SrvPrefixes`, `SrvPrefixes_proofs` | prefix delegation: choice, counters, limit, restart | done |
| 2 | `SrvTemporary`, `SrvTemporary_proofs` | IA_TA: its limits, shared with the other leases, and what clients hold of it | done |
| 2 | `ClntTrans`, `ClntTrans_proofs` | the life of a client's IAs over its transactions, both managers | done |
| 2 | `ClntTimers`, `ClntTimers_proofs` | T1, T2, lifetimes, RT, MRT, MRD and the client's sleep, in seconds | done |
| 3 | counters, limit, lists and cache of `SrvLeases`, `LeaseTable`, types and subnets of `Relay`, several IAs in `ClntTimers`, proved | every safety property of the passing runs is a theorem | done |
| 3 | the safety halves of liveness: what `SrvLeases` and `ClntTrans` owe when they wait, as `PassedOn` of `Relay` | no message or lease is left that no action would deal with | open |
| 3 | `SrvReload` | restart with a changed configuration: what is loaded, verified, reserved, recounted, reconfigured | open |
| 4 | `Dhcp` | server and client over a network that loses, duplicates and reorders; promises lost in a crash | open |

`SrvLeasesTable` composes `SrvLeases` with `LeaseTable`, and every `MC_` module
one component with its constants; server, client and relay are checked apart,
each against an environment that may do all the others can (section 10).

## 3. SrvLeases

One server, its lease database, counters, cache and files.

| variable | in the code |
|---|---|
| `leases` | `TSrvAddrMgr`'s clients, IAs and addresses, flattened: a lease is client, IAID, address and the interface the IA was created with. Clients and IAs exist exactly while they hold an address, as in `delClntAddr` |
| `expired` | the leases whose `getValidTimeout()` is 0 |
| `cache` | `TSrvAddrMgr::Cache`, oldest entry first |
| `assigned` | `AddrsAssigned_` of each class, with the width of its type (`ULong`) |
| `disk` | `server-AddrMgr.xml` and `server-cache.xml` |
| `phase`, `msg`, `options` | where the thread is: in which message, and how many of its IA options are done |
| `todo` | the addresses it has still to give back: a bag, as an address that stands in two options of an ADVERTISE is given back for each |
| `repeated` | history, read by properties only: since the start a SOLICIT was offered one binding in two options |

Actions follow the code's functions: `AssignBound`, `AssignFixed`,
`AssignRefused`, `AssignCached`, `AssignHint`/`AssignSpins`,
`AssignRandom`/`AssignNothing` are steps 3 to 8 of the constructor of
`TSrvOptIA_NA`; `RenewIA`, `RebindIA`, `RebindDiscarded`, `DeclineAddr` and
`ReleaseAddr` the bodies of the `TSrvMsgReply` constructors; `Duties`,
`ReleaseOne`, `ReleaseDone` expiry and the release of an offer; `DumpDb` and
`DumpCache` the two files; `Crash` a stop at any point, `Restart` an orderly
one. The handlers are split into steps although the program has one thread,
because a crash may fall between them, and because the content of a message is
chosen as it is read.

Modelling choices:

* the IA options of a message are any, in any order, and several may be for one
  IA: `TMsg::check` and `processOptions` compare no IAIDs. An option carries at
  most one address hint (more hints are tried in turn by the code with the same
  test for each);
* the random draws of an address are a nondeterministic choice; a hundred draws
  may all fail as soon as some address of the class cannot be used;
* the order in which several addresses are released is not fixed: they are
  independent but for the order of the cache;
* a database file cut short by a crash is read as any subset of the leases (the
  reader drops what it cannot finish), a cache file as a prefix. A cut inside
  the text of one address is left out;
* reservations are per interface and client; `removeReservedFromCache` finds
  nothing as long as the configuration is the same, since `addCachedEntry`
  already refuses reserved addresses;
* client-class expressions, shares, lifetimes, FQDN, CONFIRM's answer and the
  leases of IA_TA and IA_PD are left out. The configuration is constant.

Bounds: `MaxOptions` is the number of assignable IA options in a message (two: a pair
for one IA, or for two), `MaxRestarts` limits crashes and restarts, `MaxAssigned`
stops new requests when a counter has leaked up to it (where interfaces or
reservations make it leak without end; one that has wrapped to the top value is let
through, so that the run goes on from there), and `ULong` is small so that a counter that
wraps is seen to wrap.

### The runs

| run | configuration | properties | what it shows |
|---|---|---|---|
| `core` | 2 clients on 2 interfaces, a pool of one address on each and a third address reserved for c1, 2 options per message, cache of 1, 1 crash or restart | `TypeOK` `Exclusive` `OneAddressPerIA` `CountersCover` `Durable` `TableSpec` `NoForeignRevocation` | the whole core: every grant meets competition and the pools run empty; what leaks from a counter leaks one way only, until a SOLICIT repeats an IAID; `SrvLeases` implements `LeaseTable` (3.4 million states) |
| `live` | 1 interface, 2 classes, the first white-listed for c2, 2 clients with 2 IAs each and a limit of one lease, 2 options per message, rapid commit, cache of 2, no restart | `HintSearchEnds` `ClientLimit` `SupportedOnly` `CountersExact` `CacheSound` `AlwaysReturns` `ExpiredEnds` | every message is dealt with, every expired lease ends, though messages never stop; with one interface and no repeated IAID the counters leak nothing and the search near a hint ends; limits and lists hold on every path; the cache keeps one entry per client within its size (242 thousand states) |

Two clients are enough for every race between holders (one holds, one takes, the
dummy client is the third); two IAs make a client compete with itself; one crash
between any two steps shows what files and memory may disagree on. `live` has no
restart, since two options per message and liveness are as much as TLC does in
minutes; `core` has them, and the theorems of section 9 about the properties of
`live` that are safety cover any number of them. Performance
mode, in which nothing is written, is off in the runs; the proofs cover both.
In `core` deadlock is not checked: with two interfaces the search near a hint may
spin, which is the run `spin`.

One more run expects a violation: it states what a comment says and shows the
program doing otherwise.

| run | property | what happens |
|---|---|---|
| `spin` | `HintSearchEnds` | with two interfaces and a restart, declined addresses are not recounted and the unbounded search beside a used hint runs for ever |

### What the server does

Seen in the model, with no run of its own:

* a SOLICIT with two IA_NAs of one IAID (which no client should send, and the server
  does not refuse) makes a class miscount. The second option finds the binding the
  first one made and offers it again; `releaseAll` then gives the address back for each
  option, and `releaseAllAddrs` (`SrvOptIA_NA.cpp:325`) lowers the counter of the class
  although the database held nothing the second time. The counter is one below the
  leases until the next start, or wraps, and then the class looks full, or, with one
  more lease than it counts, lets the search near a hint spin on one interface too.
  `repeated` marks this: `CountersCover`, `CountersExact` and `HintSearchEnds`
  are about the time before it, and `AlwaysReturns` and `ExpiredEnds` end either as they
  should or in that search (`Stuck`). Nothing else is excepted: the leases themselves
  (`Exclusive`, `TableSpec`, `OneAddressPerIA`, the limits and lists, the files) stay
  right with repeated IAIDs too;
* an ADVERTISE gives back all the addresses it names (`TSrvMsg::releaseAll`), those
  of a binding the client already had too: a client that solicits loses its lease;
* a client that asks for an address that is used gets one drawn beside it, and
  that draw does not skip addresses reserved for other clients
  (`SrvOptIA_NA.cpp:634`); `Exclusive` therefore excepts reserved addresses;
* class-max-lease is compared when a class is chosen at random, and not for a
  free hint or a cached address, which are granted beyond it.

Fairness: `FairSpec` has weak fairness of `Work`, the steps the thread takes on
its own (handling, releasing, dumping, duties). The loop of `TDHCPServer::run`
takes them without waiting for anything. Nothing is assumed about clients, about
expiry or about crashes, except that these are finitely many. `ExpiredEnds`
rests on `doDuties` being called on each round of the loop, before `select`.

### LeaseTable

What the database promises, without the how: an address has one holder; it
passes from one to another through being free, or into quarantine; a crash
brings back the saved or the current holders, or some of them. The refinement
maps the holder of an address to the client and IAID of its lease, the
quarantine to the dummy client's IA and `saved` to `server-AddrMgr.xml`, on the
addresses nobody has reserved: a reserved address may be in several IAs, and is even handed out again
to the client that has just declined it (`assignFixedLease` asks nobody).

## 4. Relay

Clients, relays and the server, joined by links: a *port* is an interface of a
relay or of the server, and `Attached` says at the links of which ports a client
or the upper side of a relay is. Relays remember nothing between messages, so
the state is the messages in flight.

| variable | in the code |
|---|---|
| `up` | RELAY-FORWs, and questions of clients not yet relayed: the levels, outermost first, each with hop count, link address (the port), peer address and interface-id |
| `down` | RELAY-REPLs and answers: per level the peer address, the interface-id and the length field the server wrote |
| `stopped` | relays whose process has ended |
| `asked`, `answered`, `lost` | what clients sent and got, and what the network took; used by the properties |

`Forward` is `TRelTransMgr::relayMsg` with the encoding of the next level,
`ForwardUndecoded` the same function given a message whose outer level
`TRelMsgRelayForw` refused to decode. `Serve` is the server's
`decodeRelayForw` (choice of the configured interface, level by level), with
`TSrvMsg::send` and `storeSelfRelay`, which compute and write the lengths; what is
nested deeper than `HopCountLimit` it drops, as it drops what comes from no link it
knows. `Back`
is `decodeRelayRepl` with `relayMsgRepl`: which interface, which addressee, what
is inside. `Lose` is the network; messages are reordered and, being a set,
delivered in any order. Whatever the server answers is one answer: leases are
the subject of section 3.

Assumptions: the client-facing interface of a relay has a global address, so a
link address names a link; the server's `iface relay` stands on the physical
interface a question arrives at (`setupRelay` in `SrvCfgMgr` accepts only
physical ones, so a relay interface above another relay interface, as in the
manual's cascade example, has to be declared above the physical one too).
Remote-id, relay-id, echo-request and link-layer address options, malformed
messages and sockets are left out.

| run | network | properties | what it shows |
|---|---|---|---|
| `relays` | three clients, two at links of r1, one behind r1 and r2; r2 omits interface-ids and guesses | `ComesHome` `Answered` | answers to different clients, links and relays, one or two levels deep, in any order never get mixed up, and all arrive |
| `circle` | each relay at a link of the other | `TypeOK` `SubnetOfClient` `HopsBounded` | circling ends at the limit; the server chooses the innermost link, for all it answers |
| `dropped` | a relay behind a relay, interface-ids before the message | `Answered`, violated | the server counts the interface-id of an inner level twice; the outer relay drops the answer |

A message that arrives at the hop limit is not dropped: `TRelMsgRelayForw` stops
decoding, and the relay uses an object without addresses (`ForwardUndecoded`,
which ends the relay). `circle` contains it; no document promises otherwise.

`SubnetOfClient` needs the relays at clients' links to write their interface-ids.
Where the innermost relay omits it, `SelectSubnet` shows what happens: what an outer level found stays, the
inner link address is not looked at, and the client is served from the link
between the relays.

Bounds: `HopCountLimit` is 2 or 3 for the code's 32; a level more or less is the
same step again, and the circle reaches the limit whatever it is.
`MaxQuestions` (1 to 3) bounds the questions of a client; a client at the bound
is silent, so the system may stop and deadlock is not checked. Two relays make
the shortest cascade; three have only more of the same steps, and the theorems
below have no such bound. The header and option sizes are the code's.

Fairness: weak fairness of `Deliver`: relay and server loop over `select` and
take whatever has arrived. Clients need not ask and the network may lose any
message, which is why `Answered` promises an answer *or* a loss.

## 5. SrvPrefixes

Prefix delegation has its own path through the server (`TSrvOptIA_PD`,
`TSrvCfgPD`), less careful than that of addresses. A lease is client, IAID and
prefix; a prefix is a pool, the number of the prefix within it and a *tail*, the
bits behind the delegated length, because the database stores and compares whole
addresses and one path hands out addresses that were never cut.

| variable | in the code |
|---|---|
| `leases`, `expired`, `assigned`, `disk` | as in section 3, for `addPrefix`, `PD_Assigned` and the prefixes of `server-AddrMgr.xml` |
| `phase`, `msg`, `options` | where the thread is, and how many IA_PD options it is done with |
| `offered` | which option of an ADVERTISE has which prefixes: `releaseAllPrefixes` gives them back, option by option |
| `repeated` | history, as in section 3 |

`existingLease`, `assignFixedLease`, `assignHint`, `assignOther`/`searchSpins`,
`assignRandom`, `findNothing` and `refuse` are the cases of `solicitRequest`,
`assignPrefix` and `getFreePrefixes`; `renew`, `release`, `Answer`, `Duties`, `Dump` and `Restart` as
before. A cached prefix is used exactly as a hint of the client, so the cache is
one of the hints. There is one interface. REBIND, CONFIRM and DECLINE change no
prefix.

Run `prefixes`: three clients with two IA_PDs each, a class with a pool of two
prefixes closed to c2, a class of two pools with one prefix each, a reserved
prefix with bits behind its length, limit 1, two options per message, one crash
(2.6 million states).
Three clients because one is reserved for, one is refused by a class and one is
neither. `TypeOK` `NotTwice` `CountersExact` `ClientLimit` hold;
`OthersUntouched` is proved only.
Deadlock is not checked: the search beside a used hint spins when its class,
other than the first, is full.

### What the model shows of prefixes

* The draw beside a used hint is not cut to the delegated length
  (`SrvOptIA_PD.cpp:606`), so two clients can hold overlapping prefixes.
  `NotTwice` states what is left: no *address* is delegated twice. It also ignores
  reservations.
* `getRandomList` cuts the common part of a pool at length + 1 (`SrvCfgPD.cpp:131`):
  the upper half of a pool is never drawn, and a client without a hint is refused
  when the lower half is leased. When one prefix is left by the counter, the same
  one is always tried.
* Only the first class's counter is compared with its size (line 537), and a list
  of one prefix per pool counts once for each pool, so classes go beyond their
  size and the comment "asigned>total should never happen" does not hold.
* A reserved prefix is leased without asking whether it is leased, and as the
  configuration wrote it, uncut.
* As for addresses, a SOLICIT of a client that has a prefix loses it the lease.
* As for addresses, a SOLICIT may have two IA_PDs of one IAID: both get the same
  prefixes, and `releaseAllPrefixes` (`SrvOptIA_PD.cpp:105`) lowers the counter for
  each, so that it is too low, or wraps, until the next start. `CountersExact` is about the
  time before (`repeated`); `NotTwice` and `ClientLimit` hold regardless.

## 6. SrvTemporary

Temporary addresses have a third path (`TSrvOptTA`), which knows no binding, hint,
cache or reservation: each REQUEST draws one more address for the IA_TA and
records it, and an ADVERTISE draws one that is recorded nowhere.

| variable | in the code |
|---|---|
| `temps`, `ended` | the addresses of all IA_TAs in the database; those whose `getValidTimeout()` is 0 |
| `used` | what the clients hold: not a state of the server |
| `unrecorded` | those of `used` that a rapid SOLICIT did not record or a restart forgot: a history variable, which no action reads |
| `normal`, `beside` | how many other leases a client has, addresses of the class and all else; `getLeaseCount` adds the three kinds |

`Request`, `RapidSolicit`, `Release` and `Decline` are the messages, with a REPLY or
RELEASE that may be lost; `TimeOut` is the end of a lifetime, seen by both sides in
the same second (the REPLY's way is neglected), `Duties` and `Restart` as before.
`AssignNormal`, `AssignPrefix`, `AssignFixed` and `EndOther` stand for all of
`SrvLeases` and `SrvPrefixes` as far as the limits see it: the first two look at
client-max-lease, a fixed lease does not. `WillAssign` is the arithmetic of
`solicitRequest` with its unsigned difference (`Minus`).

| run | instance | properties | shows |
|---|---|---|---|
| `temporary` | 2 clients, 2 IA_TAs each, pools of 2 and 1 addresses that overlap, limit 2, rapid commit, 1 restart, c2 taken past the limit by fixed leases | `TypeOK` `UsedIsLeased` `NotShared` `ClientLimit` `LeftoversEnd` | what was recorded for a client is leased to it and to nobody else, whatever is lost; the three limit checks together hold c1 at its limit; what lost messages leave in an IA_TA ends though its client keeps asking |

Two clients suffice to share an address, two IA_TAs of one client to look at the
wrong one, and two addresses in an IA_TA to have one end before the other.
`MaxOther` bounds the other leases: two beside two of a client reach both sides of a
limit of two, and two normal ones both sides of the limits of one. The unsigned long
has 8 values, more than all leases there can be.
Deadlock is not checked: with nothing leased and the limits full nothing need happen.

Fairness: time passes for every lease (`TimeOut`), and the server's loop wakes up
when the first of them ends (`Duties`). No message need be sent or arrive.

What else the model shows, where the code differs from what is said of it:

* A SOLICIT with rapid commit is answered by a REPLY that `assignAddr` makes with the
  message type SOLICIT, and only for a REQUEST is the address recorded
  (`SrvOptTA.cpp:223`): it stays free, and the next client may get it. The comment at
  `SrvOptTA.cpp:186` says that the method marks the address as used.
* `server-AddrMgr.xml` holds the IA_TAs, and `parseAddrTA` (`AddrMgr.cpp:857`) skips
  them, though `CHANGELOG:185` says that temporary addresses are stored in the
  database: after a restart an address in use goes to somebody else.
* Fixed leases take a client past client-max-lease; then `addrsMax - addrsAssigned`
  (`SrvOptTA.cpp:115`) wraps and each REQUEST adds a temporary address.
  `ClientLimit` is therefore about the others.
* iface-max-lease, documented as a limit of the normal addresses of an interface
  (`doc/dibbler-user-config-server.tex:369`), is looked at by IA_TA only
  (`SrvCfgMgr.cpp:410`).

The addresses a client may get are counted from what the *address class* has left
(`countAvailAddrs`), so that temporary addresses are refused when the normal ones are
used up, or the class is closed to the client. A client whose REPLY was lost asks
again and takes a second address; the first stays taken until it ends. With
ta-classes that share addresses with an address class, which the model excludes and
the parser does not, `releaseAllAddrs` after an ADVERTISE could take the client's
normal lease of the same IAID.

## 7. ClntTrans

The client keeps an IA twice: `TClntCfgIA` says whether it is to be solicited,
`TAddrIA` what it holds and in which state. Every check of `doDuties` looks at
one of the two and every handler sets one, the other or both.

| variable | in the code |
|---|---|
| `cfg`, `st` | the state of an IA in `ClntCfgMgr` and in `ClntAddrMgr` |
| `addr` | its addresses, named by the server that gave them, with tentative status; `over`: the valid lifetime is 0 |
| `from` | the server the IA is renewed with |
| `age` | its T1: `fresh`, `due`, or `frozen` by the wrong clock of `addrsAccepted` |
| `trans`, `adv` | `Transactions` and `AdvertiseLst` |
| `todo`, `at` | the messages this pass has still to look at, and where the thread is; "down" after `shutdown`, "crashed" after a RECONFIGURE too early |

The client is one thread: it sleeps in `select`, handles at most one message
(`Receive`), then makes one pass of `doDuties`, part by part (`Pass`, `Due`). The
network is not a variable: while a message is in `trans` any server it reaches may
answer it at any time, any number of times or never, which is what loss, delay,
duplication and reordering are to the client; an answer to a message that is gone
is dropped by its transaction identifier. `Retries` stands for how often a
message is sent; its times are `ClntTimers`'s.

| run | instance | properties | what it shows |
|---|---|---|---|
| `client` | 1 IA, 2 servers (one of preference 255), an address found in the database or not, link changes, duplicates | `TypeOK` `NoneForgotten` `AllReleased` | however answers, timeouts, expiry, link changes and declines fall, an IA without an address is about to be or is being asked for, and a client that stops releases what it has (2.6 million states) |
| `client_live` | 1 IA, 1 server, retransmission, RECONFIGURE | `Configures` `Ages` | the IA gets an address, and a lease past T1 is renewed or ends, unless the client stops or crashes |
| `client_backup` | 1 IA, 2 servers, retransmission | `WellFormed`, violated | the REQUEST to a backup server lacks the CLIENTID or has two SERVERIDs, and no server accepts it |

Bounds: `Xid` messages alive at once (a pass creates at most two, and with fewer
than `Room` free nothing new is begun by time or link, so that four suffice for a
REQUEST, a DECLINE, a CONFIRM and a RENEW of one IA), `MaxAdv` ADVERTISEs kept per
server, `Retries` 0 or 1 for the code's 5 to 10: one more is the same step again.

Fairness: `LiveSpec` has weak fairness of the pass (the thread loops) and strong
fairness of each message's timeout (its timer runs whatever else ends the sleep),
of time for a lease, and of one granted REQUEST and one ADVERTISE: "servers answer
now and then" is the assumption, without it no client gets an address.

### What one IA does not show

With more IAs, or other constants, these properties fail, and the reason is in
the code each time:

* two IAs on one interface, found in the database: `checkConfirm` marks every
  IA of the interface but sets the configuration state of the first only
  (`ClntTransMgr.cpp:986`), so another IA can end without address and without
  anybody asking; `NoneForgotten`;
* a server that answers with valid lifetime 0 (`Revoking`), or an address that
  runs out between `removeExpired` and `doDuties` of the address manager
  (`Ticks`): `cfg` stays configured; `NoneForgotten`;
* three IAs on three interfaces with duplicates: `checkDecline` groups a third IA
  into a REQUEST on the first one's interface, a trace of 57 states; two IAs on two
  interfaces hold, 3.3 million states without duplicates;
* two interfaces with a server each share one list of advertisements: a failing
  REQUEST of one interface keeps taking those of the other; `Configures`;
* IAs of different servers go into one RENEW, since `checkRenew` compares the
  pointers to the DUIDs as Booleans (`ClntTransMgr.cpp:1117`).

A RECONFIGURE makes the client send a RENEW for all its IAs (`handleReconfigure`,
`sendRenew`), and asks nothing but whether RECONFIGUREs are configured. Before the first
lease the server of the first IA is unknown: the RENEW's server identifier has no DUID
and `TOptDUID::storeSelf` (`OptDUID.cpp:31`) follows a null pointer when the message is
sent. `Reconfigure` has that outcome as `at` = "crashed". `client_live` contains it:
`Configures` and `Ages` promise an address, or the end of a lease, to a client that is
not gone (`Gone`).

Also in the model, and not against any property: REPLYs to a REBIND and to a
SOLICIT with rapid commit are dropped (`TClntMsg::answer` looks for the server in
the question); an accepted CONFIRM stops the lease from ageing, because the new
timestamp is of another clock; a CONFIRM answered without a status stays alive and
makes the client solicit at each such answer.

## 8. ClntTimers

The times `ClntTrans` leaves out. A time is kept as the seconds left, which is
what every `get...Timeout` computes from a timestamp, a lifetime and the clock.

| variable | in the code |
|---|---|
| `cfg`, `st`, `held` | as in section 7, with one address per IA |
| `left` | of T1, T2 and the valid lifetime of an IA |
| `trans` | RENEWs and REBINDs with MRD, RT and what is left of RT |
| `sleep`, `at` | the timeout of `select`, and where the thread is |

`Sent` is `TClntMsg::send` (RT from IRT, doubled, a tenth of chance, cut by MRT
and MRD, which it lessens), `Chosen` the default T1 and T2, `Timeouts` and
`Timeout` `getTimeout` with the second `TDHCPClient::run` sleeps instead of 0.
`Obtain` is the whole search for a server, `AnswerRenew` a REPLY for some of the
IAs of a RENEW.

Run `timers`: two IAs on an interface each, leases of 20 seconds (T1 4, T2 10)
and of 16 (7 and 9 by default), RT 2 up to 5 (52 thousand states).
`TimedByLease`: a RENEW lasts until T2 and a REBIND until the lease ends, to the
second, though message and lease are counted apart. `KeptWhileValid`: no address
is taken from an interface while it is valid. `OnTime`: the client does not sleep
past a timer. `Settles`: an IA refused by its server does not stay "in process".
Fairness: the clock ticks whatever the client does, and the pass is a loop;
servers need not answer. `Settles` rests on the end of the lease alone.

The times are small so that the seconds can be counted one by one; they keep
the order and the distance of real ones (T1 < T2 < valid, several RTs in each).
Left out: `checkRenew` passes over an IA whose address may still turn out to be a
duplicate, which it is for the first `DADTIMEOUT` (3) seconds. `DADAssumption` keeps to
leases whose T1 comes later, where that test never decides anything.

### Where a lease is lost early

* Two IAs of one interface share a RENEW and its REBIND, whose MRD is the longest
  valid lifetime of the two. The shorter lease runs out, is solicited and obtained
  anew, and then the end of the REBIND takes the fresh address (`releaseIA`,
  `ClntMsgRebind.cpp:284`). `KeptWhileValid` is violated with `Together` for
  `IfaceOf`. The RENEW's MRD is T2 of the first IA, where the code computes the least
  of all and does not use it.
* With `Late`, a process that gets the processor late, a REBIND outlives its lease
  by the lateness; `OnTime` still holds.
* With T2 not after T1, or no earlier than the end of the lease, a RENEW or REBIND
  starts with MRD 0, which means no limit for its first transmission.
* `removeExpired` and `getTimeout` look at all IAs, but one pass sends one RENEW: with
  several interfaces the next one goes out a second later, hence `sleep = 1` in
  `OnTime`.

## 9. Proofs

Eight modules hold theorems; `Least_proofs` has the one lemma that sets of naturals
have a least element, which the others cite. Every theorem holds for every value
of the constants that meets the named assumptions, and where it has further
hypotheses they are stated here.

`SrvLeases_proofs` and `SrvLeasesSafety_proofs`: every set of clients, IAIDs,
addresses, interfaces and classes, every width of the counters and every number
of restarts (`ClientsAssumption`, `ConfigAssumption`).

* `TypeCorrect` (`TypeOK`). Not inductive alone: a restart takes its leases from
  the files and counts them, so `TypeInv` adds that the files list as expired
  only leases they hold, and that both sets of leases are finite. The lemmas
  before it say what the operators of the model return; `AssignOutcome` sums up
  the eight ways through the assignment policy in one sentence.
* `ExclusiveHolds`, `OneAddressPerIAHolds` (`Exclusive`, `OneAddressPerIA`) from
  `HolderInv`, which states both of memory and of the files. `LeasesStep` says
  what any step can do to the leases: nothing, one ends, one begins, one moves
  to quarantine, or a restart. Each invariant is then four cases.
* `NoForeignRevocationHolds` (`NoForeignRevocation`): an action property, from
  `LeasesStep` and from `WorkInv`, which ties the work list to the phase and to the
  message: a list exists only while an ADVERTISE or the duties are under way, and
  holds leases of that client or expired ones.
* `DurableHolds` (`Durable`), outside performance mode, from `FilesInv`.
* `TableImplemented` (`TableSpec`): the server implements the abstract table. Each
  of the five cases of `LeasesStep` is a step of the table or leaves it as it was,
  because under `HolderInv` an address has one holder (`HolderOf`). Assumes
  that no pair of a client and an IAID is the value for "no address"
  (`TableAssumption`), which stands for a free address.
* `CacheSoundHolds` (`CacheSound`): remembering puts an entry in front after it
  removed the client's old one, and cuts at the end (`CacheStep`). Inductive with
  the same of the cache in the files, which a restart loads.
* `ClientLimitHolds` (`ClientLimit`), where there is an interface at all. A step adds
  one lease at most, and only after the test (`Begins`); a restart brings back the
  leases of the files, of which `LimitInv` says the same.
* `SupportedOnlyHolds` (`SupportedOnly`), assuming `PoolsDisjoint`. A remembered address
  is granted unasked, so `AdmittedInv` says of the cache what it says of the
  leases, and of both in the files. `getClassByAddr` takes the first class that
  holds an address: with overlapping pools it can name a class whose lists
  refuse the client although a later one granted the address.
* `CountersCoverHolds` (`CountersCover`), on any number of interfaces, assuming
  `AddressesLocal` (the pools and reservations that share an address are of one
  interface: a link has its own prefix) and two things of the counter's width, which in
  the code is 32 or 64 bits: `Width < ULong`, where `Width` is `MaxAssigned` and one for
  each option of a message, so that no counter reaches the top within the bounds of
  the exploration, and `LeasesFit`, so that a start after a repeated IAID can count
  whatever leases it finds. `CoverInv` says it of the time in which no SOLICIT has
  repeated an IAID; that time begins with every start, where `setCounters` counts
  anew, and ends in `AssignBound` only (`RepeatedStays`). Until then every entry of
  the work list is held and listed once (`WorkHeld`), which is why giving back never
  counts too far down. `LocalInv` says that clients' leases are on the interface that
  offers their address. Those of the dummy client are not: a DECLINE may leave a
  counter too high, but never too low.
* `HintSearchEndsHolds` (`HintSearchEnds`), assuming `OneInterface`, `PoolsDisjoint` and
  the same of the width: a pool without a free address is counted to its last
  address (`PoolFull`), so `hasRoom` has refused. The run `spin` violates the same
  property with two interfaces; with overlapping pools an address in use is counted
  for the first of them only; after a repeated IAID the counter is too low.
* `CountersExactHolds` (`CountersExact`), assuming `OneInterface` and `PoolsUnreserved`
  (reservations outside the pools, and no pool larger than its counter counts). An
  unreserved address has one holder, so a class never has more leases than
  addresses (`CountedInPool`) and its counter never wraps, again until an IAID is
  repeated, and again from the next start on.

`Relay_proofs`: every network that meets `RelayAssumption`, circles and cascades
of any depth included.

* `ComesHomeHolds` (`ComesHome`), where no relay guesses: an answer is sent only
  where its next addressee is, and to a client only unwrapped and if it asked. The
  invariant is that a message carries its own way: `UpChain` says that each
  level's peer is attached to the port the level names, down to the client that
  asked, `DownChain` the same of the levels still to be unwrapped. `ForwardChain`,
  `ServeChain` and `BackChain` show that adding a level, turning around and
  removing a level keep it; `BackChain` includes the case where a wrong length
  moves an interface-id one level in.
* `HopsBoundedHolds` (`HopsBounded`): a message of n levels has hop count n - 1
  outermost, and a message at the limit is never wrapped again.
* `TypeCorrect` (`TypeOK`), for every network. `TypeInv` adds `UpChain`; an answer
  that took in an interface-id is still well formed (`InsideType`).
* `SubnetOfClientHolds` (`SubnetOfClient`), where no relay at a client's link omits its
  interface-id and the server does not guess. `UpChain` says which port the
  innermost level names, and the search ends with that level
  (`InnermostDecides`). The search is a recursive function over the levels:
  `SearchDefined` shows that there is one, by a least counterexample.
* `PassedOnHolds` (`PassedOn`, the safety part of `Answered`) in networks without
  relays behind relays that write interface-ids (`Flat`): no relay stops, each
  answer gets to whom it is sent to, is parsed and unwrapped there, and comes to
  the client that asked. The run `dropped` shows that it ends with the first
  relay behind another, where the length the server computes counts an
  interface-id twice (`NoneWithin` is what a single level is spared).

`SrvPrefixes_proofs`: all five properties of the run, for every configuration
(`PrefixAssumption`) and any number of crashes. `StepOutcome` says what a step can
do to the leases: grant some to one IA_PD, end some, start from the file, or
nothing. `NotTwice` and `ClientLimit` are inductive only together with the same of
the file (`NotTwiceIn`, `WithinLimit`), from which a restart takes its leases.
`CountersExact` (exact until a SOLICIT repeats an IAID) is inductive with the types and
with the fact that until then no prefix stands in two options of an answer (`Once`): `ModAdd` shows that counting modulo the
width of the counter forgets nothing but the width, `CountInParts` that the leases
of disjoint sets are counted apart.

`SrvTemporary_proofs` (`TemporaryAssumption`): any clients, IA_TAs, pools and limits.

* `TemporaryTypeCorrect` (`TypeOK`).
* `UsedIsLeasedHolds`, `NotSharedHolds` (`UsedIsLeased`, `NotShared`). `UseInv` adds
  that no two IA_TAs have one address in the database, expired or not.
* `TemporaryLimitHolds` (`ClientLimit`), with rapid commit and restarts. `LimitInv` adds
  that the leases are finitely many; `CountAdd` and `CountLess` say what a step does
  to their number, and below the limit the unsigned difference is the difference.

`ClntTrans_proofs`: any IAs, interfaces, servers and bounds.

* `ClientTypeCorrect` (`TypeOK`) with `TypeInv`; messages are looked at by kind.
* `AllReleasedHolds` (`AllReleased`) from `Known`: an IA the database calls not
  configured holds nothing, so whatever is held is in a state `shutdown` releases.
* `NoneForgottenHolds` (`NoneForgotten`) assuming `Undisturbed`: one IA per
  interface (two at most where duplicates are found), no valid lifetime 0, no tick
  between the two looks at expiry. The last section shows each of these fail
  otherwise. `AskInv` adds to the property what is held in the middle of a pass:
  after `removeExpired` and before `checkSolicit`.

`ClntTimers_proofs`:

* `TimesTypeCorrect` (`TypeOK`) and `OnTimeHolds` (`OnTime`), for any offers and for a
  late process too. `SleepInv` says that the sleep chosen is no longer than any
  timer, and that the two are counted down together.
* `TimedByLeaseHolds`, `KeptWhileValidHolds` (`TimedByLease`, `KeptWhileValid`)
  assuming `Apart` (an interface for each IA, a punctual process) and `Spaced`: in
  every offer T1, T2 and the end follow each other, T1 leaves a second for every
  IA but one, and T2 comes that and one more after T1. The run's offers meet
  both. `TimedInv` ties each message to its lease: a RENEW exists only before
  T2, a REBIND only in the lease's time, one of them for an IA in process at most.
  As one pass renews one interface, the first one past T1, an IA may have to
  wait, and a faster one before it may come round again. `Turn` bounds that: for
  some n less than what is left until T2, at most n IAs before it will be past
  T1 within n seconds, one fewer while the client sleeps; each second takes one from n
  and each pass one from the IAs, and one configured anew is too late to
  count. TLC has checked the invariant with two and three IAs at the tightest
  times `Spaced` allows.

Only model-checked: all liveness (`AlwaysReturns`, `ExpiredEnds`, `Answered`,
`Configures`, `Ages`, `Settles`, `LeftoversEnd`), which is beyond the prover (fairness
and ENABLED). Every
invariant and every safety property of a passing run is a theorem, under the
hypotheses named here. The configurations of the runs meet them, with one exception:
`LeasesFit` asks for a counter that could count every lease there can be in any
combination, and the runs have a small `ULong`, to see counters wrap; the leases they reach
are fewer.

## 10. Not modelled

Open, and worth a module: restart with a changed configuration, prefixes
on several interfaces, the client's IA_TA and IA_PD, and server and
client composed: each is checked against an environment that may send and answer
anything, which covers their safety, but not what the two promise each other over
a crash of the server.

Left out on purpose: encoding and decoding of packets, authentication digests,
sockets and operating-system calls, scripts, DNS updates, lease queries (which
read only), the requestor (one question, one answer); parsers, lexers and the
parser generator (`bison++`), which are generated or vendored and make up most of
the lines of the repository; `poslib` and `nettle`. 32-bit arithmetic of lifetimes:
with an infinite lifetime the MRD of a REBIND is -1 on a 32-bit build.
