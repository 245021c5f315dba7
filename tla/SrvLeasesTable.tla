--------------------------- MODULE SrvLeasesTable ---------------------------
(***************************************************************************)
(* The lease core implements LeaseTable on the addresses nobody has         *)
(* reserved.  The holder of an address is the IA it is in; the dummy        *)
(* client's IA is the quarantine.  What is saved is what server-AddrMgr.xml *)
(* holds.                                                                  *)
(***************************************************************************)
EXTENDS SrvLeases

TableAddrs == Addrs \ Reserved

\* "No address" is no IA of a client.
ASSUME TableAssumption == NoAddr \notin AllClients \X IAIDs

\* The table a set of leases stands for
holders(L) ==
  [a \in TableAddrs |->
     IF \A l \in L : l.addr # a
     THEN NoAddr
     ELSE LET l == CHOOSE x \in L : x.addr = a IN <<l.clnt, l.iaid>>]

Table == INSTANCE LeaseTable WITH
  Address    <- TableAddrs,
  Holder     <- AllClients \X IAIDs,
  Quarantine <- <<Declined, 0>>,
  Free       <- NoAddr,
  owner      <- holders(leases),
  saved      <- holders(disk.leases)

\* Every step of the server is a step of the table, or leaves it alone: no
\* handler moves an address from one client straight to another, adds a lease
\* by a dump, or brings back after a restart a lease that neither the files
\* nor the database held.
TableSpec == Table!TableSpec
=============================================================================
