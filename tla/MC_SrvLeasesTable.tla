------------------------- MODULE MC_SrvLeasesTable -------------------------
(* The configurations of MC_SrvLeases for the refinement of LeaseTable.      *)
EXTENDS MC_SrvLeases, SrvLeasesTable
=============================================================================
