---------------------------- MODULE MCQuerySide ----------------------------
(***************************************************************************)
(* TLC instances of QuerySide.                                             *)
(***************************************************************************)
EXTENDS QuerySide

CONSTANT HomePartition   \* where the records of every order go first

MCPartitionOf == [o \in Orders |-> HomePartition]
=============================================================================
