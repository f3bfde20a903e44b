---------------------------- MODULE MCProjection ----------------------------
(***************************************************************************)
(* TLC instances of Projection: the order of a key's partition.            *)
(***************************************************************************)
EXTENDS Projection

CONSTANT HomePartition   \* where the records of every order go first

MCPartitionOf == [o \in Orders |-> HomePartition]
=============================================================================
