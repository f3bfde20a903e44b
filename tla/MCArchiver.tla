---------------------------- MODULE MCArchiver ----------------------------
(***************************************************************************)
(* TLC instance of Archiver.  Partitions are interchangeable: no action    *)
(* and no property names a particular one.                                 *)
(***************************************************************************)
EXTENDS Archiver, TLC

PartitionSymmetry == Permutations(Partitions)
=============================================================================
