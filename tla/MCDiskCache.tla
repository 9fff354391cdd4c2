---------------------------- MODULE MCDiskCache ----------------------------
(***************************************************************************)
(* Instances of DiskCache for TLC.  Writers are interchangeable unless one *)
(* of them may be dropped.                                                 *)
(***************************************************************************)
EXTENDS DiskCache, TLC

WriterSymmetry == Permutations(Writers)
=============================================================================
