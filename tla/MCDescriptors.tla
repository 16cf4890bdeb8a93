---------------------------- MODULE MCDescriptors ----------------------------
(***************************************************************************)
(* Small instances of Descriptors for TLC.                                 *)
(***************************************************************************)
EXTENDS Descriptors, TLC

\* The numbers are ordered; objects of the same habits are interchangeable.
PoolSymmetry == Permutations(Careful) \cup Permutations(Objects \ Careful)
=============================================================================
