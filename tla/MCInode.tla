------------------------------ MODULE MCInode ------------------------------
(***************************************************************************)
(* Inode for TLC: two slots for three inode numbers, so that inode_alloc   *)
(* recycles a slot and runs out of slots, and the bitmap out of bits; two  *)
(* callers with two pointers each, so that a caller holds the two slots    *)
(* or two pointers to one.                                                 *)
(***************************************************************************)
EXTENDS Inode, TLC

CONSTANTS p1, p2

MCProcs == {p1, p2}

Symmetry == Permutations(MCProcs)
=============================================================================
