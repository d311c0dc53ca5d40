----------------------------- MODULE MCBufCache -----------------------------
(***************************************************************************)
(* BufCache for TLC: two buffers for three blocks and two callers that     *)
(* hold up to two buffers each, so that the cache hits, misses, recycles   *)
(* a buffer that was used before, and runs out (four references wanted,    *)
(* two buffers).  One modification per content is enough for a written     *)
(* block to differ from the one first read.                                *)
(***************************************************************************)
EXTENDS BufCache

CONSTANTS p1, p2

MCProcs == {p1, p2}
MCBlocks == 1 .. 3
\* 0xFFFFFFFF, as the 32-bit integer TLC can hold: no block has this number.
MCUnused == -1

\* The callers are interchangeable.
Symmetry == Permutations(MCProcs)
=============================================================================
