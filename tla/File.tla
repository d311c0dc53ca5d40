-------------------------------- MODULE File --------------------------------
(***************************************************************************)
(* What the data of an inode promises to the callers of inode_read_data,   *)
(* inode_write_data and inode_free_data: a file is a sequence of words.  A *)
(* write changes, or adds at the end, the words it was asked to write and  *)
(* no other word of any file; freeing the data leaves the file empty.      *)
(* Blocks, tiers and the bitmap do not show.                               *)
(***************************************************************************)
EXTENDS Naturals, Sequences

CONSTANTS
    Files,          \* the inodes
    Values,         \* the words a caller can write
    MaxWrite        \* the most words one step of a write moves

VARIABLE content    \* the words of every file

Init == content = [f \in Files |-> <<>>]

\* n words of file f from offset off on are written; the offset is in the
\* file or at its end, so a file has no hole.
Write(f, off, n) ==
    /\ off <= Len(content[f])
    /\ DOMAIN content' = Files
    /\ Len(content'[f]) = IF off + n > Len(content[f]) THEN off + n ELSE Len(content[f])
    /\ \A i \in 1 .. Len(content'[f]) :
          IF i \in off + 1 .. off + n THEN content'[f][i] \in Values
          ELSE content'[f][i] = content[f][i]
    /\ \A g \in Files \ {f} : content'[g] = content[g]

\* The data of file f is freed.
Truncate(f) == content' = [content EXCEPT ![f] = <<>>]

Next ==
    \E f \in Files :
        \/ Truncate(f)
        \/ \E off \in 0 .. Len(content[f]), n \in 1 .. MaxWrite : Write(f, off, n)

Spec == Init /\ [][Next]_content
=============================================================================
