----------------------------- MODULE InodeLife -----------------------------
(***************************************************************************)
(* What the inode cache promises to the callers of inode_create,           *)
(* inode_alloc, inode_dup and inode_free, told by inode numbers: an inode  *)
(* is reserved, comes to exist with one link, is pointed at by callers,    *)
(* gains and loses links, and ends with the last pointer to it if it has   *)
(* no link then, in one step.  Slots, the valid flag, the copies in        *)
(* memory and the two locks do not show.  Module Path, which counts the    *)
(* pointers by inode number and takes inode_free as one step, relies on    *)
(* this.                                                                   *)
(***************************************************************************)
EXTENDS Integers

CONSTANTS
    Inums,          \* the inode numbers
    Root            \* the inode that exists from the start

VARIABLES
    used,           \* the inode numbers that are taken
    exists,         \* the inodes that exist
    nlink,          \* the links of every inode
    held            \* how many pointers the callers hold to every inode

vars == <<used, exists, nlink, held>>

Init ==
    /\ used = {Root}
    /\ exists = {Root}
    /\ nlink = [n \in Inums |-> IF n = Root THEN 1 ELSE 0]
    /\ held = [n \in Inums |-> 0]

\* A free number is reserved for an inode to come.
Reserve(n) ==
    /\ n \notin used
    /\ used' = used \cup {n}
    /\ UNCHANGED <<exists, nlink, held>>

\* One more pointer to an inode that exists, or the first to a reserved one.
Take(n) ==
    /\ n \in exists \/ (n \in used /\ held[n] = 0)
    /\ held' = [held EXCEPT ![n] = @ + 1]
    /\ UNCHANGED <<used, exists, nlink>>

\* The caller with the only pointer to a reserved inode makes it exist.
Fill(n) ==
    /\ n \in used \ exists
    /\ held[n] = 1
    /\ exists' = exists \cup {n}
    /\ nlink' = [nlink EXCEPT ![n] = 1]
    /\ UNCHANGED <<used, held>>

\* A caller with a pointer to the inode adds or takes away a link.
SetLinks(n, d) ==
    /\ n \in exists
    /\ held[n] > 0
    /\ nlink[n] + d >= 0
    /\ nlink' = [nlink EXCEPT ![n] = @ + d]
    /\ UNCHANGED <<used, exists, held>>

\* A pointer is given back; the last pointer to an inode without links
\* takes the inode and its number with it, and no other does.
Drop(n) ==
    /\ n \in exists
    /\ held[n] > 0
    /\ held' = [held EXCEPT ![n] = @ - 1]
    /\ IF held[n] = 1 /\ nlink[n] = 0
         THEN exists' = exists \ {n} /\ used' = used \ {n}
         ELSE UNCHANGED <<used, exists>>
    /\ UNCHANGED nlink

Next ==
    \E n \in Inums :
        \/ Reserve(n) \/ Take(n) \/ Fill(n) \/ Drop(n)
        \/ \E d \in {-1, 1} : SetLinks(n, d)

Spec == Init /\ [][Next]_vars
=============================================================================
