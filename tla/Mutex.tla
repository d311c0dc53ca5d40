------------------------------- MODULE Mutex -------------------------------
(***************************************************************************)
(* What every per-resource lock of the storage engine promises its         *)
(* callers (spec.md, section 5): a lock has at most one holder, it is      *)
(* taken only when free and it is given up only by the caller that holds   *)
(* it.  Taking and giving up are single steps here; module SleepLock, in   *)
(* which they are several steps under a spinlock, is shown to implement    *)
(* this module under a refinement mapping.                                 *)
(***************************************************************************)
CONSTANTS
    Locks,      \* the resources that carry a lock
    Callers,    \* the execution contexts that take them
    None        \* "nobody holds it"

ASSUME None \notin Callers

VARIABLE holder     \* holder[l]: the caller that holds lock l, or None

TypeOK == holder \in [Locks -> Callers \cup {None}]

Init == holder = [l \in Locks |-> None]

Acquire(c, l) ==
    /\ holder[l] = None
    /\ holder' = [holder EXCEPT ![l] = c]

Release(c, l) ==
    /\ holder[l] = c
    /\ holder' = [holder EXCEPT ![l] = None]

Next == \E c \in Callers, l \in Locks : Acquire(c, l) \/ Release(c, l)

Spec == Init /\ [][Next]_holder
=============================================================================
