----------------------------- MODULE SleepLock -----------------------------
(***************************************************************************)
(* The sleeplock of kernel/lib/sleeplock.c: a lock that may be held across *)
(* a blocking wait.  Its three fields (locked, pid and the spinlock lk     *)
(* that guards them) and the callers' positions in sleeplock_acquire and   *)
(* sleeplock_release are the state.  A caller is a process, known by its   *)
(* pid, or a boot context that runs before any process exists              *)
(* (myproc() == NULL), which busy-waits instead of sleeping.               *)
(*                                                                         *)
(* proc_sleep and proc_wakeup are not part of this repository's sources;   *)
(* they are modelled from spec.md, section 6: sleep(chan, lock) gives up   *)
(* the spinlock and suspends the caller in one step, wakeup(chan) makes    *)
(* every caller suspended on chan runnable.                                *)
(***************************************************************************)
EXTENDS Integers, FiniteSets

CONSTANTS
    Procs,      \* pids of the processes; proczero has pid 0
    Boot,       \* boot contexts (myproc() == NULL)
    None        \* no caller

ASSUME /\ Procs \subseteq Nat
       /\ IsFiniteSet(Procs) /\ IsFiniteSet(Boot)
       /\ None \notin Procs \cup Boot

Callers == Procs \cup Boot

VARIABLES
    locked,     \* lk->locked
    pid,        \* lk->pid
    spin,       \* the caller inside a critical section of lk->lk, or None
    pc          \* where each caller is

vars == <<locked, pid, spin, pc>>

\* Mutation of PidOf: myproc()->pid without the test for myproc() == NULL.
PidOfUnchecked(c) == c

\* The value sleeplock_acquire stores in lk->pid for caller c.
PidOf(c) == IF c \in Boot THEN -1 ELSE c

\* sleeplock_holding(lk), evaluated by caller c under lk->lk.
Holding(c) == locked /\ pid = PidOf(c)

Goto(c, from, to) ==
    /\ pc[c] = from
    /\ pc' = [pc EXCEPT ![c] = to]

\* proc_wakeup(lk): every caller asleep on the lock runs sleeplock_acquire's
\* loop again, which starts by taking lk->lk back.
Wakeup(c) ==
    [d \in Callers |-> CASE d = c                -> "idle"
                         [] pc[d] = "sleeping"   -> "want"
                         [] OTHER                -> pc[d]]

-----------------------------------------------------------------------------
Init ==
    /\ locked = FALSE
    /\ pid = 0
    /\ spin = None
    /\ pc = [c \in Callers |-> "idle"]

\* A caller calls sleeplock_acquire.
Call(c) ==
    /\ Goto(c, "idle", "want")
    /\ UNCHANGED <<locked, pid, spin>>

\* Mutation of TakeSpin: the loop runs without lk->lk.
TakeSpinSkipped(c) ==
    /\ Goto(c, "want", "test")
    /\ UNCHANGED <<locked, pid, spin>>

\* spinlock_acquire(&lk->lk): on entry, after a wakeup and after a busy-wait
\* round.
TakeSpin(c) ==
    /\ spin = None
    /\ spin' = c
    /\ Goto(c, "want", "test")
    /\ UNCHANGED <<locked, pid>>

\* Mutation of Test: the loop's condition dropped.
TestIgnored(c) ==
    /\ Goto(c, "test", "sawFree")
    /\ UNCHANGED <<locked, pid, spin>>

\* while (lk->locked): the caller reads the flag.
Test(c) ==
    /\ Goto(c, "test", IF locked THEN "sawLocked" ELSE "sawFree")
    /\ UNCHANGED <<locked, pid, spin>>

\* The flag was set and the caller is a process: proc_sleep(lk, &lk->lk)
\* gives up lk->lk and suspends the caller in one step.
Sleep(c) ==
    /\ c \in Procs
    /\ spin' = None
    /\ Goto(c, "sawLocked", "sleeping")
    /\ UNCHANGED <<locked, pid>>

\* The flag was set and there is no process: lk->lk is given up and taken
\* again.
BusyWait(c) ==
    /\ c \in Boot
    /\ spin' = None
    /\ Goto(c, "sawLocked", "want")
    /\ UNCHANGED <<locked, pid>>

\* Mutation of Take: lk->pid left as it was.
TakeKeepsPid(c) ==
    /\ locked' = TRUE
    /\ spin' = None
    /\ Goto(c, "sawFree", "held")
    /\ UNCHANGED pid

\* The flag was clear: the caller sets it, signs the lock and leaves.
Take(c) ==
    /\ locked' = TRUE
    /\ pid' = PidOf(c)
    /\ spin' = None
    /\ Goto(c, "sawFree", "held")

\* sleeplock_release, first half: spinlock_acquire(&lk->lk).
ReleaseSpin(c) ==
    /\ spin = None
    /\ spin' = c
    /\ Goto(c, "held", "releasing")
    /\ UNCHANGED <<locked, pid>>

\* Mutation of Unlock: proc_wakeup forgotten.
UnlockWithoutWakeup(c) ==
    /\ locked' = FALSE
    /\ pid' = 0
    /\ spin' = None
    /\ Goto(c, "releasing", "idle")

\* sleeplock_release, second half: clear the fields, wake the sleepers.
Unlock(c) ==
    /\ pc[c] = "releasing"
    /\ locked' = FALSE
    /\ pid' = 0
    /\ pc' = Wakeup(c)
    /\ spin' = None

\* The steps inside the two functions that wait for nothing.
Step(c) == Test(c) \/ Sleep(c) \/ BusyWait(c) \/ Take(c) \/ Unlock(c)

\* The two spinlock_acquire(&lk->lk).
Spinning(c) == TakeSpin(c) \/ ReleaseSpin(c)

Next == \E c \in Callers : Call(c) \/ Spinning(c) \/ Step(c)

\* The timer interrupt yields the CPU (trap_kernel_handler), so a caller that
\* can run is run: weak fairness of its steps.  A caller in spinlock_acquire
\* retries its atomic swap without pause, so it gets lk->lk if lk->lk is free
\* again and again: strong fairness of the two acquisitions.  Without it the
\* busy-wait of a boot context, which frees lk->lk only to take it back, could
\* keep the holder out of sleeplock_release for ever.  Nothing obliges an idle
\* caller to ask for the lock.
Fairness ==
    \A c \in Callers : WF_vars(Step(c)) /\ SF_vars(Spinning(c))

Spec == Init /\ [][Next]_vars /\ Fairness

-----------------------------------------------------------------------------
TypeOK ==
    /\ locked \in BOOLEAN
    /\ pid \in Procs \cup {0, -1}
    /\ spin \in Callers \cup {None}
    /\ pc \in [Callers -> {"idle", "want", "test", "sawLocked", "sawFree",
                        "sleeping", "held", "releasing"}]

\* The caller that lk->pid names.
Owner == IF pid = -1 THEN CHOOSE b \in Boot : TRUE ELSE pid

Abstract == INSTANCE Mutex WITH
    Locks <- {"slk"},
    holder <- [l \in {"slk"} |-> IF locked THEN Owner ELSE None]

\* sleeplock_acquire and sleeplock_release implement a lock: the caller that
\* left sleeplock_acquire is the only holder, lk->pid names it (so that
\* sleeplock_holding is true of it and of nobody else), and the lock is freed
\* by that caller alone.
MutexSpec == Abstract!Spec

\* The holder is the caller the program counter says, seen from
\* sleeplock_holding: the assertions of buf.c, inode.c and dir.c pass for the
\* caller that took the lock and fail for every other one.
HoldingExact ==
    \A c \in Callers : Holding(c) <=> pc[c] \in {"held", "releasing"}

\* No lost wakeup: the test of lk->locked and proc_sleep are made under
\* lk->lk, so sleeplock_release cannot clear the flag and call proc_wakeup
\* between them, and a caller is never asleep on a free lock.
NoLostWakeup ==
    \A c \in Callers : pc[c] = "sleeping" => locked

\* A caller asleep in sleeplock_acquire is woken: the holder runs on to
\* sleeplock_release, whose proc_wakeup reaches every sleeper.
SleeperWoken ==
    \A c \in Callers : (pc[c] = "sleeping") ~> (pc[c] # "sleeping")
=============================================================================
