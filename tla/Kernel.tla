------------------------------- MODULE Kernel -------------------------------
(***************************************************************************)
(* The harts from boot to the scheduler, the system clock and the traps    *)
(* that drive it: main() of kernel/boot/main.c as each lab has it,         *)
(* sys_timer of dev/timer.c, trap_kernel_handler of trap/trap_kernel.c,    *)
(* trap_user_handler and trap_user_return of trap/trap_user.c and          *)
(* sys_sleep of syscall/sysfunc.c.                                         *)
(*                                                                         *)
(* Hart 0 initialises the kernel and sets `started'; the other harts spin  *)
(* on it.  What a hart does then is the lab's: it spins (lab1), polls the  *)
(* clock (lab3), runs the first process (lab5), schedules processes (lab6) *)
(* or tests the file system (lab7, where the other harts return at once).  *)
(* Every hart takes timer interrupts once its interrupts are on,           *)
(* hart 0 alone counts them in sys_timer.ticks and wakes the processes     *)
(* asleep on the clock.  A process enters the kernel by an ecall and       *)
(* sleeps until the clock has advanced by its argument.                    *)
(*                                                                         *)
(* The scheduler, proc_yield, proc_sleep, proc_wakeup, proc_fork and the   *)
(* spinlock are not part of this repository's sources and are modelled     *)
(* from what their callers rely on: a spinlock is held by a hart, whose    *)
(* interrupts are off while it holds one; proc_sleep gives up the hart and *)
(* the spinlock in one step and takes the spinlock back when it returns.   *)
(* A hart in a trap handler has its interrupts off.  A process in the      *)
(* kernel that holds no spinlock has them on, which is the case            *)
(* trap_kernel_handler yields for.                                         *)
(***************************************************************************)
EXTENDS Integers, Sequences, FiniteSets, FiniteSetsExt

CONSTANTS
    Labs,       \* the kernels that are booted, each with its main()
    Harts,      \* hart ids; hart 0 boots the kernel
    Procs,      \* the process table
    proczero,   \* the process proc_make_first creates
    Causes,     \* values of scause a trap may carry: [intr, id]
    SleepTicks, \* arguments of sys_sleep
    UINT64,     \* 2^64, the width of sys_timer.ticks (scaled)
    PRINT_EVERY,\* the ticks between two lines of lab3's main(): 100
    None

ASSUME /\ Harts \subseteq Nat /\ 0 \in Harts /\ IsFiniteSet(Harts)
       /\ proczero \in Procs /\ IsFiniteSet(Procs)
       /\ Causes \subseteq [intr : BOOLEAN, id : 0 .. 15]
       /\ SleepTicks \subseteq 0 .. UINT64 - 1 /\ SleepTicks # {}
       /\ PRINT_EVERY \in 1 .. UINT64
       /\ None \notin Harts \cup Procs

VARIABLES
    lab,        \* the kernel that boots
    started,    \* main.c: the flag the other harts spin on
    bpc,        \* the step of main() each hart is at
    last_ticks, \* lab3, main(): the ticks of the last line printed
    ready,      \* what hart 0 has initialised for everyone
    stvec,      \* the trap vector of each hart, or None
    satp,       \* harts that have turned paging on
    sie,        \* harts that have run intr_on
    ticks,      \* sys_timer.ticks
    tlk,        \* the hart that holds sys_timer.lk, or None
    hnd,        \* harts inside timer_update, spinning for sys_timer.lk
    cur,        \* mycpu()->proc of each hart, or None
    pstate,     \* the state of each process
    ctx,        \* where each process is: pc, and for sys_sleep n, ticks0, chan
    taken0,     \* history: timer interrupts hart 0 has taken, modulo UINT64
    panic       \* the message of panic(), or None

vars == <<lab, started, bpc, last_ticks, ready, stvec, satp, sie, ticks, tlk,
          hnd, cur, pstate, ctx, taken0, panic>>

\* main() of each lab: the calls of hart 0 and of the other harts that this
\* module has state for, in order, and last what the hart does for ever.
\* pmem_init and mmap_init are the initial state of module Memory, fs_init
\* is module FsInit; the console, the disk and the PLIC are devices.
Lab1 == [first |-> <<"started", "while">>, other |-> <<"wait", "while">>]

Lab3 ==
    [first |-> <<"trap_kernel_init", "trap_kernel_inithart", "intr_on", "started",
                 "timer_get_ticks">>,
     other |-> <<"wait", "trap_kernel_inithart", "intr_on", "while">>]

Lab5 ==
    [first |-> <<"kvm_init", "trap_kernel_init", "trap_kernel_inithart",
                 "kvm_inithart", "intr_on", "started", "proc_make_fisrt", "swtch">>,
     other |-> <<"wait", "kvm_inithart", "trap_kernel_inithart", "intr_on", "while">>]

Lab6 ==
    [first |-> <<"kvm_init", "trap_kernel_init", "trap_kernel_inithart",
                 "kvm_inithart", "proc_init", "intr_on", "started",
                 "proc_make_first", "proc_scheduler">>,
     other |-> <<"wait", "kvm_inithart", "trap_kernel_inithart", "intr_on",
                 "proc_scheduler">>]

Lab7 ==
    [first |-> <<"kvm_init", "trap_kernel_init", "trap_kernel_inithart",
                 "kvm_inithart", "proc_init", "intr_on", "fs_init">>,
     other |-> <<"return">>]

\* int cpuid = r_tp(); if (cpuid == 0) ... else ...
Program(h) ==
    LET main == [lab1 |-> Lab1, lab3 |-> Lab3, lab5 |-> Lab5, lab6 |-> Lab6,
                 lab7 |-> Lab7][lab]
    IN  IF h = 0 THEN main.first ELSE main.other
At(h) == Program(h)[bpc[h]]
Booted(h) == bpc[h] = Len(Program(h))

\* sys_sleep and sys_fork are calls of the kernels with a scheduler; the
\* calls of lab5 are those of module Memory.
Sleeps == lab # "lab5"

\* Mutation of Passes: no hart waits.
PassesAtOnce(step) == TRUE

\* while (started == 0);
Passes(step) == step = "wait" => started = 1

\* Mutation of Counts: every hart updates the clock.
CountsAll(h) == TRUE

\* timer_interrupt_handler: if (mycpuid() == 0).
Counts(h) == h = 0

\* timer_create: the clock at boot, its spinlock free.
TimerCreate == [ticks |-> 0, lk |-> None]

\* sys_timer.ticks++ on a uint64.
Tick(t) == (t + 1) % UINT64

\* Mutation of Prints: every new value of the ticks is printed.
PrintsAll(t) == t # last_ticks

\* lab3, main(): the ticks are printed when they are a new multiple of 100.
Prints(t) == t # last_ticks /\ t % PRINT_EVERY = 0

\* The channel timer_update wakes.
TimerChan == "sys_timer.ticks"

\* Mutation of SleepChan: sys_sleep sleeps on the lock, not on the counter.
SleepChanLock == "sys_timer.lk"

\* The channel sys_sleep sleeps on.
SleepChan == "sys_timer.ticks"

\* Mutation of Waits: ticks < ticks0 + n, where the sum overflows.
WaitsSum(c) == ticks < (c.ticks0 + c.n) % UINT64

\* The condition of sys_sleep's loop, in unsigned arithmetic.
Waits(c) == (ticks - c.ticks0) % UINT64 < c.n

User == [pc |-> "user", n |-> 0, ticks0 |-> 0, chan |-> None, slept |-> 0]

\* The privilege mode a trap on hart h comes from.
Mode(h) == IF cur[h] # None /\ ctx[cur[h]].pc = "user" THEN "user" ELSE "kernel"

\* The vector a trap from mode m has to find in stvec.
Vector(m) == m \o "_vector"

\* trap_kernel_inithart, and w_stvec of trap_user_handler: traps of hart h
\* go to kernel_vector.
TrapKernelInithart(v, h) == [v EXCEPT ![h] = Vector("kernel")]

\* trap_user_handler: w_stvec(kernel_vector), for the traps of the handler.
Entered(h) == IF Mode(h) = "user" THEN TrapKernelInithart(stvec, h) ELSE stvec

\* trap_user_return of the process on hart h: stvec is user_vector when
\* the process is back in user mode.
TrapUserReturn(v, h) == [v EXCEPT ![h] = Vector("user")]

\* Process p executes on a hart that is not in a handler.
Running(p) == pstate[p] = "running" /\ \E h \in Harts : cur[h] = p /\ h \notin hnd

HartOf(p) == CHOOSE h \in Harts : cur[h] = p

\* proc_wakeup(chan), on the process states ps.
ProcWakeup(ps, chan) ==
    [p \in Procs |-> IF ps[p] = "sleeping" /\ ctx[p].chan = chan
                     THEN "runnable" ELSE ps[p]]

\* trap_kernel_handler after timer_interrupt_handler: a running process
\* yields.  trap_user_handler returns to the process.
Yields(h, ps) ==
    Mode(h) = "kernel" /\ cur[h] # None /\ ps[cur[h]] = "running"

AfterTimer(h, ps) ==
    /\ pstate' = IF Yields(h, ps) THEN [ps EXCEPT ![cur[h]] = "runnable"] ELSE ps
    /\ cur' = IF Yields(h, ps) THEN [cur EXCEPT ![h] = None] ELSE cur

-----------------------------------------------------------------------------
Init ==
    /\ lab \in Labs
    /\ started = 0
    /\ bpc = [h \in Harts |-> 1]
    /\ last_ticks = 0
    /\ ready = {}
    /\ stvec = [h \in Harts |-> None] /\ satp = {} /\ sie = {}
    /\ ticks = 0
    /\ tlk = None
    /\ hnd = {}
    /\ cur = [h \in Harts |-> None]
    /\ pstate = [p \in Procs |-> "unused"]
    /\ ctx = [p \in Procs |-> User]
    /\ taken0 = 0
    /\ panic = None

\* One call of main() on hart h.  proc_make_first of lab6 leaves proczero
\* to the scheduler; proc_make_fisrt of lab5 switches to it, and it leaves
\* the kernel through trap_user_return.
BootStep(h) ==
    LET step == At(h) IN
    /\ panic = None /\ ~Booted(h) /\ h \notin hnd
    /\ Passes(step)
    /\ bpc' = [bpc EXCEPT ![h] = @ + 1]
    /\ ready' = CASE step = "kvm_init" -> ready \cup {"kvm"}
                  [] step = "trap_kernel_init" -> ready \cup {"timer"}
                  [] step = "proc_init" -> ready \cup {"proc"}
                  [] OTHER -> ready
    /\ ticks' = IF step = "trap_kernel_init" THEN TimerCreate.ticks ELSE ticks
    /\ tlk' = IF step = "trap_kernel_init" THEN TimerCreate.lk ELSE tlk
    /\ stvec' = CASE step = "trap_kernel_inithart" -> TrapKernelInithart(stvec, h)
                  [] step = "proc_make_fisrt" -> TrapUserReturn(stvec, h)
                  [] OTHER -> stvec
    /\ satp' = IF step = "kvm_inithart" THEN satp \cup {h} ELSE satp
    /\ sie' = IF step = "intr_on" THEN sie \cup {h} ELSE sie
    /\ started' = IF step = "started" THEN 1 ELSE started
    /\ pstate' = CASE step = "proc_make_first" -> [pstate EXCEPT ![proczero] = "runnable"]
                   [] step = "proc_make_fisrt" -> [pstate EXCEPT ![proczero] = "running"]
                   [] OTHER -> pstate
    /\ cur' = IF step = "proc_make_fisrt" THEN [cur EXCEPT ![h] = proczero] ELSE cur
    /\ UNCHANGED <<lab, last_ticks, hnd, ctx, taken0, panic>>

\* while (1); at the end of main().
Idle(h) == At(h) = "while" /\ UNCHANGED vars

\* The loop of lab3's main(): spinlock_acquire of timer_get_ticks.
GetTicksAcquire(h) ==
    /\ panic = None /\ At(h) = "timer_get_ticks" /\ h \notin hnd
    /\ tlk = None
    /\ tlk' = h
    /\ UNCHANGED <<lab, started, bpc, last_ticks, ready, stvec, satp, sie, ticks,
                   hnd, cur, pstate, ctx, taken0, panic>>

\* timer_get_ticks returns the ticks it read under the lock, and main()
\* may print them.
GetTicksRelease(h) ==
    /\ panic = None /\ At(h) = "timer_get_ticks" /\ tlk = h
    /\ tlk' = None
    /\ last_ticks' = IF Prints(ticks) THEN ticks ELSE last_ticks
    /\ UNCHANGED <<lab, started, bpc, ready, stvec, satp, sie, ticks, hnd, cur,
                   pstate, ctx, taken0, panic>>

\* What the handlers do with a trap of cause c from mode m.
Kind(m, c) ==
    CASE c.intr /\ c.id \in {1, 5} -> "timer"
      [] c.intr /\ c.id = 9 -> "external"
      [] c.intr /\ c.id \notin {1, 5, 9} -> "trap_" \o m \o "_handler: unexpected interrupt"
      [] ~c.intr /\ m = "user" /\ c.id = 8 -> "syscall"
      [] OTHER -> "trap_" \o m \o "_handler: unexpected exception"

\* external_interrupt_handler: the interrupt is claimed from the PLIC, given
\* to the driver of its device and completed; the devices are not modelled.
\* A system call of lab5 changes as little here: it is a call of Memory.
ExternalInterrupt == UNCHANGED <<hnd, taken0, pstate, cur, ctx, panic>>

\* timer_interrupt_handler on hart h, up to the spinlock of timer_update.
TimerInterrupt(h) ==
    /\ IF Counts(h)
       THEN /\ hnd' = hnd \cup {h}
            /\ taken0' = IF h = 0 THEN (taken0 + 1) % UINT64 ELSE taken0
            /\ UNCHANGED <<pstate, cur>>
       ELSE /\ AfterTimer(h, pstate)
            /\ UNCHANGED <<hnd, taken0>>
    /\ UNCHANGED <<ctx, panic>>

\* The system call of trap_user_handler's case 8 in the kernels with a
\* scheduler, whose dispatch is not among the sources: sys_sleep(n).
Syscall(h, n) ==
    /\ ctx' = [ctx EXCEPT ![cur[h]] = [User EXCEPT !.pc = "acquire", !.n = n]]
    /\ UNCHANGED <<hnd, taken0, pstate, cur, panic>>

\* trap_kernel_handler and trap_user_handler: hart h takes a trap of cause
\* c.  An interrupt needs the hart's interrupts on; an exception comes from
\* the instruction of a process, the ecall (8) from one in user mode.
Trap(h, c) ==
    LET kind == Kind(Mode(h), c)
        returns == \/ kind = "timer" /\ ~Counts(h)
                   \/ kind = "external"
                   \/ kind = "syscall" /\ ~Sleeps
    IN
    /\ panic = None /\ h \notin hnd
    /\ IF c.intr THEN h \in sie /\ tlk # h
                 ELSE cur[h] # None /\ tlk # h /\ (c.id = 8 => Mode(h) = "user")
    /\ CASE kind = "timer" -> TimerInterrupt(h)
         [] kind \in {"external", "syscall"} /\ returns -> ExternalInterrupt
         [] kind = "syscall" /\ Sleeps -> \E n \in SleepTicks : Syscall(h, n)
         [] OTHER -> panic' = kind /\ UNCHANGED <<hnd, taken0, pstate, cur, ctx>>
    /\ stvec' = IF returns /\ Mode(h) = "user"
                 THEN TrapUserReturn(Entered(h), h) ELSE Entered(h)
    /\ UNCHANGED <<lab, started, bpc, last_ticks, ready, satp, sie, ticks, tlk>>

\* timer_update, once sys_timer.lk is free: the tick and the wakeup under
\* the lock, then the rest of the trap handler.
TimerUpdate(h) ==
    /\ panic = None /\ h \in hnd /\ tlk = None
    /\ ticks' = Tick(ticks)
    /\ hnd' = hnd \ {h}
    /\ AfterTimer(h, ProcWakeup(pstate, TimerChan))
    /\ stvec' = IF Mode(h) = "user" THEN TrapUserReturn(stvec, h) ELSE stvec
    /\ ctx' = [p \in Procs |->
                 IF ctx[p].pc = "user" THEN ctx[p]
                 ELSE [ctx[p] EXCEPT !.slept = Min({@ + 1, Max(SleepTicks)})]]
    /\ UNCHANGED <<lab, started, bpc, last_ticks, ready, satp, sie, tlk, taken0,
                   panic>>

\* sys_sleep: spinlock_acquire and the read of ticks0, or the spinlock
\* taken back at the end of proc_sleep.
SleepAcquire(p) ==
    /\ panic = None /\ Running(p) /\ tlk = None
    /\ ctx[p].pc \in {"acquire", "reacquire"}
    /\ tlk' = HartOf(p)
    /\ ctx' = [ctx EXCEPT ![p].pc = "check",
                          ![p].ticks0 = IF ctx[p].pc = "acquire" THEN ticks ELSE @]
    /\ UNCHANGED <<lab, started, bpc, last_ticks, ready, stvec, satp, sie, ticks,
                   hnd, cur, pstate, taken0, panic>>

\* sys_sleep: the test of the loop, then proc_sleep or the return.
SleepCheck(p) ==
    /\ panic = None /\ Running(p) /\ ctx[p].pc = "check"
    /\ tlk' = None
    /\ IF Waits(ctx[p])
       THEN /\ pstate' = [pstate EXCEPT ![p] = "sleeping"]
            /\ cur' = [cur EXCEPT ![HartOf(p)] = None]
            /\ ctx' = [ctx EXCEPT ![p].pc = "reacquire", ![p].chan = SleepChan]
       ELSE /\ ctx' = [ctx EXCEPT ![p] = User]
            /\ UNCHANGED <<pstate, cur>>
    /\ stvec' = IF Waits(ctx[p]) THEN stvec ELSE TrapUserReturn(stvec, HartOf(p))
    /\ UNCHANGED <<lab, started, bpc, last_ticks, ready, satp, sie, ticks, hnd,
                   taken0, panic>>

\* proc_scheduler: an idle hart takes a runnable process, which goes on
\* in the kernel, or leaves it through trap_user_return when it is new.
Schedule(h, p) ==
    /\ panic = None /\ At(h) = "proc_scheduler" /\ h \notin hnd
    /\ cur[h] = None /\ pstate[p] = "runnable"
    /\ pstate' = [pstate EXCEPT ![p] = "running"]
    /\ cur' = [cur EXCEPT ![h] = p]
    /\ stvec' = IF ctx[p].pc = "user" THEN TrapUserReturn(stvec, h) ELSE stvec
    /\ UNCHANGED <<lab, started, bpc, last_ticks, ready, satp, sie, ticks, tlk,
                   hnd, ctx, taken0, panic>>

\* proc_fork: a process in user mode makes q runnable.
Fork(p, q) ==
    /\ panic = None /\ Sleeps /\ Running(p) /\ ctx[p].pc = "user"
    /\ pstate[q] = "unused"
    /\ pstate' = [pstate EXCEPT ![q] = "runnable"]
    /\ UNCHANGED <<lab, started, bpc, last_ticks, ready, stvec, satp, sie, ticks,
                   tlk, hnd, cur, ctx, taken0, panic>>

\* panic() never returns.
Halted == panic # None /\ UNCHANGED vars

Next ==
    \/ \E h \in Harts : BootStep(h) \/ Idle(h) \/ TimerUpdate(h)
    \/ \E h \in Harts : GetTicksAcquire(h) \/ GetTicksRelease(h)
    \/ \E h \in Harts, c \in Causes : Trap(h, c)
    \/ \E p \in Procs : SleepAcquire(p) \/ SleepCheck(p)
    \/ \E h \in Harts, p \in Procs : Schedule(h, p)
    \/ \E p, q \in Procs : Fork(p, q)
    \/ Halted

\* The clock interrupt of hart 0 stays pending until the hart takes it, and
\* a hart that spins for sys_timer.lk gets it once it is free often enough;
\* the holder of the lock runs to its release.
Timer0 == \E c \in Causes : Kind(Mode(0), c) = "timer" /\ Trap(0, c)

Fairness ==
    /\ SF_vars(Timer0)
    /\ SF_vars(TimerUpdate(0))
    /\ WF_vars(\E p \in Procs : SleepCheck(p))

Spec == Init /\ [][Next]_vars /\ Fairness

-----------------------------------------------------------------------------
Ctx == [pc : {"user", "acquire", "reacquire", "check"}, n : SleepTicks \cup {0},
        ticks0 : 0 .. UINT64 - 1, chan : {None, SleepChan, SleepChanLock},
        slept : 0 .. Max(SleepTicks)]

\* The variables have their types; a hart runs at most one process, which
\* is then running, and the holder of sys_timer.lk is at the test of
\* sys_sleep.
TypeOK ==
    /\ lab \in Labs /\ started \in {0, 1}
    /\ \A h \in Harts : bpc[h] \in DOMAIN Program(h)
    /\ last_ticks \in {t \in 0 .. UINT64 - 1 : t % PRINT_EVERY = 0}
    /\ ready \subseteq {"kvm", "timer", "proc"}
    /\ stvec \in [Harts -> {None, Vector("kernel"), Vector("user")}]
    /\ satp \subseteq Harts /\ sie \subseteq Harts
    /\ ticks \in 0 .. UINT64 - 1 /\ taken0 \in 0 .. UINT64 - 1
    /\ tlk \in Harts \cup {None}
    /\ hnd \subseteq Harts
    /\ cur \in [Harts -> Procs \cup {None}]
    /\ pstate \in [Procs -> {"unused", "runnable", "running", "sleeping"}]
    /\ ctx \in [Procs -> Ctx]
    /\ \A p \in Procs :
          pstate[p] = "running" <=> Cardinality({h \in Harts : cur[h] = p}) = 1
    /\ \A p \in Procs : ctx[p].pc = "check" <=> \E h \in Harts : tlk = h /\ cur[h] = p
    /\ tlk # None => cur[tlk] # None \/ At(tlk) = "timer_get_ticks"

\* main() of every lab and the trap handlers: no hart turns paging on
\* before kvm_init has built the kernel page table, or enters the
\* scheduler before proc_init, which is what the spin on `started' is for;
\* and a hart whose interrupts are on has timer_create behind it and in
\* stvec the vector of the mode it is in, kernel_vector from
\* trap_kernel_inithart or trap_user_handler, user_vector from
\* trap_user_return, on whichever hart a process was put.
BootBarrier ==
    \A h \in Harts :
        /\ h \in satp => "kvm" \in ready
        /\ h \in sie => "timer" \in ready
        /\ h \in sie \ hnd /\ panic = None => stvec[h] = Vector(Mode(h))
        /\ At(h) = "proc_scheduler" => "proc" \in ready

\* timer_interrupt_handler: sys_timer.ticks counts the timer interrupts of
\* hart 0, each once, whatever the other harts take; the one hart 0 is
\* handling is counted when timer_update has the lock.
TicksCountHartZero ==
    /\ hnd \subseteq {0}
    /\ ticks = (taken0 - Cardinality(hnd)) % UINT64

\* sys_sleep(n) returns only when the clock has ticked n times since the
\* call, also when sys_timer.ticks wraps around in between.
SleepLastsNTicks ==
    [][\A p \in Procs :
          ctx[p].pc = "check" /\ ctx'[p].pc = "user" => ctx[p].slept >= ctx[p].n]_vars

\* timer_update and sys_sleep: a process asleep in sys_sleep is made
\* runnable by the next tick (or the kernel has panicked).
TickWakesSleeper ==
    \A p \in Procs :
        pstate[p] = "sleeping" ~> (pstate[p] # "sleeping" \/ panic # None)
=============================================================================
