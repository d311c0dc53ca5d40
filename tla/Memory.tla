------------------------------- MODULE Memory -------------------------------
(***************************************************************************)
(* The user address space: kernel/mem/uvm.c and the system calls sys_brk,  *)
(* sys_mmap and sys_munmap of kernel/syscall/sysfunc.c, over the page      *)
(* allocator of module Pmem.                                               *)
(*                                                                         *)
(* Addresses are bytes.  A page table is a function from the page          *)
(* addresses below TRAPFRAME to the physical page mapped there, 0 for an   *)
(* entry that is not valid; the pages of the lower levels of the table     *)
(* are not counted.  The list of free regions of the mmap area is a        *)
(* sequence of [begin, npages], nodes counts the mmap_region_t in use.     *)
(* The processes share the page allocator and the pool of list nodes and   *)
(* nothing else; a loop that allocates a page in each round is one step    *)
(* for each round, because another process allocates in between.           *)
(*                                                                         *)
(* vm_mappages, vm_unmappages, mmap_region_alloc, proc_fork and proc_exit  *)
(* are not in the sources: they are modelled by what their callers need    *)
(* from them, a panic for a page mapped twice, for a page not mapped and   *)
(* for an empty pool.  An assert is taken to hold.                         *)
(***************************************************************************)
EXTENDS Pmem

CONSTANTS
    Procs,          \* the process slots
    proczero,       \* the first process
    TRAPFRAME,      \* the address of the trapframe page, above the stack
    MMAP_BEGIN,     \* the mmap area
    MMAP_END,
    N_MMAP,         \* the mmap_region_t nodes of the pool
    Calls,          \* the system calls the processes make
    CopyFrom,       \* the user addresses the copies are checked from
    CopyLens,       \* and their lengths
    SIZEOF_INT,     \* the bytes of an int
    COPYINSTR_MAX,  \* the bytes of the buffer of sys_copyinstr
    PRINT_MAX,      \* and of sys_print
    UINT32,         \* the values of a uint32: 2^32 in the kernel
    None

ASSUME /\ proczero \in Procs
       /\ MMAP_BEGIN % PGSIZE = 0 /\ MMAP_END % PGSIZE = 0 /\ TRAPFRAME % PGSIZE = 0
       /\ 2 * PGSIZE <= MMAP_BEGIN /\ MMAP_BEGIN <= MMAP_END
       /\ MMAP_END <= TRAPFRAME - PGSIZE

VARIABLES
    free,       \* free[r]: the list of free pages of region r, head first
    allocable,  \* allocable[r]: the count kept with it
    pstate,     \* pstate[p]: "unused", "embryo" (being forked) or "run"
    tf,         \* tf[p]: the trapframe page of p
    root,       \* root[p]: the page of the top level of p's page table
    pgtbl,      \* pgtbl[p][va]: the physical page mapped at va, or 0
    heap_top,   \* heap_top[p]
    mmap,       \* mmap[p]: the free regions of the mmap area of p
    nodes,      \* mmap_region_t nodes in use
    ctx,        \* ctx[p]: where p is in its system call
    panic,      \* the message of panic(), None while the kernel runs
    hole,       \* history: pages mapped in the parent that fork left out
    unlisted    \* history: uvm_mmap mapped a range no free region contained

memVars == <<free, allocable, pstate, tf, root, pgtbl, heap_top, mmap, nodes,
             hole, unlisted>>
vars == <<memVars, ctx, panic>>

UstackPages == 1    \* proc_make_fisrt: proczero.ustack_pages = 1
VAs == {a \in PGSIZE .. TRAPFRAME - 1 : a % PGSIZE = 0}
NoPgtbl == [va \in VAs |-> 0]
User == [pc |-> "user"]

\* The addresses a loop "for (va = begin; va < end; va += PGSIZE)" visits.
Steps(begin, end_) ==
    LET n == IF end_ > begin THEN (end_ - begin + PGSIZE - 1) \div PGSIZE ELSE 0
    IN  [i \in 1 .. n |-> begin + (i - 1) * PGSIZE]

RegionEnd(r) == r.begin + r.npages * PGSIZE
-----------------------------------------------------------------------------
(***************************************************************************)
(* The functions that do not wait are operators on a record s of the       *)
(* state they read and change.                                             *)
(***************************************************************************)
Ms == [free |-> free, allocable |-> allocable, pstate |-> pstate, tf |-> tf,
       root |-> root, pgtbl |-> pgtbl, heap_top |-> heap_top, mmap |-> mmap,
       nodes |-> nodes, hole |-> hole, unlisted |-> unlisted, panic |-> None]

Panic(s, msg) == [s EXCEPT !.panic = msg]

\* pmem_alloc(false) of a caller that panics with msg when it gets NULL.
AllocOrPanic(s, msg) ==
    LET a == PmemAlloc(s, "user")
    IN  [s |-> IF a.page = 0 THEN Panic(s, msg) ELSE a.m, page |-> a.page]

\* vm_mappages of one page.
VmMappages(s, p, va, pa) ==
    IF va \notin VAs \/ s.pgtbl[p][va] # 0
      THEN Panic(s, "vm_mappages: remap")
      ELSE [s EXCEPT !.pgtbl[p][va] = pa]

\* vm_unmappages(pgtbl, begin, len, true): the pages are freed.
VmUnmappages(s, p, begin, len) ==
    LET Unmap(acc, va) ==
            CASE acc.panic # None -> acc
              [] acc.panic = None /\ (va \notin VAs \/ acc.pgtbl[p][va] = 0) ->
                    Panic(acc, "vm_unmappages: not mapped")
              [] OTHER -> PmemFree([acc EXCEPT !.pgtbl[p][va] = 0],
                                   acc.pgtbl[p][va], "user")
    IN  FoldLeft(Unmap, s, Steps(begin, begin + len))

\* mmap_region_alloc and mmap_region_free on the count of nodes in use.
MmapRegionAlloc(s, n) ==
    IF s.nodes + n > N_MMAP THEN Panic(s, "mmap_region_alloc: pool empty")
    ELSE [s EXCEPT !.nodes = @ + n]

\* Mutation of LeftOf: the two addresses are subtracted the wrong way.
LeftOfSwapped(r, begin) ==
    IF begin > r.begin
      THEN <<[begin |-> r.begin, npages |-> (r.begin - begin) \div PGSIZE]>>
      ELSE <<>>

\* What uvm_mmap leaves of a free region r before the range it takes.
LeftOf(r, begin) ==
    IF begin > r.begin
      THEN <<[begin |-> r.begin, npages |-> (begin - r.begin) \div PGSIZE]>>
      ELSE <<>>

\* What uvm_mmap leaves of a free region r behind the range it takes.
RightOf(r, begin, len) ==
    IF begin + len < RegionEnd(r)
      THEN <<[begin |-> begin + len,
              npages |-> (RegionEnd(r) - begin - len) \div PGSIZE]>>
      ELSE <<>>

\* The list after the loop of uvm_mmap: the first region that contains
\* [begin, begin + len) is replaced by what is left of it (nothing, its
\* tail, its head, or both with a new node); the list is as it was when no
\* region contains the range.
Taken(list, begin, npages) ==
    LET len == npages * PGSIZE
        hits == {i \in DOMAIN list : begin >= list[i].begin
                                     /\ begin + len <= RegionEnd(list[i])}
        i == Min(hits)
    IN  IF hits = {} THEN list
        ELSE SubSeq(list, 1, i - 1) \o LeftOf(list[i], begin)
             \o RightOf(list[i], begin, len) \o SubSeq(list, i + 1, Len(list))

\* mmap_merge(mmap_1, mmap_2, true): the first takes the pages of the
\* second, whose node is freed.
MmapMerge(mmap_1, mmap_2) == [mmap_1 EXCEPT !.npages = @ + mmap_2.npages]

\* Mutation of JoinsPrev: the region before is never looked at.
JoinsPrevNever(before, begin) == FALSE

\* uvm_munmap merges the new region into the one before it.
JoinsPrev(before, begin) ==
    before # <<>> /\ RegionEnd(Last(before)) = begin

\* The list after uvm_munmap: the region goes behind the regions that begin
\* below it (behind the head in any case, unless it begins below the head),
\* takes in the next one when it ends where that begins, and is taken in by
\* the one before it when that ends where it begins.
Given(list, begin, npages) ==
    LET k == IF list = <<>> \/ begin < list[1].begin THEN 0
             ELSE Max({i \in DOMAIN list : \A j \in 2 .. i : list[j].begin < begin})
        before == SubSeq(list, 1, k)
        after == SubSeq(list, k + 1, Len(list))
        region == [begin |-> begin, npages |-> npages]
        joinsNext == after # <<>> /\ RegionEnd(region) = after[1].begin
        new == IF joinsNext THEN MmapMerge(region, after[1]) ELSE region
    IN  (IF JoinsPrev(before, begin)
           THEN Front(before) \o <<MmapMerge(Last(before), new)>>
           ELSE before \o <<new>>)
        \o IF joinsNext THEN Tail(after) ELSE after

\* Mutation of GrowPages: the first new page is the one heap_top is in.
GrowPagesFromOld(old, len) ==
    Steps(PG_ROUND_DOWN(old), PG_ROUND_UP(old + len))

\* uvm_heap_grow: the pages its loop maps.
GrowPages(old, len) == Steps(PG_ROUND_UP(old), PG_ROUND_UP(old + len))

\* Mutation of UvmHeapUngrow: the new top is rounded down.
UvmHeapUngrowDown(s, p, len) ==
    LET new_top == s.heap_top[p] - len
        t == VmUnmappages(s, p, PG_ROUND_DOWN(new_top),
                          PG_ROUND_UP(s.heap_top[p]) - PG_ROUND_DOWN(new_top))
    IN  [t EXCEPT !.heap_top[p] = new_top]

\* uvm_heap_ungrow: the pages above the new top are unmapped and freed.
UvmHeapUngrow(s, p, len) ==
    LET new_top == s.heap_top[p] - len
        old_aligned == PG_ROUND_UP(s.heap_top[p])
        new_aligned == PG_ROUND_UP(new_top)
        t == IF new_aligned < old_aligned
               THEN VmUnmappages(s, p, new_aligned, old_aligned - new_aligned)
               ELSE s
    IN  [t EXCEPT !.heap_top[p] = new_top]

\* uvm_destroy_pgtbl: the trapframe page, every page the table maps and
\* the table go back to the user region.
UvmDestroyPgtbl(s, p) ==
    LET FreeLeaf(acc, va) ==
            IF acc.panic # None \/ acc.pgtbl[p][va] = 0 THEN acc
            ELSE PmemFree(acc, acc.pgtbl[p][va], "user")
        leaves == FoldLeft(FreeLeaf, PmemFree(s, s.tf[p], "user"),
                           Steps(PGSIZE, TRAPFRAME))
        t == IF leaves.panic # None THEN leaves
             ELSE PmemFree(leaves, s.root[p], "user")
    IN  [t EXCEPT !.pgtbl[p] = NoPgtbl, !.tf[p] = 0, !.root[p] = 0]
Fault == -1     \* stands for panic("...: invalid page") in a result
Valid(pt, va) == va \in DOMAIN pt /\ pt[va] # 0

\* Mutation of Chunk: the bytes up to the end of the page, however few
\* are wanted.
ChunkToPageEnd(ua, len) == PGSIZE - (ua - PG_ROUND_DOWN(ua))

\* The bytes uvm_copyin, uvm_copyout and uvm_copyin_str take in one round.
Chunk(ua, len) == Min({PGSIZE - (ua - PG_ROUND_DOWN(ua)), len})

\* uvm_copyin: the physical addresses of the bytes it reads for
\* [src, src + len), in the order it reads them, and Fault where it panics.
RECURSIVE UvmCopyin(_, _, _)
UvmCopyin(pt, src, len) ==
    LET va0 == PG_ROUND_DOWN(src)
        n == Chunk(src, len)
    IN  CASE len = 0 -> <<>>
          [] len # 0 /\ ~Valid(pt, va0) -> <<Fault>>
          [] OTHER -> [i \in 1 .. n |-> pt[va0] + (src - va0) + i - 1]
                      \o UvmCopyin(pt, va0 + PGSIZE, len - n)

\* uvm_copyout: the same walk over [dst, dst + len), written to.
UvmCopyout(pt, dst, len) == UvmCopyin(pt, dst, len)

\* uvm_copyin_str, nul being the addresses of the process that hold '\0':
\* the bytes it copies, then 0 when it has written the '\0' that ends the
\* string, Fault where it panics, nothing more when maxlen bytes are copied.
RECURSIVE UvmCopyinStr(_, _, _, _)
UvmCopyinStr(pt, nul, src, maxlen) ==
    LET va0 == PG_ROUND_DOWN(src)
        n == Chunk(src, maxlen)
        ends == {i \in 1 .. n : src + i - 1 \in nul}
        k == IF ends = {} THEN n ELSE Min(ends) - 1
        copied == [i \in 1 .. k |-> pt[va0] + (src - va0) + i - 1]
    IN  CASE maxlen = 0 -> <<>>
          [] maxlen # 0 /\ ~Valid(pt, va0) -> <<Fault>>
          [] maxlen # 0 /\ Valid(pt, va0) /\ ends # {} -> copied \o <<0>>
          [] OTHER -> copied \o UvmCopyinStr(pt, nul, va0 + PGSIZE, maxlen - n)
-----------------------------------------------------------------------------
\* sys_copyin: a uvm_copyin for each of the len ints at addr, the next one
\* only when the one before has not stopped the kernel.
RECURSIVE SysCopyin(_, _, _)
SysCopyin(pt, addr, len) ==
    LET got == UvmCopyin(pt, addr, SIZEOF_INT)
    IN  CASE len = 0 -> <<>>
          [] len # 0 /\ Fault \in Range(got) -> got
          [] OTHER -> got \o SysCopyin(pt, addr + SIZEOF_INT, len - 1)

\* sys_copyout writes an array of five ints; sys_copyinstr and sys_print
\* take a string into a buffer in the kernel (arg_str is not in the
\* sources: it is taken to be uvm_copyin_str of the argument).
SysCopyout(pt, addr) == UvmCopyout(pt, addr, 5 * SIZEOF_INT)
SysCopyinstr(pt, nul, addr) == UvmCopyinStr(pt, nul, addr, COPYINSTR_MAX)
SysPrint(pt, nul, addr) == UvmCopyinStr(pt, nul, addr, PRINT_MAX)

Init ==
    /\ free = [r \in Regions |-> RegionInit(r)]
    /\ allocable = [r \in Regions |-> Len(RegionInit(r))]
    /\ pstate = [p \in Procs |-> "unused"]
    /\ tf = [p \in Procs |-> 0]
    /\ root = [p \in Procs |-> 0]
    /\ pgtbl = [p \in Procs |-> NoPgtbl]
    /\ heap_top = [p \in Procs |-> 0]
    /\ mmap = [p \in Procs |-> <<>>]
    /\ nodes = 0
    /\ hole = [p \in Procs |-> {}]
    /\ unlisted = FALSE
    /\ ctx = [p \in Procs |-> User]
    /\ panic = None

Running(p, at) == panic = None /\ pstate[p] = "run" /\ ctx[p].pc = at

\* The step of p ends in the state s with p at c, or in a panic that
\* stops the kernel where it was.
Becomes(s, p, c) ==
    IF s.panic # None
      THEN panic' = s.panic /\ UNCHANGED <<memVars, ctx>>
      ELSE /\ free' = s.free /\ allocable' = s.allocable /\ pstate' = s.pstate
           /\ tf' = s.tf /\ root' = s.root /\ pgtbl' = s.pgtbl
           /\ heap_top' = s.heap_top /\ mmap' = s.mmap /\ nodes' = s.nodes
           /\ hole' = s.hole /\ unlisted' = s.unlisted
           /\ ctx' = [ctx EXCEPT ![p] = c]
           /\ UNCHANGED panic

\* proc_pgtbl_init: the page of the top level of a page table for p.
ProcPgtblInit(s, p) ==
    LET a == AllocOrPanic(s, "proc_pgtbl_init: failed to allocate page table")
    IN  IF a.s.panic # None THEN a.s ELSE [a.s EXCEPT !.root[p] = a.page]

\* A page for va of p, or the panic of the caller.
MapNew(s, p, va, msg) ==
    LET a == AllocOrPanic(s, msg)
    IN  IF a.s.panic # None THEN a.s ELSE VmMappages(a.s, p, va, a.page)

\* proc_make_fisrt: the trapframe, the page table, one page of stack and
\* one of code for proczero, on the one hart that boots.  The list of the
\* whole mmap area is what mmap_init and the process set-up give it.
MakeFirst ==
    LET frame == AllocOrPanic(Ms, "proc_make_fisrt: failed to allocate trapframe")
        table == IF frame.s.panic # None THEN frame.s
                 ELSE ProcPgtblInit([frame.s EXCEPT !.tf[proczero] = frame.page],
                                    proczero)
        stack == IF table.panic # None THEN table
                 ELSE MapNew(table, proczero, TRAPFRAME - PGSIZE,
                             "proc_make_fisrt: failed to allocate user stack")
        code == IF stack.panic # None THEN stack
                ELSE MapNew(stack, proczero, PGSIZE,
                            "proc_make_fisrt: failed to allocate code page")
        area == MmapRegionAlloc(code, 1)
    IN  /\ panic = None /\ pstate[proczero] = "unused"
        /\ Becomes(IF code.panic # None THEN code
                   ELSE [area EXCEPT !.heap_top[proczero] = 2 * PGSIZE,
                                     !.pstate[proczero] = "run",
                                     !.mmap[proczero] =
                                        <<[begin |-> MMAP_BEGIN,
                                           npages |-> (MMAP_END - MMAP_BEGIN) \div PGSIZE]>>],
                   proczero, User)

\* sys_brk answers a query, and refuses a top below the code or above the
\* page under the stack.
BrkRefused(new) ==
    new = 0 \/ new < 2 * PGSIZE \/ new > TRAPFRAME - UstackPages * PGSIZE - PGSIZE

\* sys_brk: a query, a refusal, or the heap grown or shrunk to new.
SysBrk(p, c) ==
    LET old == heap_top[p]
        grown == (c.new - old) % UINT32
        shrunk == (old - c.new) % UINT32
    IN  /\ Running(p, "user") /\ c.fn = "brk"
        /\ \/ (BrkRefused(c.new) \/ c.new = old) /\ UNCHANGED vars
           \/ /\ ~BrkRefused(c.new) /\ c.new > old /\ GrowPages(old, grown) = <<>>
              /\ Becomes([Ms EXCEPT !.heap_top[p] = old + grown], p, User)
           \/ /\ ~BrkRefused(c.new) /\ c.new > old /\ GrowPages(old, grown) # <<>>
              /\ Becomes(Ms, p, [pc |-> "grow", todo |-> GrowPages(old, grown),
                                 top |-> old + grown])
           \/ /\ ~BrkRefused(c.new) /\ c.new < old
              /\ Becomes(UvmHeapUngrow(Ms, p, shrunk), p, User)

\* One round of the loop of uvm_heap_grow; after the last one sys_brk
\* stores the new heap_top.
Grow(p) ==
    LET c == ctx[p]
        s == MapNew(Ms, p, Head(c.todo), "uvm_heap_grow: out of memory")
    IN  /\ Running(p, "grow")
        /\ IF Tail(c.todo) = <<>>
             THEN Becomes([s EXCEPT !.heap_top[p] = c.top], p, User)
             ELSE Becomes(s, p, [c EXCEPT !.todo = Tail(@)])

\* sys_mmap: the start asked for, or the begin of the first free region of
\* the list that is long enough, or 0.
MmapStart(list, start, npages) ==
    LET fits == {i \in DOMAIN list : list[i].npages >= npages}
    IN  CASE start # 0 -> start
          [] start = 0 /\ fits # {} -> list[Min(fits)].begin
          [] OTHER -> 0

\* The lengths and starts sys_mmap and sys_munmap return -1 for.
BadRange(start, len) == start % PGSIZE # 0 \/ len = 0 \/ len % PGSIZE # 0

\* sys_mmap and uvm_mmap up to its second loop: the range at start, or at
\* the first free region that is long enough, leaves the list.
SysMmap(p, c) ==
    LET npages == c.len \div PGSIZE
        start == MmapStart(mmap[p], c.start, npages)
        refused == BadRange(start, c.len) \/ start = 0
        list == Taken(mmap[p], start, npages)
        s == MmapRegionAlloc([Ms EXCEPT !.mmap[p] = list,
                                        !.unlisted = @ \/ list = mmap[p]],
                             Len(list) - Len(mmap[p]))
    IN  /\ Running(p, "user") /\ c.fn = "mmap"
        /\ \/ refused /\ UNCHANGED vars
           \/ /\ ~refused
              /\ Becomes(s, p, [pc |-> "mmap", todo |-> Steps(start, start + c.len)])

\* One round of the second loop of uvm_mmap.
MmapPage(p) ==
    LET c == ctx[p]
        s == MapNew(Ms, p, Head(c.todo), "uvm_mmap: out of memory")
    IN  /\ Running(p, "mmap")
        /\ Becomes(s, p, IF Tail(c.todo) = <<>> THEN User
                         ELSE [c EXCEPT !.todo = Tail(@)])

\* sys_munmap and uvm_munmap: a node for the range, put in the list and
\* merged, then the pages unmapped and freed.  The frees are one step:
\* they cannot fail, and the other processes see of them only the order
\* of the free list.
SysMunmap(p, c) ==
    LET refused == BadRange(c.start, c.len)
        list == Given(mmap[p], c.start, c.len \div PGSIZE)
        node == MmapRegionAlloc(Ms, 1)
        s == [node EXCEPT !.mmap[p] = list,
                          !.nodes = @ - (Len(mmap[p]) + 1 - Len(list))]
    IN  /\ Running(p, "user") /\ c.fn = "munmap"
        /\ \/ refused /\ UNCHANGED vars
           \/ ~refused /\ Becomes(VmUnmappages(s, p, c.start, c.len), p, User)

\* What proc_fork does before uvm_copy_pgtbl: a slot and a trapframe page.
ProcForkBegin(s, child) ==
    LET a == AllocOrPanic(s, "proc_fork: failed to allocate trapframe")
    IN  IF a.s.panic # None THEN a.s
        ELSE [a.s EXCEPT !.tf[child] = a.page, !.pstate[child] = "embryo"]

\* What proc_fork does after it: the fields of the parent, a list of the
\* same free regions, and the child may run.
ProcForkEnd(s, p, child) ==
    IF s.panic # None THEN s
    ELSE [MmapRegionAlloc(s, Len(s.mmap[p]))
            EXCEPT !.heap_top[child] = s.heap_top[p], !.mmap[child] = s.mmap[p],
                   !.hole[child] = s.hole[p] \cup
                       {a \in VAs : /\ MMAP_BEGIN <= a /\ a < MMAP_END
                                    /\ s.pgtbl[p][a] # 0},
                   !.pstate[child] = "run"]

\* sys_fork: the child's page table, and the ranges uvm_copy_pgtbl will
\* copy: the code and the heap, and the stack.  The mmap area is not one.
SysFork(p, c) ==
    /\ Running(p, "user") /\ c.fn = "fork"
    /\ \/ (\A q \in Procs : pstate[q] # "unused") /\ UNCHANGED vars
       \/ \E child \in Procs :
            LET s == ProcForkBegin(Ms, child) IN
            /\ pstate[child] = "unused"
            /\ Becomes(IF s.panic # None THEN s ELSE ProcPgtblInit(s, child), p,
                       [pc |-> "copy", child |-> child,
                        todo |-> Steps(PGSIZE, heap_top[p])
                                 \o Steps(TRAPFRAME - UstackPages * PGSIZE, TRAPFRAME)])

\* One round of copy_range: a page for the child, filled from the
\* parent's.  The result of pmem_alloc is not tested: with no page left
\* memmove stores to address 0, which the kernel, with no page mapped there,
\* takes as an exception in trap_kernel_handler.
CopyPage(p) ==
    LET c == ctx[p]
        s == MapNew(Ms, c.child, Head(c.todo), "trap_kernel_handler: unexpected exception")
    IN  /\ Running(p, "copy")
        /\ IF Tail(c.todo) = <<>>
             THEN Becomes(ProcForkEnd(s, p, c.child), p, User)
             ELSE Becomes(s, p, [c EXCEPT !.todo = Tail(@)])

\* proc_exit, as sys_exit relies on it: uvm_destroy_pgtbl, and the slot and
\* the nodes of the list given back.
ProcExit(s, p) ==
    [UvmDestroyPgtbl(s, p) EXCEPT !.nodes = @ - Len(mmap[p]), !.mmap[p] = <<>>,
                                  !.heap_top[p] = 0, !.hole[p] = {},
                                  !.pstate[p] = "unused"]

\* sys_exit of a process that is not the first.
SysExit(p, c) ==
    /\ Running(p, "user") /\ c.fn = "exit" /\ p # proczero
    /\ Becomes(ProcExit(Ms, p), p, User)

\* sys_copyin, sys_copyout, sys_copyinstr and sys_print: the bytes go
\* between the kernel and the pages of p, of which c.nul hold a '\0'; an
\* address that is not mapped stops the kernel.
SysCopy(p, c) ==
    LET pt == pgtbl[p]
        got == CASE c.fn = "copyin" -> SysCopyin(pt, c.addr, c.len)
                 [] c.fn = "copyout" -> SysCopyout(pt, c.addr)
                 [] c.fn = "copyinstr" -> SysCopyinstr(pt, c.nul, c.addr)
                 [] c.fn = "print" -> SysPrint(pt, c.nul, c.addr)
        by == IF c.fn \in {"copyin", "copyout"} THEN c.fn ELSE "copyin_str"
    IN  /\ Running(p, "user") /\ c.fn \in {"copyin", "copyout", "copyinstr", "print"}
        /\ panic' = IF Fault \in Range(got)
                     THEN "uvm_" \o by \o ": invalid page" ELSE panic
        /\ UNCHANGED <<memVars, ctx>>

Halted == panic # None /\ UNCHANGED vars

Next ==
    \/ MakeFirst
    \/ \E p \in Procs, c \in Calls :
          SysBrk(p, c) \/ SysMmap(p, c) \/ SysMunmap(p, c) \/ SysFork(p, c)
          \/ SysExit(p, c) \/ SysCopy(p, c)
    \/ \E p \in Procs : Grow(p) \/ MmapPage(p) \/ CopyPage(p)
    \/ Halted

Spec == Init /\ [][Next]_vars
-----------------------------------------------------------------------------
Area == {a \in VAs : MMAP_BEGIN <= a /\ a < MMAP_END}
Mapped(p) == {a \in VAs : pgtbl[p][a] # 0}
Listed(p) == UNION {ToSet(Steps(r.begin, RegionEnd(r))) : r \in ToSet(mmap[p])}
Pending(p, at) == IF ctx[p].pc = at THEN ToSet(ctx[p].todo) ELSE {}

TypeOK ==
    /\ free \in [Regions -> Seq(Pages)]
    /\ allocable \in [Regions -> 0 .. Cardinality(Pages)]
    /\ pstate \in [Procs -> {"unused", "embryo", "run"}]
    /\ tf \in [Procs -> Pages \cup {0}]
    /\ root \in [Procs -> Pages \cup {0}]
    /\ pgtbl \in [Procs -> [VAs -> Pages \cup {0}]]
    /\ heap_top \in [Procs -> 0 .. TRAPFRAME]
    /\ \A p \in Procs : \A i \in DOMAIN mmap[p] :
          mmap[p][i].begin \in Nat /\ mmap[p][i].npages \in Nat
    /\ nodes \in 0 .. N_MMAP
    /\ hole \in [Procs -> SUBSET Area]
    /\ unlisted \in BOOLEAN
    /\ \A p \in Procs : ctx[p].pc \in {"user", "grow", "mmap", "copy"}
    /\ panic = None \/ panic \in STRING

\* pmem_alloc and pmem_free, called by processes in any order, keep every
\* page of the two regions in exactly one place: on the free list of its
\* region, which allocable counts, or with one process as its trapframe,
\* its page table or one page it maps; and a process has user pages only.
PagesOwnedOnce ==
    LET OnList(a) == {<<r, i>> \in Regions \X (1 .. Cardinality(Pages)) :
                         i <= Len(free[r]) /\ free[r][i] = a}
        Maps(a) == {<<p, va>> \in Procs \X VAs : pgtbl[p][va] = a}
        Held(a) == Cardinality(Maps(a)) + Cardinality({p \in Procs : tf[p] = a})
                   + Cardinality({p \in Procs : root[p] = a})
    IN  /\ \A a \in Pages : Cardinality(OnList(a)) + Held(a) = 1
        /\ \A a \in RegionPages("kern") : Held(a) = 0
        /\ \A r \in Regions :
              /\ allocable[r] = Len(free[r])
              /\ \A i \in DOMAIN free[r] :
                    Begin[r] <= free[r][i] /\ free[r][i] + PGSIZE <= End[r]

\* uvm_mmap and uvm_munmap keep the list of a process exact: its regions
\* are in address order and never touch (uvm_munmap has merged them), and
\* every page of the mmap area is in exactly one of: a listed region, the
\* page table, the range uvm_mmap is still mapping, the pages fork left
\* out of the child.  The nodes in use are the nodes of the lists.
MmapListExact ==
    ~unlisted =>
      /\ \A p \in Procs : pstate[p] = "run" =>
            /\ \A i \in DOMAIN mmap[p] :
                  /\ mmap[p][i].npages > 0
                  /\ i > 1 => RegionEnd(mmap[p][i - 1]) < mmap[p][i].begin
            /\ Area = Listed(p) \cup (Mapped(p) \cap Area) \cup Pending(p, "mmap")
                      \cup hole[p]
            /\ Listed(p) \cap (Mapped(p) \cup Pending(p, "mmap") \cup hole[p]) = {}
            /\ Mapped(p) \cap (Pending(p, "mmap") \cup hole[p]) = {}
      /\ nodes = SumFunction([p \in Procs |-> Len(mmap[p])])

\* sys_brk with uvm_heap_grow and uvm_heap_ungrow keeps below the mmap
\* area exactly the code page and the pages under heap_top rounded up,
\* and the stack above it, for tops that stay below the mmap area, aligned
\* or not and more than a uint32 apart; while the heap grows, the pages its
\* loop has reached.
HeapExact ==
    \A p \in Procs : pstate[p] = "run" =>
        LET top == IF ctx[p].pc = "grow" THEN ctx[p].top ELSE heap_top[p] IN
        /\ 2 * PGSIZE <= heap_top[p]
        /\ Mapped(p) \ Area =
              ({PGSIZE, TRAPFRAME - PGSIZE}
               \cup ToSet(Steps(2 * PGSIZE, PG_ROUND_UP(top))))
              \ Pending(p, "grow")

\* The kernel stops only for what a process asked of it: memory or nodes
\* that are not there, a range unmapped that was not mapped.  It never
\* maps a page where one is mapped and never frees what is not a page of
\* the user region, as long as uvm_mmap was given ranges of the list and
\* sys_brk tops below the mmap area.
OnlyUserPanics ==
    ~unlisted => panic \notin {"vm_mappages: remap", "pmem_free: page not aligned",
                               "pmem_free: page out of region bounds"}

\* uvm_copyin, uvm_copyout and uvm_copyin_str, which go page by page, touch
\* the bytes a copy byte by byte through the page table would: each byte
\* of the range once and in order, at the page its address is mapped to,
\* up to the first byte of a page that is not valid, where they panic;
\* uvm_copyin_str up to the first '\0', which it writes, or up to maxlen
\* bytes, after which it writes none.
CopiesAreByteExact ==
    LET pt == pgtbl[proczero]
        Phys(ua) == pt[PG_ROUND_DOWN(ua)] + (ua % PGSIZE)
        Bad(ua, len) == {i \in 0 .. len - 1 : ~Valid(pt, PG_ROUND_DOWN(ua + i))}
        Nul(nul, ua, len) == {i \in 0 .. len - 1 : ua + i \in nul}
        Upto(ua, stop) == [i \in 1 .. stop |-> Phys(ua + i - 1)]
        ByBytes(ua, len) ==
            IF Bad(ua, len) = {} THEN Upto(ua, len)
            ELSE Upto(ua, Min(Bad(ua, len))) \o <<Fault>>
        StrByBytes(nul, ua, len) ==
            LET stop == Min(Bad(ua, len) \cup Nul(nul, ua, len) \cup {len})
            IN  Upto(ua, stop) \o CASE stop \in Bad(ua, len) -> <<Fault>>
                                    [] stop \in Nul(nul, ua, len) \ Bad(ua, len) -> <<0>>
                                    [] OTHER -> <<>>
    IN  \A ua \in CopyFrom, len \in CopyLens :
          /\ UvmCopyin(pt, ua, len) = ByBytes(ua, len)
          /\ UvmCopyout(pt, ua, len) = ByBytes(ua, len)
          /\ SysCopyin(pt, ua, len) = ByBytes(ua, len * SIZEOF_INT)
          /\ \A nul \in {{}} \cup {{ua + i} : i \in 0 .. len} :
                UvmCopyinStr(pt, nul, ua, len) = StrByBytes(nul, ua, len)

\* The first range mapped outside the list is where the model stops.
UntilFirstDefect == ~unlisted
=============================================================================
