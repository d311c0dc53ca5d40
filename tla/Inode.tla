------------------------------- MODULE Inode -------------------------------
(***************************************************************************)
(* The inode cache of kernel/fs/inode.c and the inode bitmap of            *)
(* kernel/fs/bitmap.c: the life of an inode from inode_create to           *)
(* inode_destroy, as several processes take, duplicate, lock and drop      *)
(* references to it.                                                       *)
(*                                                                         *)
(* The spinlock lk_icache guards the reference counts and the inode        *)
(* numbers of the slots.  inode_free keeps it while inode_destroy takes    *)
(* the sleeplock and goes to the disk, so it is a variable here and the    *)
(* other critical sections wait for it.                                    *)
(*                                                                         *)
(* The sleeplock of a slot is used as module Mutex describes it.  What a   *)
(* caller does from inode_lock to inode_unlock touches only what the       *)
(* sleeplock guards and is one action where the caller cannot be made to   *)
(* wait in between.  inode_rw and the bitmap functions run under the       *)
(* sleeplock of the buffer they read and are one step each.                *)
(*                                                                         *)
(* Of the fields of an inode the type, the link count and whether it has   *)
(* data (addrs[0] of a directory) are kept; major, minor and size follow   *)
(* the type, and the address table is the subject of module InodeData.     *)
(* A caller names an inode number to inode_alloc that a directory entry    *)
(* names, which is an inode with links.                                    *)
(***************************************************************************)
EXTENDS Integers, FiniteSets, FiniteSetsExt, Functions

CONSTANTS
    N_INODE,        \* the number of slots of icache
    NBits,          \* the bits of the inode bitmap (inode numbers 0 .. NBits-1)
    NBlocks,        \* the bits of the block bitmap
    INODE_ROOT,     \* the inode mkfs made: the root directory
    Procs,          \* the callers
    None,           \* no caller
    MaxRefs,        \* bound: references one caller holds at a time
    MaxLink         \* bound: links of one inode

ASSUME /\ N_INODE \in Nat \ {0} /\ NBits \in Nat \ {0} /\ NBlocks \in Nat \ {0}
       /\ INODE_ROOT \in 0 .. NBits - 1
       /\ IsFiniteSet(Procs) /\ None \notin Procs
       /\ MaxRefs \in Nat /\ MaxLink \in Nat \ {0}

Slots == 0 .. N_INODE - 1
Inums == 0 .. NBits - 1
Types == {"FT_UNUSED", "FT_DIR", "FT_FILE"}

\* The fields inode_rw moves between a slot and the disk.
Fields == [type : Types, nlink : 0 .. MaxLink, blocks : 0 .. 1]
Unused == [type |-> "FT_UNUSED", nlink |-> 0, blocks |-> 0]

\* The messages of panic().
Panics == {"no bit left", "no free inode", "bit already free"}

VARIABLES
    inode_num,  \* icache[i].inode_num
    ref,        \* icache[i].ref
    valid,      \* icache[i].valid
    mem,        \* icache[i].type, nlink, addrs
    slk,        \* the holder of icache[i].slk, or None
    lk_icache,  \* the holder of lk_icache, or None
    dinode,     \* the inodes on the disk
    ibitmap,    \* the inode numbers whose bit is set
    dataUsed,   \* how many bits of the block bitmap are set
    pc,         \* where each caller is
    arg,        \* the inode number or the slot of the call a caller is in
    ftype,      \* the type inode_create was called with
    refs,       \* how many references to each slot a caller holds
    panic       \* the message panic() was called with, or None

vars == <<inode_num, ref, valid, mem, slk, lk_icache, dinode, ibitmap,
          dataUsed, pc, arg, ftype, refs, panic>>

slotVars == <<inode_num, ref, valid>>
diskVars == <<dinode, ibitmap, dataUsed>>
callVars == <<pc, arg, ftype>>

-----------------------------------------------------------------------------
\* bitmap_search_and_set: the first clear bit, or NBits if every bit is set.
FirstClear == Min((Inums \ ibitmap) \cup {NBits})

\* The first loop of inode_alloc: the slots in use for inode number n.
InUseFor(n) == {i \in Slots : ref[i] > 0 /\ inode_num[i] = n}

\* The variable empty of inode_alloc after the loop: the first slot nobody
\* refers to, or None.
Empty ==
    LET free == {i \in Slots : ref[i] = 0}
    IN  IF free = {} THEN None ELSE Min(free)

Running(p) == panic = None /\ pc[p] = "idle"

\* A caller outside every function that may take one more reference.
MayTake(p) == Running(p) /\ SumFunction(refs[p]) < MaxRefs

\* A caller that holds a reference to slot i and not its sleeplock.
HoldsUnlocked(p, i) == Running(p) /\ refs[p][i] > 0 /\ slk[i] # p

\* The callers of this module lock one inode at a time, as search_inode
\* does.
LocksNothing(p) == \A i \in Slots : slk[i] # p

\* inode_alloc(n) is called by inode_create with the number it was given,
\* and by the path functions with the number of a directory entry, which
\* names an inode with links.
CallsAlloc(p, n) ==
    /\ lk_icache = None
    /\ \/ panic = None /\ pc[p] = "created" /\ arg[p] = n
       \/ MayTake(p) /\ dinode[n].type # "FT_UNUSED" /\ dinode[n].nlink > 0

\* inode_alloc returns slot i: inode_create goes on, another caller has its
\* reference.
ReturnSlot(p, i) ==
    /\ refs' = [refs EXCEPT ![p][i] = @ + 1]
    /\ pc' = [pc EXCEPT ![p] = IF @ = "created" THEN "fill" ELSE "idle"]
    /\ arg' = [arg EXCEPT ![p] = IF pc[p] = "created" THEN i ELSE None]
    /\ UNCHANGED ftype

Goto(p, to, a) ==
    /\ pc' = [pc EXCEPT ![p] = to]
    /\ arg' = [arg EXCEPT ![p] = a]

-----------------------------------------------------------------------------
\* inode_init on the file system mkfs wrote: the slots are zeroes, the root
\* directory is the only inode and has its block.
Init ==
    /\ inode_num = [i \in Slots |-> 0]
    /\ ref = [i \in Slots |-> 0]
    /\ valid = [i \in Slots |-> FALSE]
    /\ mem = [i \in Slots |-> Unused]
    /\ slk = [i \in Slots |-> None]
    /\ lk_icache = None
    /\ dinode = [n \in Inums |->
                   IF n = INODE_ROOT
                     THEN [type |-> "FT_DIR", nlink |-> 1, blocks |-> 1]
                     ELSE Unused]
    /\ ibitmap = {INODE_ROOT}
    /\ dataUsed = 1
    /\ pc = [p \in Procs |-> "idle"]
    /\ arg = [p \in Procs |-> None]
    /\ ftype = [p \in Procs |-> "FT_UNUSED"]
    /\ refs = [p \in Procs |-> [i \in Slots |-> 0]]
    /\ panic = None

\* Mutation of BitmapAllocInode: the search runs past the last bit.
BitmapAllocInodeUnbounded(p, type) ==
    /\ MayTake(p)
    /\ ibitmap' = ibitmap \cup {FirstClear}
    /\ Goto(p, "created", FirstClear)
    /\ ftype' = [ftype EXCEPT ![p] = type]
    /\ UNCHANGED <<slotVars, mem, slk, lk_icache, dinode, dataUsed, refs, panic>>

\* inode_create(type) to the return of bitmap_alloc_inode: the first clear
\* bit is set; no bit left is a panic.
BitmapAllocInode(p, type) ==
    /\ MayTake(p)
    /\ IF FirstClear = NBits
         THEN /\ panic' = "no bit left"
              /\ UNCHANGED <<ibitmap, callVars>>
         ELSE /\ ibitmap' = ibitmap \cup {FirstClear}
              /\ Goto(p, "created", FirstClear)
              /\ ftype' = [ftype EXCEPT ![p] = type]
              /\ UNCHANGED panic
    /\ UNCHANGED <<slotVars, mem, slk, lk_icache, dinode, dataUsed, refs>>

\* Mutation of InodeAllocHit: the reference is not counted.
InodeAllocHitUncounted(p, n) ==
    /\ CallsAlloc(p, n)
    /\ InUseFor(n) # {}
    /\ ReturnSlot(p, Min(InUseFor(n)))
    /\ UNCHANGED <<slotVars, mem, slk, lk_icache, diskVars, panic>>

\* inode_alloc finds the inode in a slot in use: one more reference.
InodeAllocHit(p, n) ==
    /\ CallsAlloc(p, n)
    /\ InUseFor(n) # {}
    /\ ref' = [ref EXCEPT ![Min(InUseFor(n))] = @ + 1]
    /\ ReturnSlot(p, Min(InUseFor(n)))
    /\ UNCHANGED <<inode_num, valid, mem, slk, lk_icache, diskVars, panic>>

\* Mutation of InodeAllocMiss: a slot is taken without the search for the
\* inode.
InodeAllocUnsearched(p, n) ==
    /\ CallsAlloc(p, n)
    /\ Empty # None
    /\ inode_num' = [inode_num EXCEPT ![Empty] = n]
    /\ ref' = [ref EXCEPT ![Empty] = 1]
    /\ valid' = [valid EXCEPT ![Empty] = FALSE]
    /\ ReturnSlot(p, Empty)
    /\ UNCHANGED <<mem, slk, lk_icache, diskVars, panic>>

\* Mutation of InodeAllocMiss: the slot keeps its valid flag.
InodeAllocKeepsValid(p, n) ==
    /\ CallsAlloc(p, n)
    /\ InUseFor(n) = {}
    /\ Empty # None
    /\ inode_num' = [inode_num EXCEPT ![Empty] = n]
    /\ ref' = [ref EXCEPT ![Empty] = 1]
    /\ ReturnSlot(p, Empty)
    /\ UNCHANGED <<valid, mem, slk, lk_icache, diskVars, panic>>

\* inode_alloc does not find it: the first free slot is given to the inode,
\* not yet loaded.
InodeAllocMiss(p, n) ==
    /\ CallsAlloc(p, n)
    /\ InUseFor(n) = {}
    /\ Empty # None
    /\ inode_num' = [inode_num EXCEPT ![Empty] = n]
    /\ ref' = [ref EXCEPT ![Empty] = 1]
    /\ valid' = [valid EXCEPT ![Empty] = FALSE]
    /\ ReturnSlot(p, Empty)
    /\ UNCHANGED <<mem, slk, lk_icache, diskVars, panic>>

\* inode_alloc finds neither the inode nor a free slot.
InodeAllocPanic(p, n) ==
    /\ CallsAlloc(p, n)
    /\ InUseFor(n) = {}
    /\ Empty = None
    /\ panic' = "no free inode"
    /\ UNCHANGED <<slotVars, mem, slk, lk_icache, diskVars, callVars, refs>>

\* inode_create from inode_lock to inode_unlock: the lock is taken (what
\* inode_lock loads is overwritten at once), the fields are set and written,
\* and a directory gets its block, or the panic of the bitmap when no block
\* is left, with the inode written and locked.
CreateFill(p) ==
    LET i == arg[p]
        full == ftype[p] = "FT_DIR" /\ dataUsed = NBlocks
        new == [type |-> ftype[p], nlink |-> 1,
                blocks |-> IF ftype[p] = "FT_DIR" /\ ~full THEN 1 ELSE 0]
    IN  /\ panic = None
        /\ pc[p] = "fill"
        /\ slk[i] = None
        /\ mem' = [mem EXCEPT ![i] = new]
        /\ dinode' = [dinode EXCEPT ![inode_num[i]] = new]
        /\ dataUsed' = dataUsed + new.blocks
        /\ valid' = [valid EXCEPT ![i] = TRUE]
        /\ IF full
             THEN /\ panic' = "no bit left"
                  /\ slk' = [slk EXCEPT ![i] = p]
                  /\ UNCHANGED callVars
             ELSE /\ Goto(p, "idle", None)
                  /\ ftype' = [ftype EXCEPT ![p] = "FT_UNUSED"]
                  /\ UNCHANGED <<slk, panic>>
        /\ UNCHANGED <<inode_num, ref, lk_icache, ibitmap, refs>>

\* inode_dup: one more reference for a caller that has one.
InodeDup(p, i) ==
    /\ MayTake(p)
    /\ refs[p][i] > 0
    /\ lk_icache = None
    /\ ref' = [ref EXCEPT ![i] = @ + 1]
    /\ refs' = [refs EXCEPT ![p][i] = @ + 1]
    /\ UNCHANGED <<inode_num, valid, mem, slk, lk_icache, diskVars, callVars,
                   panic>>

\* inode_lock: the sleeplock, and the fields from the disk if the slot was
\* not loaded.
InodeLock(p, i) ==
    /\ HoldsUnlocked(p, i)
    /\ LocksNothing(p)
    /\ slk[i] = None
    /\ slk' = [slk EXCEPT ![i] = p]
    /\ mem' = [mem EXCEPT ![i] = IF valid[i] THEN @ ELSE dinode[inode_num[i]]]
    /\ valid' = [valid EXCEPT ![i] = TRUE]
    /\ UNCHANGED <<inode_num, ref, lk_icache, diskVars, callVars, refs, panic>>

\* The holder of the lock changes the link count by d and writes the inode.
SetLinks(p, i, d) ==
    /\ Running(p)
    /\ slk[i] = p
    /\ mem[i].nlink + d \in 0 .. MaxLink
    /\ mem' = [mem EXCEPT ![i].nlink = @ + d]
    /\ dinode' = [dinode EXCEPT ![inode_num[i]] = mem'[i]]
    /\ UNCHANGED <<slotVars, slk, lk_icache, ibitmap, dataUsed, callVars, refs,
                   panic>>

\* path_link: ip->nlink++, inode_rw(ip, true), for a file that has a name.
Link(p, i) == mem[i].type = "FT_FILE" /\ mem[i].nlink > 0 /\ SetLinks(p, i, 1)

\* path_unlink: ip->nlink--, inode_rw(ip, true), for an inode that has a
\* name; the root directory has none.
Unlink(p, i) ==
    inode_num[i] # INODE_ROOT /\ mem[i].nlink > 0 /\ SetLinks(p, i, -1)

\* inode_unlock.
InodeUnlock(p, i) ==
    /\ Running(p)
    /\ slk[i] = p
    /\ slk' = [slk EXCEPT ![i] = None]
    /\ UNCHANGED <<slotVars, mem, lk_icache, diskVars, callVars, refs, panic>>

\* Mutation of LastOfUnlinked: the reference count is tested after the
\* decrement.
LastOfUnlinkedLate(i) == ref[i] = 0 /\ valid[i] /\ mem[i].nlink = 0

\* Mutation of LastOfUnlinked: the reference count is not tested.
UnlinkedOnly(i) == valid[i] /\ mem[i].nlink = 0

\* The test of inode_free: the caller has the last reference to a loaded
\* inode without links.
LastOfUnlinked(i) == ref[i] = 1 /\ valid[i] /\ mem[i].nlink = 0

\* inode_free of an inode that stays: one reference less.
InodeFreeDrop(p, i) ==
    /\ HoldsUnlocked(p, i)
    /\ lk_icache = None
    /\ ~LastOfUnlinked(i)
    /\ ref' = [ref EXCEPT ![i] = @ - 1]
    /\ refs' = [refs EXCEPT ![p][i] = @ - 1]
    /\ UNCHANGED <<inode_num, valid, mem, slk, lk_icache, diskVars, callVars,
                   panic>>

\* inode_free of an inode that goes: with lk_icache held the caller enters
\* inode_destroy.
InodeFreeLast(p, i) ==
    /\ HoldsUnlocked(p, i)
    /\ lk_icache = None
    /\ LastOfUnlinked(i)
    /\ lk_icache' = p
    /\ Goto(p, "destroy", i)
    /\ UNCHANGED <<slotVars, mem, slk, diskVars, ftype, refs, panic>>

\* Mutation of Destroyed: the inode is written with its blocks.
DestroyedKeepsBlocks(f) == [f EXCEPT !.type = "FT_UNUSED"]

\* What inode_destroy leaves of the fields: ip->type = FT_UNUSED after
\* inode_free_data.
Destroyed(f) == [f EXCEPT !.type = "FT_UNUSED", !.blocks = 0]

\* inode_destroy, from sleeplock_acquire to sleeplock_release: the blocks
\* of the data are freed, the type is cleared and written, the bit of the
\* inode is cleared (a panic if it was clear), and the slot is not loaded
\* any more.
InodeDestroy(p) ==
    /\ panic = None
    /\ pc[p] = "destroy"
    /\ slk[arg[p]] = None
    /\ mem' = [mem EXCEPT ![arg[p]] = Destroyed(@)]
    /\ dinode' = [dinode EXCEPT ![inode_num[arg[p]]] = Destroyed(mem[arg[p]])]
    /\ dataUsed' = dataUsed - mem[arg[p]].blocks
    /\ IF inode_num[arg[p]] \in ibitmap
         THEN /\ ibitmap' = ibitmap \ {inode_num[arg[p]]}
              /\ valid' = [valid EXCEPT ![arg[p]] = FALSE]
              /\ Goto(p, "destroyed", arg[p])
              /\ UNCHANGED panic
         ELSE /\ panic' = "bit already free"
              /\ UNCHANGED <<ibitmap, valid, pc, arg>>
    /\ UNCHANGED <<inode_num, ref, slk, lk_icache, ftype, refs>>

\* inode_free after inode_destroy: the last reference goes and lk_icache
\* is released.
InodeFreeFinish(p) ==
    /\ panic = None
    /\ pc[p] = "destroyed"
    /\ ref' = [ref EXCEPT ![arg[p]] = @ - 1]
    /\ refs' = [refs EXCEPT ![p][arg[p]] = @ - 1]
    /\ lk_icache' = None
    /\ Goto(p, "idle", None)
    /\ UNCHANGED <<inode_num, valid, mem, slk, diskVars, ftype, panic>>

\* After panic() nothing runs.
Halted == panic # None /\ UNCHANGED vars

Next ==
    \/ \E p \in Procs, type \in {"FT_DIR", "FT_FILE"} : BitmapAllocInode(p, type)
    \/ \E p \in Procs, n \in Inums :
          InodeAllocHit(p, n) \/ InodeAllocMiss(p, n) \/ InodeAllocPanic(p, n)
    \/ \E p \in Procs :
          CreateFill(p) \/ InodeDestroy(p) \/ InodeFreeFinish(p)
    \/ \E p \in Procs, i \in Slots :
          \/ InodeDup(p, i) \/ InodeLock(p, i) \/ InodeUnlock(p, i)
          \/ Link(p, i) \/ Unlink(p, i)
          \/ InodeFreeDrop(p, i) \/ InodeFreeLast(p, i)
    \/ Halted

Spec == Init /\ [][Next]_vars

-----------------------------------------------------------------------------
TypeOK ==
    /\ inode_num \in [Slots -> Inums]
    /\ ref \in [Slots -> 0 .. MaxRefs * Cardinality(Procs)]
    /\ valid \in [Slots -> BOOLEAN]
    /\ mem \in [Slots -> Fields]
    /\ slk \in [Slots -> Procs \cup {None}]
    /\ lk_icache \in Procs \cup {None}
    /\ dinode \in [Inums -> Fields]
    /\ ibitmap \subseteq Inums
    /\ dataUsed \in 0 .. NBlocks
    /\ pc \in [Procs -> {"idle", "created", "fill", "destroy", "destroyed"}]
    /\ arg \in [Procs -> Inums \cup Slots \cup {None}]
    /\ ftype \in [Procs -> Types]
    /\ refs \in [Procs -> [Slots -> 0 .. MaxRefs]]
    /\ panic \in Panics \cup {None}

\* The inode number a caller inside inode_create was given.
Creating(n) == \E p \in Procs :
    \/ pc[p] = "created" /\ arg[p] = n
    \/ pc[p] = "fill" /\ inode_num[arg[p]] = n

\* The number of an inode that exists on the disk.
Live(n) == dinode[n].type # "FT_UNUSED"

\* icache[i].ref is the number of pointers to the slot that inode_alloc,
\* inode_create and inode_dup returned and inode_free has not taken back,
\* whatever the order in which the callers passed through lk_icache.
RefCountExact ==
    \A i \in Slots : ref[i] = SumFunction([p \in Procs |-> refs[p][i]])

\* An inode has one slot: two callers that ask inode_alloc for the same
\* inode share the slot, its sleeplock and its fields.
OneSlotPerInode ==
    \A i, j \in Slots :
        ref[i] > 0 /\ ref[j] > 0 /\ inode_num[i] = inode_num[j] => i = j

\* What a caller sees after inode_lock is the inode of the disk: a slot that
\* is loaded and not locked holds the fields of its inode, also when the
\* slot was used for another inode before (inode_alloc clears valid) and
\* when the inode was changed through another pointer to the slot.
CachedMatchesDisk ==
    \A i \in Slots :
        ref[i] > 0 /\ valid[i] /\ slk[i] = None => mem[i] = dinode[inode_num[i]]

\* The bitmaps say what the inodes say: the bit of an inode is set exactly
\* if the inode is in use or inode_create is about to fill it, and the
\* block bitmap has one bit for every block of the inodes.  inode_create and
\* inode_destroy keep this up although they change the two in separate
\* steps.
BitmapsExact ==
    /\ \A n \in Inums : n \in ibitmap <=> Live(n) \/ Creating(n)
    /\ dataUsed = SumFunction([n \in Inums |-> dinode[n].blocks])

\* No orphan: an inode without links exists only as long as a caller has a
\* pointer to it; the inode_free that drops the last one destroys it, in
\* whatever order path_unlink's nlink-- and the inode_free of the other
\* callers come.
UnlinkedIsReferenced ==
    \A n \in Inums : Live(n) /\ dinode[n].nlink = 0 => InUseFor(n) # {}

\* The pointers to inode number n that are out: the reference counts of its
\* slots, less the caller that has destroyed it and still holds lk_icache.
Held(n) ==
    SumFunction([i \in {j \in Slots : inode_num[j] = n} |-> ref[i]])
      - Cardinality({p \in Procs : pc[p] = "destroyed" /\ inode_num[arg[p]] = n})

L == INSTANCE InodeLife WITH
        Root <- INODE_ROOT,
        used <- ibitmap,
        exists <- {n \in Inums : Live(n)},
        nlink <- [n \in Inums |-> dinode[n].nlink],
        held <- [n \in Inums |-> Held(n)]

\* The slots implement the inodes as module InodeLife tells them: every
\* step of inode_create, inode_alloc, inode_dup, inode_free and
\* inode_destroy, taken by two callers in any order, is a step of one
\* inode or shows nothing.  inode_lock and the recycling of a slot show
\* nothing; inode_free, which tests ref, valid and the nlink of the copy in
\* memory under lk_icache and destroys under the sleeplock, ends an inode
\* exactly with the last pointer to it, once, and as if in one step.
ImplementsInodeLife == L!Spec
=============================================================================
