------------------------------ MODULE BufCache ------------------------------
(***************************************************************************)
(* The block buffer cache of kernel/fs/buf.c: N_BLOCK_BUF buffers on one   *)
(* list, kept in order of use, each with the number of the block it caches,*)
(* a reference count and a sleeplock.  The list, block_num and buf_ref are *)
(* guarded by the spinlock lk_buf_cache, so each critical section of       *)
(* buf_read and buf_release is one action; the sleeplock is taken outside  *)
(* it, in a step of its own, and so is the transfer from the disk.         *)
(*                                                                         *)
(* The sleeplock of a buffer is used through what module SleepLock shows   *)
(* it to implement (module Mutex): it is taken in one step when it is free.*)
(*                                                                         *)
(* The content of a block is abstracted to the block it is a content of    *)
(* and a version, which is all the properties tell apart.                  *)
(*                                                                         *)
(* The callers are the processes in file-system code.  A caller may hold   *)
(* several buffers (locate_block holds an index block while it reads the   *)
(* bitmap); like the callers in inode.c and bitmap.c it asks for them in   *)
(* one fixed order, here the order of the block numbers.                   *)
(***************************************************************************)
EXTENDS Integers, FiniteSets, SequencesExt

CONSTANTS
    N_BLOCK_BUF,        \* the number of buffers
    BLOCK_NUM_UNUSED,   \* block_num of a buffer that caches nothing
    Blocks,             \* the block numbers of the disk
    Procs,              \* the callers
    None,               \* no caller, no buffer
    MaxHeld,            \* bound: buffers one caller holds at a time
    MaxVersion          \* bound: the modifications, all contents together

ASSUME /\ N_BLOCK_BUF \in Nat \ {0}
       /\ Blocks \subseteq Nat /\ BLOCK_NUM_UNUSED \notin Blocks
       /\ IsFiniteSet(Blocks) /\ IsFiniteSet(Procs)
       /\ MaxHeld \in Nat /\ MaxVersion \in Nat

Bufs == 0 .. N_BLOCK_BUF - 1

\* What a block or a buffer contains: version ver of the content of block blk.
Content == [blk : Blocks \cup {BLOCK_NUM_UNUSED}, ver : 0 .. MaxVersion]

\* The zeroes of a buffer no block was ever read into.
Zeroes == [blk |-> BLOCK_NUM_UNUSED, ver |-> 0]

VARIABLES
    lru,        \* the list, from head_buf.next to head_buf.prev
    block_num,  \* buf->block_num
    buf_ref,    \* buf->buf_ref
    slk,        \* the holder of buf->slk, or None
    data,       \* buf->data
    disk,       \* the blocks of the disk
    pc,         \* where each caller is in buf_read or buf_release
    bn,         \* the local variable bn of the call a caller is in
    held,       \* the buffers a caller got from buf_read and has to release
    panicked,   \* panic() was called
    released    \* history: the buffers in the order of their last release

vars == <<lru, block_num, buf_ref, slk, data, disk, pc, bn, held, panicked,
          released>>

cacheVars == <<lru, block_num, buf_ref>>
blockVars == <<data, disk>>

-----------------------------------------------------------------------------
\* Mutation of insert_head: the two ends taken for one another.
InsertHeadSwapped(list, b, head_next) ==
    LET rest == SelectSeq(list, LAMBDA x : x # b)
    IN  IF head_next THEN Append(rest, b) ELSE <<b>> \o rest

\* insert_head(buf_node, head_next): the node leaves the list if it is on
\* it and enters at head_buf.next or at head_buf.prev.
InsertHead(list, b, head_next) ==
    LET rest == SelectSeq(list, LAMBDA x : x # b)
    IN  IF head_next THEN <<b>> \o rest ELSE Append(rest, b)

\* The first loop of buf_read: the buffers that cache block blk.
Cached(blk) == {b \in Bufs : block_num[b] = blk}

\* Mutation of Victim: the test of buf_ref dropped.
VictimUnchecked == lru[Len(lru)]

\* The second loop of buf_read: from head_buf.prev towards head_buf.next,
\* the first buffer nobody refers to; None if there is none.
Victim ==
    LET i == SelectLastInSeq(lru, LAMBDA b : buf_ref[b] = 0)
    IN  IF i = 0 THEN None ELSE lru[i]

\* A caller asks for its buffers in the order of their block numbers.
MayRead(p, blk) ==
    /\ ~panicked
    /\ pc[p] = "idle"
    /\ Cardinality(held[p]) < MaxHeld
    /\ \A h \in held[p] : block_num[h] < blk

Goto(p, to, b) ==
    /\ pc' = [pc EXCEPT ![p] = to]
    /\ bn' = [bn EXCEPT ![p] = b]

-----------------------------------------------------------------------------
\* buf_init: every buffer caches nothing, is referred to by nobody and
\* enters the list at head_buf.prev.
Init ==
    /\ lru = FoldLeft(LAMBDA l, b : InsertHead(l, b, FALSE), <<>>,
                      [i \in 1 .. N_BLOCK_BUF |-> i - 1])
    /\ block_num = [b \in Bufs |-> BLOCK_NUM_UNUSED]
    /\ buf_ref = [b \in Bufs |-> 0]
    /\ slk = [b \in Bufs |-> None]
    /\ data = [b \in Bufs |-> Zeroes]
    /\ disk = [k \in Blocks |-> [blk |-> k, ver |-> 0]]
    /\ pc = [p \in Procs |-> "idle"]
    /\ bn = [p \in Procs |-> None]
    /\ held = [p \in Procs |-> {}]
    /\ panicked = FALSE
    /\ released = <<>>

\* Mutation of BufReadHit: the reference not counted.
BufReadHitUncounted(p, blk) ==
    /\ MayRead(p, blk)
    /\ \E b \in Cached(blk) : Goto(p, "hit", b)
    /\ UNCHANGED <<cacheVars, slk, blockVars, held, panicked, released>>

\* buf_read, the block is cached: one more reference, and the caller goes
\* for the sleeplock with lk_buf_cache released.
BufReadHit(p, blk) ==
    /\ MayRead(p, blk)
    /\ \E b \in Cached(blk) :
        /\ buf_ref' = [buf_ref EXCEPT ![b] = @ + 1]
        /\ Goto(p, "hit", b)
    /\ UNCHANGED <<lru, block_num, slk, blockVars, held, panicked, released>>

\* Mutation of BufReadMiss: a buffer is recycled without the search for
\* the block.
BufReadMissUnsearched(p, blk) ==
    /\ MayRead(p, blk)
    /\ Victim # None
    /\ block_num' = [block_num EXCEPT ![Victim] = blk]
    /\ buf_ref' = [buf_ref EXCEPT ![Victim] = 1]
    /\ Goto(p, "miss", Victim)
    /\ UNCHANGED <<lru, slk, blockVars, held, panicked, released>>

\* buf_read, the block is not cached: the victim is given to the block
\* with one reference, and the caller goes for the sleeplock with
\* lk_buf_cache released.
BufReadMiss(p, blk) ==
    /\ MayRead(p, blk)
    /\ Cached(blk) = {}
    /\ Victim # None
    /\ block_num' = [block_num EXCEPT ![Victim] = blk]
    /\ buf_ref' = [buf_ref EXCEPT ![Victim] = 1]
    /\ Goto(p, "miss", Victim)
    /\ UNCHANGED <<lru, slk, blockVars, held, panicked, released>>

\* buf_read, the block is not cached and every buffer is referred to:
\* panic("buf_read: no free buf").
BufReadPanic(p, blk) ==
    /\ MayRead(p, blk)
    /\ Cached(blk) = {}
    /\ Victim = None
    /\ panicked' = TRUE
    /\ UNCHANGED <<cacheVars, slk, blockVars, pc, bn, held, released>>

\* sleeplock_acquire(&bn->buf.slk) of both paths.  On a hit buf_read
\* returns the buffer as it is.
SleeplockAcquire(p) ==
    /\ ~panicked
    /\ pc[p] \in {"hit", "miss"}
    /\ slk[bn[p]] = None
    /\ slk' = [slk EXCEPT ![bn[p]] = p]
    /\ IF pc[p] = "hit"
         THEN /\ Goto(p, "idle", None)
              /\ held' = [held EXCEPT ![p] = @ \cup {bn[p]}]
         ELSE /\ Goto(p, "load", bn[p])
              /\ UNCHANGED held
    /\ UNCHANGED <<cacheVars, blockVars, panicked, released>>

\* virtio_disk_rw(&bn->buf, false) of the miss path; buf_read returns.
DiskRead(p) ==
    /\ ~panicked
    /\ pc[p] = "load"
    /\ data' = [data EXCEPT ![bn[p]] = disk[block_num[bn[p]]]]
    /\ held' = [held EXCEPT ![p] = @ \cup {bn[p]}]
    /\ Goto(p, "idle", None)
    /\ UNCHANGED <<cacheVars, slk, disk, panicked, released>>

\* The holder of a buffer changes its data.
Modify(p, b) ==
    /\ ~panicked
    /\ pc[p] = "idle"
    /\ b \in held[p]
    /\ \A c \in Range(data) \cup Range(disk) : c.ver < MaxVersion
    /\ data' = [data EXCEPT ![b].ver = @ + 1]
    /\ UNCHANGED <<cacheVars, slk, disk, pc, bn, held, panicked, released>>

\* buf_write(buf): the data go to the block the buffer caches.
BufWrite(p, b) ==
    /\ ~panicked
    /\ pc[p] = "idle"
    /\ b \in held[p]
    /\ disk' = [disk EXCEPT ![block_num[b]] = data[b]]
    /\ UNCHANGED <<cacheVars, slk, data, pc, bn, held, panicked, released>>

\* buf_release, first half: sleeplock_release(&buf->slk).
BufReleaseUnlock(p, b) ==
    /\ ~panicked
    /\ pc[p] = "idle"
    /\ b \in held[p]
    /\ slk' = [slk EXCEPT ![b] = None]
    /\ held' = [held EXCEPT ![p] = @ \ {b}]
    /\ Goto(p, "unref", b)
    /\ UNCHANGED <<cacheVars, blockVars, panicked, released>>

\* Mutation of BufReleaseRef: the buffer moves, the count stays.
BufReleaseRefUncounted(p) ==
    /\ ~panicked
    /\ pc[p] = "unref"
    /\ lru' = InsertHead(lru, bn[p], TRUE)
    /\ released' = Append(SelectSeq(released, LAMBDA x : x # bn[p]), bn[p])
    /\ Goto(p, "idle", None)
    /\ UNCHANGED <<block_num, buf_ref, slk, blockVars, held, panicked>>

\* buf_release, second half, under lk_buf_cache: one reference less, and
\* the buffer nobody refers to any more moves to head_buf.next.
BufReleaseRef(p) ==
    /\ ~panicked
    /\ pc[p] = "unref"
    /\ buf_ref' = [buf_ref EXCEPT ![bn[p]] = @ - 1]
    /\ lru' = IF buf_ref'[bn[p]] = 0 THEN InsertHead(lru, bn[p], TRUE) ELSE lru
    /\ released' = Append(SelectSeq(released, LAMBDA x : x # bn[p]), bn[p])
    /\ Goto(p, "idle", None)
    /\ UNCHANGED <<block_num, slk, blockVars, held, panicked>>

\* After panic() nothing runs.
Halted == panicked /\ UNCHANGED vars

Next ==
    \/ \E p \in Procs, blk \in Blocks :
          BufReadHit(p, blk) \/ BufReadMiss(p, blk) \/ BufReadPanic(p, blk)
    \/ \E p \in Procs :
          SleeplockAcquire(p) \/ DiskRead(p) \/ BufReleaseRef(p)
    \/ \E p \in Procs, b \in Bufs :
          Modify(p, b) \/ BufWrite(p, b) \/ BufReleaseUnlock(p, b)
    \/ Halted

Spec == Init /\ [][Next]_vars

-----------------------------------------------------------------------------
TypeOK ==
    /\ lru \in Seq(Bufs) /\ Len(lru) = N_BLOCK_BUF /\ ToSet(lru) = Bufs
    /\ block_num \in [Bufs -> Blocks \cup {BLOCK_NUM_UNUSED}]
    /\ buf_ref \in [Bufs -> 0 .. Cardinality(Procs)]
    /\ slk \in [Bufs -> Procs \cup {None}]
    /\ data \in [Bufs -> Content]
    /\ disk \in [Blocks -> Content]
    /\ pc \in [Procs -> {"idle", "hit", "miss", "load", "unref"}]
    /\ bn \in [Procs -> Bufs \cup {None}]
    /\ held \in [Procs -> SUBSET Bufs]
    /\ panicked \in BOOLEAN
    /\ released \in Seq(Bufs)

\* The callers that refer to buffer b: they hold it, or are between the
\* two critical sections of buf_read or of buf_release with it.
Referrers(b) == {p \in Procs : b \in held[p] \/ bn[p] = b}

\* buf_ref counts the callers that refer to the buffer, although buf_read
\* counts before it has the sleeplock and buf_release after it has given
\* it up: no reference is counted twice or lost in between.
RefCountExact ==
    \A b \in Bufs : buf_ref[b] = Cardinality(Referrers(b))

\* A block is cached in one buffer at most: the search for the block and
\* the choice of the victim in buf_read are one critical section, so two
\* callers that miss the same block do not both recycle a buffer for it.
OneBufferPerBlock ==
    \A a, b \in Bufs :
        block_num[a] = block_num[b] /\ block_num[a] # BLOCK_NUM_UNUSED => a = b

\* buf_read recycles no buffer somebody holds, waits for or still has to
\* drop its reference to: such a buffer keeps its block.
ReferredBufferKeepsBlock ==
    [][\A b \in Bufs : Referrers(b) # {} \/ slk[b] # None
                            => block_num'[b] = block_num[b]]_vars

\* a was released before b, or never while b was.
ReleasedBefore(a, b) ==
    /\ b \in ToSet(released)
    /\ a \in ToSet(released) =>
           SelectInSeq(released, LAMBDA x : x = a)
               < SelectInSeq(released, LAMBDA x : x = b)

\* The buffer buf_read recycles is the least recently released of those
\* nobody refers to: buf_release moves to one end of the list, buf_read
\* searches from the other.
EvictsLeastRecentlyReleased ==
    [][\A b \in Bufs : block_num'[b] # block_num[b] =>
          ~ \E a \in Bufs \ {b} : buf_ref[a] = 0 /\ ReleasedBefore(a, b)]_vars

\* What buf_read returns is a content of the block that was asked for, as
\* the comment of buf_read promises ("find it, lock it and return it", or
\* "read the block from the disk, lock it and return it").
CacheCoherence ==
    \A p \in Procs : \A b \in held[p] : data[b].blk = block_num[b]
=============================================================================
