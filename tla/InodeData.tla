----------------------------- MODULE InodeData -----------------------------
(***************************************************************************)
(* The data of an inode in kernel/fs/inode.c: the address table with its   *)
(* three tiers (locate_block, inode_locate_block), inode_read_data,        *)
(* inode_write_data, data_free and inode_free_data, on the block bitmap of *)
(* kernel/fs/bitmap.c.                                                     *)
(*                                                                         *)
(* Every function here is called with the inode's sleeplock held, so an    *)
(* inode is its own sequential caller; the inodes meet in the bitmap and   *)
(* in the buffer cache.  One iteration of the loops of inode_read_data and *)
(* inode_write_data and one data_free of inode_free_data are one step: the *)
(* bitmap functions inside keep the bitmap's buffer locked, and a block    *)
(* in the table of one inode is read and written by that inode only as     *)
(* long as the table is right.                                             *)
(*                                                                         *)
(* A block is E words; an index block holds E block numbers in them and a  *)
(* data block what the caller wrote.  Offsets and lengths count words      *)
(* (BLOCK_SIZE = E).  Of the buffer cache (module BufCache) the module     *)
(* keeps what matters here: a buffer changed and released without          *)
(* buf_write holds content the disk does not have, until the buffer is     *)
(* recycled for another block.                                             *)
(***************************************************************************)
EXTENDS Integers, FiniteSets, Sequences, FiniteSetsExt, SequencesExt

CONSTANTS
    Files,          \* the inodes
    N_ADDRS_1,      \* entries of addrs that name a data block
    N_ADDRS_2,      \* entries that name a block of block numbers
    N_ADDRS_3,      \* entries that name a block of such blocks
    E,              \* ENTRY_PER_BLOCK, and BLOCK_SIZE in words
    NB,             \* bits of the block bitmap
    DATA_START,     \* sb.data_start: the block of bit 0
    UINT,           \* offsets and lengths are computed modulo UINT
    Lens,           \* the lengths callers ask for
    Data,           \* the words callers write
    None

N_ADDRS == N_ADDRS_1 + N_ADDRS_2 + N_ADDRS_3
MaxBlocks == N_ADDRS_1 + N_ADDRS_2 * E + N_ADDRS_3 * E * E
INODE_MAXSIZE == MaxBlocks * E
Bits == 0 .. NB - 1
Blocks == {DATA_START + b : b \in Bits}
Words == 0 .. E - 1
Values == Blocks \cup {0}
Zeroes == [w \in Words |-> 0]

ASSUME /\ IsFiniteSet(Files) /\ E \in Nat \ {0, 1} /\ NB \in Nat \ {0}
       /\ DATA_START \in Nat \ {0}
       /\ INODE_MAXSIZE < UINT
       /\ Lens \subseteq 0 .. UINT - 1 /\ Data \subseteq Values

VARIABLES
    addrs,          \* ip->addrs
    size,           \* ip->size
    bbitmap,        \* the bits of the block bitmap that are set
    disk,           \* the blocks of the disk
    unwritten,      \* the buffers whose content the disk does not have
    op,             \* the call an inode is in: function, offset, len, total
    panic,          \* the message panic() was called with, or None
    evictedDirty,   \* history: a changed buffer was recycled unwritten
    recycledDirty   \* history: a block with content became an index block

vars == <<addrs, size, bbitmap, disk, unwritten, op, panic, evictedDirty,
          recycledDirty>>

Idle == [fn |-> "idle", offset |-> 0, len |-> 0, total |-> 0]

\* buf_read(b)->data after the read: the buffer if the cache has it changed,
\* the disk otherwise.
BufData(cache, b) == IF cache[b] = None THEN disk[b] ELSE cache[b]

-----------------------------------------------------------------------------
(***************************************************************************)
(* The functions that walk the table are operators on a record s of what   *)
(* they change: the bitmap, the changed buffers, and the panic that ends   *)
(* the walk.                                                               *)
(***************************************************************************)
Walk == [bits |-> bbitmap, cache |-> unwritten, panic |-> None,
         recycled |-> recycledDirty]

\* bitmap_alloc_block: the block of the first clear bit; the block is
\* handed out with the content it has.
BitmapAllocBlock(s) ==
    IF Bits \subseteq s.bits
      THEN [blk |-> 0, s |-> [s EXCEPT !.panic = "no bit left"]]
      ELSE LET bit == Min(Bits \ s.bits)
           IN  [blk |-> DATA_START + bit, s |-> [s EXCEPT !.bits = @ \cup {bit}]]

\* bitmap_free_block: the bit of the block is cleared; it is a panic to
\* find it clear.
BitmapFreeBlock(s, b) ==
    IF s.panic # None THEN s
    ELSE IF b - DATA_START \in s.bits
      THEN [s EXCEPT !.bits = @ \ {b - DATA_START}]
      ELSE [s EXCEPT !.panic = "bit already free"]

\* Mutation of NextBn: the quotient for the remainder.
NextBnQuotient(bn, next_size) == bn \div next_size

\* next_bn of locate_block.
NextBn(bn, next_size) == bn % next_size

\* locate_block(entry, bn, size): the block of number bn under an entry
\* that spans size blocks.  A zero entry on the way gets a block from the
\* bitmap; an entry inside an index block is changed in the buffer of the
\* block, and the buffer is released without buf_write.
RECURSIVE LocateBlock(_, _, _, _)
LocateBlock(entry, bn, span, s) ==
    LET a == IF entry = 0 THEN BitmapAllocBlock(s) ELSE [blk |-> entry, s |-> s]
        next_size == span \div E
        at == bn \div next_size
        data == BufData(a.s.cache, a.blk)
        seen == [a.s EXCEPT !.recycled = @ \/ (entry = 0 /\ data # Zeroes)]
        r == LocateBlock(data[at], NextBn(bn, next_size), next_size, seen)
    IN  IF a.s.panic # None \/ span = 1
          THEN [entry |-> a.blk, ret |-> a.blk, s |-> a.s]
          ELSE [entry |-> a.blk, ret |-> r.ret,
                s |-> IF r.entry = data[at] THEN r.s
                      ELSE [r.s EXCEPT !.cache[a.blk] = [data EXCEPT ![at] = r.entry]]]

\* inode_locate_block: the entry of addrs a block number falls under, the
\* number of the block under that entry and the blocks the entry spans;
\* None is the panic for a number past the last tier.
Tier(bn) ==
    LET bn2 == bn - N_ADDRS_1
        bn3 == bn2 - N_ADDRS_2 * E
    IN  CASE bn < N_ADDRS_1 -> [k |-> bn, b |-> bn, span |-> 1]
          [] bn >= N_ADDRS_1 /\ bn2 < N_ADDRS_2 * E ->
                [k |-> N_ADDRS_1 + bn2 \div E, b |-> bn2 % E, span |-> E]
          [] bn2 >= N_ADDRS_2 * E /\ bn3 < N_ADDRS_3 * E * E ->
                [k |-> N_ADDRS_1 + N_ADDRS_2 + bn3 \div (E * E),
                 b |-> bn3 % (E * E), span |-> E * E]
          [] OTHER -> None

InodeLocateBlock(f, bn) ==
    IF Tier(bn) = None
      THEN [entry |-> 0, ret |-> 0, s |-> [Walk EXCEPT !.panic = "overflow"]]
      ELSE LocateBlock(addrs[f][Tier(bn).k], Tier(bn).b, Tier(bn).span, Walk)

\* data_free(block_num, level): the blocks in the order of their
\* bitmap_free_block, the entries of an index block up to its first zero
\* before the block itself.
RECURSIVE FreeOrder(_, _)
FreeOrder(b, level) ==
    IF level = 0 THEN <<b>>
    ELSE LET data == BufData(unwritten, b)
             used == {w \in Words : \A v \in 0 .. w : data[v] # 0}
         IN  FlattenSeq([w \in 1 .. Cardinality(used) |->
                            FreeOrder(data[w - 1], level - 1)]) \o <<b>>

\* The level of the blocks the entries of addrs name.
Level(k) ==
    CASE k < N_ADDRS_1 -> 0
      [] k >= N_ADDRS_1 /\ k < N_ADDRS_1 + N_ADDRS_2 -> 1
      [] OTHER -> 2

\* What a call leaves of the walk.
Walked(s) ==
    /\ bbitmap' = s.bits
    /\ panic' = s.panic
    /\ recycledDirty' = s.recycled

-----------------------------------------------------------------------------
\* mkfs: the inodes have no data, the data blocks are zeroes.
Init ==
    /\ addrs = [f \in Files |-> [k \in 0 .. N_ADDRS - 1 |-> 0]]
    /\ size = [f \in Files |-> 0]
    /\ bbitmap = {}
    /\ disk = [b \in Blocks |-> Zeroes]
    /\ unwritten = [b \in Blocks |-> None]
    /\ op = [f \in Files |-> Idle]
    /\ panic = None
    /\ evictedDirty = FALSE
    /\ recycledDirty = FALSE

Ready(f, fn) == panic = None /\ op[f].fn = fn

\* The two tests of inode_write_data that return 0.
WriteRefused(f, offset, len) ==
    offset > size[f] \/ (offset + len) % UINT > INODE_MAXSIZE

\* inode_write_data returns 0.
WriteReject(f, offset, len) ==
    /\ Ready(f, "idle")
    /\ WriteRefused(f, offset, len)
    /\ UNCHANGED vars

\* inode_write_data enters its loop.
WriteStart(f, offset, len) ==
    /\ Ready(f, "idle")
    /\ ~WriteRefused(f, offset, len)
    /\ op' = [op EXCEPT ![f] = [fn |-> "write", offset |-> offset, len |-> len,
                                total |-> 0]]
    /\ UNCHANGED <<addrs, size, bbitmap, disk, unwritten, panic, evictedDirty,
                   recycledDirty>>

\* Mutation of Chunk: the rest of the block whatever the length asked for.
ChunkUnclamped(o) == E - (o.offset % E)

\* read_len and write_len: the rest of the block or of the request.
Chunk(o) == Min({E - (o.offset % E), o.len - o.total})

Advance(f) ==
    op' = [op EXCEPT ![f].total = @ + Chunk(op[f]), ![f].offset = @ + Chunk(op[f])]

\* One iteration of the loop of inode_write_data: the block is located,
\* the words of src from total on are copied into its buffer, the buffer is
\* written.
WriteStep(f, src) ==
    /\ Ready(f, "write")
    /\ op[f].total < op[f].len
    /\ LET r == InodeLocateBlock(f, op[f].offset \div E)
           from == op[f].offset % E
           new == [w \in Words |->
                     IF w \in from .. from + Chunk(op[f]) - 1
                       THEN src[op[f].total + w - from]
                       ELSE BufData(r.s.cache, r.ret)[w]]
       IN  /\ Walked(r.s)
           /\ IF Tier(op[f].offset \div E) = None
                THEN UNCHANGED addrs
                ELSE addrs' = [addrs EXCEPT ![f][Tier(op[f].offset \div E).k] = r.entry]
           /\ IF r.s.panic = None
                THEN /\ disk' = [disk EXCEPT ![r.ret] = new]
                     /\ unwritten' = [r.s.cache EXCEPT ![r.ret] = None]
                     /\ Advance(f)
                ELSE /\ unwritten' = r.s.cache
                     /\ UNCHANGED <<disk, op>>
    /\ UNCHANGED <<size, evictedDirty>>

\* inode_write_data after the loop: the size grows to the end of what was
\* written, the inode is written.
WriteFinish(f) ==
    /\ Ready(f, "write")
    /\ op[f].total >= op[f].len
    /\ size' = [size EXCEPT ![f] = Max({@, op[f].offset})]
    /\ op' = [op EXCEPT ![f] = Idle]
    /\ UNCHANGED <<addrs, bbitmap, disk, unwritten, panic, evictedDirty,
                   recycledDirty>>

\* Mutation of ReadLen: the length is not cut at the size.
ReadLenUnclamped(f, offset, len) == IF offset > size[f] THEN 0 ELSE len

\* The length inode_read_data reads: nothing past the size.
ReadLen(f, offset, len) ==
    CASE offset > size[f] -> 0
      [] offset <= size[f] /\ (offset + len) % UINT > size[f] -> size[f] - offset
      [] OTHER -> len

\* inode_read_data to its loop.
ReadStart(f, offset, len) ==
    /\ Ready(f, "idle")
    /\ op' = [op EXCEPT ![f] = [fn |-> "read", offset |-> offset,
                                len |-> ReadLen(f, offset, len), total |-> 0]]
    /\ UNCHANGED <<addrs, size, bbitmap, disk, unwritten, panic, evictedDirty,
                   recycledDirty>>

\* The words one iteration of the loop of inode_read_data copies to dst.
ReadChunk(f) ==
    LET r == InodeLocateBlock(f, op[f].offset \div E)
    IN  [i \in 0 .. Chunk(op[f]) - 1 |->
            BufData(r.s.cache, r.ret)[(op[f].offset % E) + i]]

\* One iteration of the loop of inode_read_data: the block is located, as
\* for a write, and copied from.
ReadStep(f) ==
    /\ Ready(f, "read")
    /\ op[f].total < op[f].len
    /\ LET r == InodeLocateBlock(f, op[f].offset \div E)
       IN  /\ Walked(r.s)
           /\ unwritten' = r.s.cache
           /\ IF Tier(op[f].offset \div E) = None
                THEN UNCHANGED addrs
                ELSE addrs' = [addrs EXCEPT ![f][Tier(op[f].offset \div E).k] = r.entry]
           /\ IF r.s.panic = None THEN Advance(f) ELSE UNCHANGED op
    /\ UNCHANGED <<size, disk, evictedDirty>>

\* inode_read_data returns.
ReadFinish(f) ==
    /\ Ready(f, "read")
    /\ op[f].total >= op[f].len
    /\ op' = [op EXCEPT ![f] = Idle]
    /\ UNCHANGED <<addrs, size, bbitmap, disk, unwritten, panic, evictedDirty,
                   recycledDirty>>

\* inode_free_data is called (by inode_destroy).
FreeStart(f) ==
    /\ Ready(f, "idle")
    /\ op' = [op EXCEPT ![f].fn = "free"]
    /\ UNCHANGED <<addrs, size, bbitmap, disk, unwritten, panic, evictedDirty,
                   recycledDirty>>

\* The entries of addrs inode_free_data has yet to free.
ToFree(f) == {k \in 0 .. N_ADDRS - 1 : addrs[f][k] # 0}

\* Mutation of DataFree: the index blocks themselves are kept.
DataFreeLeaves(f) ==
    /\ Ready(f, "free")
    /\ ToFree(f) # {}
    /\ LET k == Min(ToFree(f))
           order == FreeOrder(addrs[f][k], Level(k))
           s == FoldLeft(BitmapFreeBlock, Walk,
                         IF Level(k) = 0 THEN order ELSE Front(order))
       IN  /\ Walked(s)
           /\ addrs' = [addrs EXCEPT ![f][k] = 0]
    /\ UNCHANGED <<size, disk, unwritten, op, evictedDirty>>

\* One round of the loops of inode_free_data: data_free of the next entry
\* in use, and the entry cleared.
DataFree(f) ==
    /\ Ready(f, "free")
    /\ ToFree(f) # {}
    /\ LET k == Min(ToFree(f))
           s == FoldLeft(BitmapFreeBlock, Walk, FreeOrder(addrs[f][k], Level(k)))
       IN  /\ Walked(s)
           /\ addrs' = IF s.panic = None THEN [addrs EXCEPT ![f][k] = 0] ELSE addrs
    /\ UNCHANGED <<size, disk, unwritten, op, evictedDirty>>

\* inode_free_data after the loops: the size is 0, the inode is written.
FreeFinish(f) ==
    /\ Ready(f, "free")
    /\ ToFree(f) = {}
    /\ size' = [size EXCEPT ![f] = 0]
    /\ op' = [op EXCEPT ![f] = Idle]
    /\ UNCHANGED <<addrs, bbitmap, disk, unwritten, panic, evictedDirty,
                   recycledDirty>>

\* buf_read of another block recycles the buffer of block b, which nobody
\* holds: what was changed in it and not written is gone.
Evict(b) ==
    /\ panic = None
    /\ unwritten[b] # None
    /\ unwritten' = [unwritten EXCEPT ![b] = None]
    /\ evictedDirty' = TRUE
    /\ UNCHANGED <<addrs, size, bbitmap, disk, op, panic, recycledDirty>>

\* The offsets callers ask for: the start of the file, its end, and past
\* its end.
Offset(f, at) ==
    CASE at = "start" -> 0
      [] at = "end" -> size[f]
      [] at = "past" -> size[f] + 1

\* After panic() nothing runs.
Halted == panic # None /\ UNCHANGED vars

Next ==
    \/ \E f \in Files, len \in Lens, at \in {"start", "end", "past"} :
          \/ WriteReject(f, Offset(f, at), len)
          \/ WriteStart(f, Offset(f, at), len)
          \/ ReadStart(f, Offset(f, at), len)
    \/ \E f \in Files, word \in Data : WriteStep(f, [i \in 0 .. UINT |-> word])
    \/ \E f \in Files :
          \/ WriteFinish(f) \/ ReadStep(f) \/ ReadFinish(f)
          \/ FreeStart(f) \/ DataFree(f) \/ FreeFinish(f)
    \/ \E b \in Blocks : Evict(b)
    \/ Halted

Spec == Init /\ [][Next]_vars

-----------------------------------------------------------------------------
TypeOK ==
    /\ addrs \in [Files -> [0 .. N_ADDRS - 1 -> Values]]
    /\ size \in [Files -> 0 .. INODE_MAXSIZE]
    /\ bbitmap \subseteq Bits
    /\ disk \in [Blocks -> [Words -> Values]]
    /\ unwritten \in [Blocks -> [Words -> Values] \cup {None}]
    /\ \A f \in Files :
          /\ op[f].fn \in {"idle", "write", "read", "free"}
          /\ op[f].offset \in 0 .. UINT + INODE_MAXSIZE
          /\ op[f].len \in 0 .. UINT - 1
          /\ op[f].total \in 0 .. op[f].len
    /\ panic = None \/ panic \in STRING
    /\ evictedDirty \in BOOLEAN /\ recycledDirty \in BOOLEAN

\* The ways from addrs to a block: every block under block b of a level, b
\* included, with the entries that lead to it.
RECURSIVE Under(_, _, _)
Under(b, level, way) ==
    {<<way, b>>} \cup
    IF level = 0 THEN {}
    ELSE UNION {Under(BufData(unwritten, b)[w], level - 1, Append(way, w)) :
                   w \in {v \in Words : BufData(unwritten, b)[v] # 0}}

\* The blocks of all the inodes, by the ways to them.
Owned ==
    UNION {Under(addrs[x[1]][x[2]], Level(x[2]), x) :
              x \in {y \in Files \X (0 .. N_ADDRS - 1) : addrs[y[1]][y[2]] # 0}}

\* The table by its definition: the block of number bn of an inode, found
\* by the digits of bn in base E, or 0.
RECURSIVE Follow(_, _)
Follow(b, digits) ==
    IF b = 0 \/ digits = <<>> THEN b
    ELSE Follow(BufData(unwritten, b)[Head(digits)], Tail(digits))

Lookup(f, bn) ==
    LET bn2 == bn - N_ADDRS_1
        bn3 == bn2 - N_ADDRS_2 * E
    IN  CASE bn < N_ADDRS_1 -> addrs[f][bn]
          [] bn >= N_ADDRS_1 /\ bn2 < N_ADDRS_2 * E ->
                Follow(addrs[f][N_ADDRS_1 + bn2 \div E], <<bn2 % E>>)
          [] OTHER ->
                Follow(addrs[f][N_ADDRS_1 + N_ADDRS_2 + bn3 \div (E * E)],
                       <<(bn3 \div E) % E, bn3 % E>>)

\* The blocks a size takes.
BlocksOf(n) == (n + E - 1) \div E

\* Index blocks are neither lost from the cache unwritten nor taken over
\* with the content they had.
Sound == ~evictedDirty /\ ~recycledDirty

\* The bitmap and the tables agree: a block whose bit is set is in the
\* table of one inode, once, and the bit of every block in a table is set.
\* inode_write_data and inode_free_data of different inodes allocate and
\* free, tier by tier, in any order.
BlocksOwnedOnce ==
    LET owned == Owned
    IN  /\ \A x, y \in owned : x[2] = y[2] => x = y
        /\ bbitmap = {x[2] - DATA_START : x \in owned}

\* BlocksOwnedOnce, as long as no index block was lost from the cache with
\* the entries locate_block had set in it and no block was made an index
\* block with the content it had: locate_block, data_free and the bitmap
\* keep the tables right otherwise.
SoundTables == Sound => BlocksOwnedOnce

\* The file the tables stand for: the words of the blocks the table has
\* for the block numbers below the size, and below the offset a write has
\* reached; None where the table has no block.  An inode whose data is
\* being freed has none.
Reach(f) ==
    CASE op[f].fn = "free" -> 0
      [] op[f].fn = "write" -> Max({size[f], op[f].offset})
      [] OTHER -> size[f]

FileWord(f, i) ==
    LET b == Lookup(f, i \div E)
    IN  IF b = 0 THEN None ELSE BufData(unwritten, b)[i % E]

FileContent == [f \in Files |-> [i \in 1 .. Reach(f) |-> FileWord(f, i - 1)]]

F == INSTANCE File WITH content <- FileContent, MaxWrite <- E

\* The address tables implement files (module File, up to the first index
\* block lost from the cache): as long as no index block is lost,
\* the steps of inode_write_data and inode_free_data, with the walks of
\* locate_block and the bitmap below them, change the words they are asked
\* to and no other word of any inode: no block number is left without a
\* block, no two share one, a walk ends at the block of its number, and
\* inode_read_data, which walks the same way, changes nothing.
ImplementsFile == F!Init /\ [][Sound' => F!Next]_FileContent
=============================================================================
