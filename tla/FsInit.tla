------------------------------- MODULE FsInit -------------------------------
(***************************************************************************)
(* fs_init of kernel/fs/fs.c: the superblock is read from block 0 and      *)
(* checked, then the kernel tests itself: it creates an inode, writes two  *)
(* blocks of bytes in two calls that meet in the middle of the first       *)
(* block, reads them back in one call, and compares.  The calls are those  *)
(* of module InodeData, on an inode of it; fs_init is their only caller    *)
(* while it runs, and it never returns.                                    *)
(*                                                                         *)
(* A file system that was mounted without the test (tpc = "off") is the    *)
(* one of InodeData, with its callers.                                     *)
(***************************************************************************)
EXTENDS InodeData

CONSTANTS
    FS_MAGIC,       \* the magic number fs_init asks for
    SuperBlocks,    \* what block 0 of the disk may hold
    UINT8           \* a byte is computed modulo UINT8

ASSUME /\ UINT8 \in Nat \ {0}
       /\ \A s \in SuperBlocks : {"magic", "block_size"} \subseteq DOMAIN s

VARIABLES
    block0,         \* block SB_BLOCK_NUM of the disk
    sb,             \* the copy of the superblock in memory
    tpc,            \* where fs_init is
    nip,            \* the inode of the test
    ret,            \* what the last call of the test returned
    tmp             \* the words read back

bootVars == <<block0, sb, tpc, nip, ret, tmp>>
allVars == <<vars, bootVars>>

\* The bytes fs_init writes, and the buffer it reads into.
str == [i \in 0 .. 2 * E - 1 |-> i % UINT8]
Blank == [i \in 0 .. 2 * E - 1 |-> 0]

\* The calls of the test: the offset in the file, the length the assert
\* expects to be returned, and where in str the bytes come from.
Test ==
    <<[fn |-> "write", offset |-> 0, len |-> E \div 2, src |-> 0],
      [fn |-> "write", offset |-> E \div 2, len |-> E + E \div 2, src |-> E \div 2],
      [fn |-> "read", offset |-> 0, len |-> 2 * E, src |-> 0]>>

\* Mutation of Src: the second call writes from the start of str again.
SrcFromStart(k) == [i \in 0 .. Test[k].len - 1 |-> str[i]]

\* The source of call k: str, and str + BLOCK_SIZE / 2 for the second.
Src(k) == [i \in 0 .. Test[k].len - 1 |-> str[i + Test[k].src]]

At(where, k) == [at |-> where, k |-> k]
Off == At("off", 0)

-----------------------------------------------------------------------------
\* The kernel boots into fs_init on a disk that may not hold a file system,
\* or has mounted one without the test.
FsInit ==
    /\ Init
    /\ block0 \in SuperBlocks
    /\ \/ tpc = At("sb", 0) /\ sb = None
       \/ /\ tpc = Off /\ sb = block0
          /\ block0.magic = FS_MAGIC /\ block0.block_size = E
    /\ nip = None /\ ret = 0 /\ tmp = Blank

\* buf_read of the superblock, the copy and the two asserts.
ReadSuperBlock ==
    /\ panic = None /\ tpc = At("sb", 0)
    /\ sb' = block0
    /\ panic' = CASE block0.magic # FS_MAGIC -> "fs_init: magic"
                  [] block0.magic = FS_MAGIC /\ block0.block_size # E ->
                        "fs_init: block size"
                  [] OTHER -> None
    /\ tpc' = IF panic' = None THEN At("create", 0) ELSE tpc
    /\ UNCHANGED <<addrs, size, bbitmap, disk, unwritten, op, evictedDirty,
                   recycledDirty, block0, nip, ret, tmp>>

\* inode_init, the bytes of str, inode_create and inode_lock: the test has
\* a new, empty inode.
CreateInode ==
    /\ panic = None /\ tpc = At("create", 0)
    /\ nip' \in Files
    /\ tpc' = At("call", 1)
    /\ UNCHANGED <<vars, block0, sb, ret, tmp>>

\* Call k of the test enters its loop, or returns 0 at once.
TestCall(k) ==
    /\ tpc = At("call", k)
    /\ LET c == Test[k]
           refused == c.fn = "write" /\ WriteRefused(nip, c.offset, c.len)
       IN  /\ CASE c.fn = "read" -> ReadStart(nip, c.offset, c.len)
                [] refused -> WriteReject(nip, c.offset, c.len)
                [] OTHER -> WriteStart(nip, c.offset, c.len)
           /\ tpc' = At(IF refused THEN "assert" ELSE "loop", k)
           /\ ret' = IF refused THEN 0 ELSE ret
    /\ UNCHANGED <<block0, sb, nip, tmp>>

\* One iteration of the loop of call k; a read copies to tmp + total.
TestStep(k) ==
    /\ tpc = At("loop", k)
    /\ \/ WriteStep(nip, Src(k)) /\ UNCHANGED tmp
       \/ /\ ReadStep(nip)
          /\ tmp' = IF panic' # None THEN tmp
                    ELSE [i \in DOMAIN tmp |->
                            IF i - op[nip].total \in DOMAIN ReadChunk(nip)
                              THEN ReadChunk(nip)[i - op[nip].total] ELSE tmp[i]]
    /\ UNCHANGED <<block0, sb, tpc, nip, ret>>

\* Call k returns the bytes it moved.
TestReturn(k) ==
    /\ tpc = At("loop", k)
    /\ ret' = op[nip].total
    /\ WriteFinish(nip) \/ ReadFinish(nip)
    /\ tpc' = At("assert", k)
    /\ UNCHANGED <<block0, sb, nip, tmp>>

\* The assert after call k.
TestAssert(k) ==
    /\ panic = None /\ tpc = At("assert", k)
    /\ panic' = IF ret = Test[k].len THEN None
                ELSE IF Test[k].fn = "write" THEN "inode_write_data: fail"
                ELSE "inode_read_data: fail"
    /\ tpc' = CASE panic' # None -> tpc
                [] panic' = None /\ k < Len(Test) -> At("call", k + 1)
                [] OTHER -> At("free", 0)
    /\ UNCHANGED <<addrs, size, bbitmap, disk, unwritten, op, evictedDirty,
                   recycledDirty, block0, sb, nip, ret, tmp>>

\* inode_unlock_free of an inode with a link, which stays on the disk, and
\* blockcmp: the result is printed.
TestResult ==
    /\ panic = None /\ tpc = At("free", 0)
    /\ tpc' = At(IF tmp = str THEN "SUCCESS" ELSE "FAILED", 0)
    /\ UNCHANGED <<vars, block0, sb, nip, ret, tmp>>

\* while (1) at the end of fs_init.
Spin ==
    /\ tpc.at \in {"SUCCESS", "FAILED"}
    /\ UNCHANGED allVars

\* A step of a caller of InodeData: there is none while fs_init runs.
Mounted == tpc = Off /\ UNCHANGED bootVars

Caller ==
    \/ \E f \in Files, len \in Lens, at \in {"start", "end", "past"} :
          \/ WriteReject(f, Offset(f, at), len) /\ Mounted
          \/ WriteStart(f, Offset(f, at), len) /\ Mounted
          \/ ReadStart(f, Offset(f, at), len) /\ Mounted
    \/ \E f \in Files, word \in Data : WriteStep(f, [i \in 0 .. UINT |-> word]) /\ Mounted
    \/ \E f \in Files :
          \/ WriteFinish(f) /\ Mounted
          \/ ReadStep(f) /\ Mounted
          \/ ReadFinish(f) /\ Mounted
          \/ FreeStart(f) /\ Mounted
          \/ DataFree(f) /\ Mounted
          \/ FreeFinish(f) /\ Mounted

FsNext ==
    \/ Caller
    \/ (\E b \in Blocks : Evict(b)) /\ UNCHANGED bootVars
    \/ Halted /\ UNCHANGED bootVars
    \/ ReadSuperBlock \/ CreateInode \/ TestResult \/ Spin
    \/ \E k \in DOMAIN Test : TestCall(k) \/ TestStep(k) \/ TestReturn(k) \/ TestAssert(k)

FsSpec == FsInit /\ [][FsNext]_allVars

-----------------------------------------------------------------------------
FsTypeOK ==
    /\ TypeOK
    /\ block0 \in SuperBlocks /\ sb \in SuperBlocks \cup {None}
    /\ tpc \in [at : {"off", "sb", "create", "call", "loop", "assert", "free",
                      "SUCCESS", "FAILED"}, k : 0 .. Len(Test)]
    /\ nip \in Files \cup {None}
    /\ ret \in 0 .. 2 * E
    /\ tmp \in [0 .. 2 * E - 1 -> Values]

\* The test of fs_init passes on every disk that holds a file system: as
\* long as no index block is lost from the cache, no assert of fs_init
\* fails, inode_write_data and inode_read_data return the lengths asked
\* for, and the two blocks read back in one call are the bytes the two
\* calls wrote, across the seam in the first block and, with the one direct
\* entry of the model, across the step from the direct entries to the first
\* index block (with the entries of the kernel both blocks are direct).
SelfTestPasses ==
    Sound /\ tpc # Off /\ sb # None /\ sb.magic = FS_MAGIC /\ sb.block_size = E =>
        /\ panic = None
        /\ tpc.at # "FAILED"
        /\ tpc.at = "SUCCESS" => tmp = str

\* inode_read_data reads the file: as long as the tables are sound, an
\* iteration of its loop allocates nothing, although it walks with the
\* locate_block that allocates, and copies the words of the file at the
\* offset it has reached, never the stale words of a block beyond the size
\* or the entries of an index block.
ReadsTheFile ==
    [][\A f \in Files : ReadStep(f) /\ Sound =>
          /\ bbitmap' = bbitmap
          /\ \A i \in DOMAIN ReadChunk(f) :
                ReadChunk(f)[i] = FileContent[f][op[f].offset + i + 1]]_allVars
=============================================================================
