---------------------------- MODULE MCInodeData ----------------------------
(***************************************************************************)
(* InodeData for TLC: one entry of addrs for each tier and two words in a  *)
(* block, so that a file of seven blocks uses every tier; two inodes on a  *)
(* bitmap too small for both, so that they compete for the blocks and the  *)
(* bitmap runs out.                                                        *)
(* fs_init boots on a disk with the right superblock or with one of two    *)
(* wrong ones, and its test runs on either inode.                          *)
(***************************************************************************)
EXTENDS FsInit, TLC

CONSTANTS f1, f2

MCFiles == {f1, f2}

Symmetry == Permutations(MCFiles)

\* A block and a half and two blocks: the sizes reach every entry of every
\* tier.
MCLens == {3, 4}

\* The callers write the number of the first data block, which an index
\* block would take for an entry.
MCData == {DATA_START}

\* The run ends where the first index block is lost from the cache or taken
\* over with content: the states after it are those of run
\* inodedata_owned.
UntilFirstDefect == Sound

\* Block 0 after mkfs, with another magic number, and with blocks of
\* another size.
MCSuperBlocks ==
    {[magic |-> FS_MAGIC, block_size |-> E], [magic |-> 0, block_size |-> E],
     [magic |-> FS_MAGIC, block_size |-> 2 * E]}
=============================================================================
