# TLA+ models of WhuOS-xv6

WhuOS-xv6 is a teaching kernel for RISC-V in the style of xv6, kept as one
directory per lab. This directory holds TLA+ specifications of its components,
written from the C sources under `src/`, and the TLC configurations that
check them. `PROJECT.json` is the index: the components, the runs, the source
lines behind every definition, the mutations that show each property can fail,
the findings and the hazards.

## The system

| Part | Source | State | Operations |
|---|---|---|---|
| boot | `whu-oslab-lab{1,3,5,6,7}/kernel/boot/main.c` | `started`, what is initialised, per hart: vector, paging, interrupts | main() of each lab on hart 0 and on the other harts |
| timer | `Doc/os7/dev/timer.c` | `sys_timer.ticks`, `sys_timer.lk` | timer_create, timer_update, timer_get_ticks |
| trap handlers | `lab7/kernel/trap/trap_kernel.c`, `lab4/kernel/trap/trap_user.c` | none of their own | dispatch on scause: timer, external, system call, panic |
| system calls | `lab7/kernel/syscall/sysfunc.c`, `lab5/.../sysfunc.c` | the arguments | sys_brk, sys_mmap, sys_munmap, sys_fork, sys_exit, sys_sleep, sys_print, sys_copyin, sys_copyout, sys_copyinstr |
| physical pages | `lab2/kernel/mem/pmem.c` | two free lists with counts | pmem_init, pmem_alloc, pmem_free |
| user address space | `lab6/kernel/mem/uvm.c` | page table, heap top, list of free mmap regions | uvm_mmap, uvm_munmap, uvm_heap_grow/ungrow, uvm_copy_pgtbl, uvm_destroy_pgtbl, uvm_copyin/out/in_str |
| first process | `lab4/kernel/proc/proc.c`, `lab3/.../proc.c` | proczero, `mycpu()->proc` | proc_pgtbl_init, proc_make_fisrt, myproc |
| sleeplock | `lab/kernel/lib/sleeplock.c`, `lab7/.../sleeplock.c` | locked, pid, the inner spinlock | acquire, release, holding |
| buffer cache | `lab7/kernel/fs/buf.c` | the list in order of use, block_num, buf_ref, content | buf_read, buf_write, buf_release |
| bitmaps | `lab/kernel/fs/bitmap.c` | the inode and the block bitmap | bitmap_alloc_*, bitmap_free_* |
| inode cache | `lab/kernel/fs/inode.c` | slots with ref, valid, the fields; the disk inodes | inode_alloc, create, dup, lock, unlock, free, destroy |
| inode data | `lab/kernel/fs/inode.c` | the address table in three tiers, the index blocks | locate_block, inode_read_data, inode_write_data, inode_free_data |
| directories and paths | `lab7/kernel/fs/dir.c` | directory blocks, current directories | dir_*_entry, search_inode, path_create_inode, path_link, path_unlink, dir_change |
| superblock and fs_init | `lab7/kernel/fs/fs.c` | the superblock copy, the buffers of the self-test | fs_init: the checks of the superblock and the write/read test |

How they interact. The harts boot through main(); hart 0 initialises
everything and releases the others through `started`; in lab7 it ends in
fs_init, which checks the superblock and tests inode_write_data against
inode_read_data. Timer interrupts reach
every hart; hart 0 counts them and wakes the processes that sleep in
sys_sleep. Processes enter the kernel through trap_user_handler. The memory
system calls change a process's page table through uvm.c, which takes pages
from and gives pages to pmem.c. The file system is a stack: dir.c walks paths
over inodes, inode.c keeps inodes in a cache and their data in blocks found
through the address table, both allocate from the bitmaps, every block goes
through the buffer cache, and every inode and buffer is guarded by a
sleeplock.

What is hard in it: processes on several harts interleave at every lock and
every sleep; the buffer cache and the inode cache hand out shared slots with
reference counts that are changed outside the lock that guards the content;
path operations hold several inodes; the page bookkeeping is kept in three
places (free lists, page tables, region lists) that must agree; counters have
a width.

## Modules

| Module | Models | Form |
|---|---|---|
| `Mutex` | what a lock promises: one holder, taken when free | abstract specification |
| `SleepLock`, `MCSleepLock` | sleeplock.c, statement by statement under `lk->lk`, for processes and for a boot context | refines `Mutex` |
| `BufCache`, `MCBufCache` | buf.c with the two critical sections of `lk_buf_cache`, the sleeplock and the disk transfer as separate steps | state machine |
| `InodeLife` | what the inode cache promises: pointers and links counted by inode number, an unlinked inode ends with its last pointer, in one step | abstract specification |
| `Inode`, `MCInode` | the inode cache and the inode bitmap | refines `InodeLife` |
| `File` | what the data of an inode promises: a file is a sequence of words, a write changes the words it writes and no other | abstract specification |
| `InodeData` | the address table, reads, writes and truncation, on the block bitmap and on a buffer cache that forgets unwritten buffers | refines `File` up to the first lost index block |
| `FsInit`, `MCInodeData` | fs_init: the superblock and the self-test, as the first caller of `InodeData` | state machine, extends `InodeData` |
| `Path`, `MCPath` | dir.c, each call cut at every inode_lock and where path_unlink gives up the parent | state machine |
| `Pmem` | pmem.c as operators on the free lists | operators |
| `Memory`, `MCMemory` | uvm.c, the memory system calls, fork, exit and the first process on `Pmem` | state machine, extends `Pmem` |
| `Kernel`, `MCKernel` | main() of the five labs as programs of a hart, the timer, the trap handlers with the trap vector, and sys_sleep | state machine with fairness |

The modules are layered the way the code is. `SleepLock` is shown to
implement `Mutex` (`INSTANCE Mutex WITH ...`, checked as the property
`MutexSpec`); the modules above it use a sleeplock as `Mutex` describes it: a
lock is taken in one step when it is free. `InodeData` is shown to implement
`File` (`INSTANCE File WITH content <- FileContent`, checked as the property
`ImplementsFile`): the content of a file is read off the tables by their
definition (`Lookup`), not by the walk of locate_block, and every step of the
detailed module has to be a write of at most one block, a truncation or no
change of that content. `Inode` is shown to implement `InodeLife`
(`INSTANCE InodeLife WITH held <- [n \in Inums |-> Held(n)], ...`, checked
as the property `ImplementsInodeLife`): the pointers to an inode are the
reference counts of the slots with its number, less the caller that has
destroyed the inode and not yet left inode_free; inode_lock, inode_unlock,
the recycling of a slot and the two ends of inode_free show nothing, and
inode_destroy is the one step in which the last pointer and the inode go.
This is the view `Path` has of the inode cache: counts by inode number and
inode_free as one step. `Inode` keeps of the buffer cache
only the disk inodes; `InodeData` keeps the one thing of it that matters to
the address table, that a buffer changed and released without buf_write is
forgotten when it is recycled; `Path` keeps of the inode cache the reference
count and the valid flag. `Memory` extends `Pmem` and calls its operators from
every action that allocates or frees. `FsInit` extends `InodeData`: the
calls of the self-test are the actions of `InodeData` on the inode of the
test, with the bytes of `str` as the source, and the callers of `InodeData`
run only on a file system that was mounted without the test.

Correspondence with the code. A variable has the name of the field or global
it stands for (`locked`, `pid`, `buf_ref`, `heap_top`, `mmap`, `ticks`,
`started`); an action has the name of the function, and where a function can
be made to wait or be interleaved in the middle it is several actions with a
program counter of the caller between them. `PROJECT.json`, section `map`,
gives the source lines of every definition. Functions that are called by the
code but are not among the sources (`proc_sleep`, `proc_wakeup`,
`proc_yield`, `proc_scheduler`, `proc_fork`, the spinlock, `vm_mappages`,
`vm_unmappages`, `mmap_region_alloc`, `panic`) are modelled from the way
their callers use them and are marked `spec_modelled` there.

## Runs

Each run is `tlc -workers 2 -config <cfg> <module>` in this directory.

| Run | Module, cfg | Properties | Distinct states |
|---|---|---|---|
| `sleeplock` | `MCSleepLock`, `SleepLock.cfg` | TypeOK, HoldingExact, NoLostWakeup, MutexSpec, SleeperWoken | 422 |
| `bufcache` | `MCBufCache`, `BufCache.cfg` | TypeOK, RefCountExact, OneBufferPerBlock, ReferredBufferKeepsBlock, EvictsLeastRecentlyReleased | 986,915 |
| `bufcache_coherence` | `MCBufCache`, `BufCacheCoherence.cfg` | CacheCoherence, violated | |
| `inode` | `MCInode`, `Inode.cfg` | TypeOK, RefCountExact, OneSlotPerInode, CachedMatchesDisk, BitmapsExact, UnlinkedIsReferenced, ImplementsInodeLife | 190,242 |
| `inodedata` | `MCInodeData`, `InodeData.cfg` | FsTypeOK, SoundTables, ImplementsFile, SelfTestPasses, ReadsTheFile | 47,319 |
| `inodedata_owned` | `MCInodeData`, `InodeDataOwned.cfg` | BlocksOwnedOnce, violated | |
| `path` | `MCPath`, `Path.cfg` | TypeOK, NothingLeaked, LinksExact, NamesAreLive, UniqueNames, DestroyedUnnamed | 360,007 |
| `path_cwd` | `MCPath`, `PathCwd.cfg` | CountsExact | 109,142 |
| `path_deadlock` | `MCPath`, `PathDeadlock.cfg` | NoLockCycle, violated | |
| `path_stale_inum` | `MCPath`, `PathStaleInum.cfg` | ReferencedIsAllocated, violated | |
| `memory` | `MCMemory`, `Memory.cfg` | TypeOK, PagesOwnedOnce, MmapListExact, HeapExact, OnlyUserPanics, CopiesAreByteExact | 41,535 |
| `kernel` | `MCKernel`, `Kernel.cfg` | TypeOK, BootBarrier, TicksCountHartZero, SleepLastsNTicks, TickWakesSleeper | 159,483 |

What the passing runs show.

* **sleeplock**: three processes and a boot context on one lock. The sleeplock
  implements a mutex; `sleeplock_holding` is true for the holder and nobody
  else; nobody is asleep on a free lock (the test of `locked` and proc_sleep
  are one critical section of `lk->lk`); every sleeper is woken.
* **bufcache**: `buf_ref` equals the references the callers have, across the
  gap between `ref++` and the sleeplock; a block has at most one buffer; a
  buffer somebody refers to keeps its block; the victim of a miss is the
  buffer released longest ago.
* **inode**: `ref` counts the pointers; an inode has one slot; a loaded,
  unlocked slot equals the disk inode; the bits of the bitmap are the inodes
  that exist; an unlinked inode lives as long as somebody refers to it; the
  slots implement the inodes of `InodeLife`: whatever the order in which two
  callers pass through `lk_icache` and the sleeplock, an inode ends with the
  last pointer to it, once, and a pointer in the hand of a caller is to an
  inode that exists.
* **inodedata**: up to the first index block lost from the cache, the bitmap
  and the tables agree; the tables implement files: a step of a write
  changes the words it was asked to write and no other word of any inode,
  leaves no block number below the size without a block and no two on one
  block; inode_read_data allocates nothing and returns the words of the file
  at its offset; on every disk with the right superblock the self-test of
  fs_init passes all its asserts and reads back the bytes it wrote, across
  the seam of its two writes and, with the one direct entry of the model,
  across the step from the direct entries to the first index block (in the
  kernel the two blocks of the test are both direct entries; the third tier
  is reached by the writes of the run, not by the test).
* **path**, **path_cwd**: up to the first defect of path_create_inode, every
  return path gives back the references and locks it took, `nlink` equals the
  number of names, names are unique within a directory and name live inodes,
  and an inode is destroyed only with its last name and pointer gone. With
  current directories, relative paths and full directories the two counts
  stay exact together (`CountsExact`): dir_change keeps one reference, and
  the undo of path_create_inode takes back what it made.
* **memory**: a page is in exactly one place (a free list, a trapframe, a
  page table root, one mapping of one process); the list of free mmap
  regions is sorted, merged and the exact complement of what is mapped; the
  heap is mapped exactly below `heap_top`; the kernel stops only for lack of
  memory or nodes or for a user address that is not mapped, never through
  its own bookkeeping; the page-wise copies, and sys_copyin's loop over
  them, move the bytes a byte-wise copy would.
* **kernel**: in every lab no hart uses what hart 0 has not initialised, and
  a hart with interrupts on has the trap vector of the mode it runs in
  (trap_user_handler and trap_user_return switch it); `ticks` counts
  the timer interrupts of hart 0, once each; sys_sleep(n) returns after at
  least n ticks also when the counter wraps; every tick makes the sleepers
  runnable.

Every property of a passing run has a mutation in `PROJECT.json`: a small
change of one definition, of the kind a bug in that code would be, under
which TLC finds the property violated.

### Findings

The four runs that are expected to fail state what the code's comments or
`spec.md` promise and show a behaviour of the code that breaks it.

* **bufcache_coherence** (`buf.c:91`): a miss gives the victim its new block
  number and releases `lk_buf_cache` before the data is read from the disk. A
  second buf_read of the same block hits, can take the sleeplock first and
  returns the content of the block cached before.
* **inodedata_owned** (`inode.c:217`): locate_block sets an entry inside an
  index block in the buffer and releases the buffer without buf_write. When
  the buffer is recycled the entry is lost: the block stays allocated and is
  in no table.
* **path_deadlock** (`dir.c:366`): path_link keeps the inode of the old path
  locked while it locks the parent of the new one; path_unlink locks the
  parent, then the inode. Two processes can wait for each other.
* **path_stale_inum** (`dir.c:299`): path_create_inode of an existing name
  unlocks the parent before it takes the inode; an unlink in between destroys
  the inode and the creator gets a destroyed one.

The passing runs of `InodeData` and `Path` stop at the first state in which
one of these defects has happened (`CONSTRAINT UntilFirstDefect`), since what
follows is the subject of the failing run; their properties are stated for the
states before it. `Memory` does the same for the first range that uvm_mmap
maps although no free region contains it.

### Observations without a run

Read in the code while modelling, recorded as hazards with a note or here:

* lab7's sleeplock_acquire reads `myproc()->pid` without the test for
  `myproc() == NULL` that the lab version has; fs_init runs before any process
  exists (`lab7/kernel/lib/sleeplock.c:22`).
* fs_init never unlinks the inode of its test (`fs.c:80`): inode_create
  gives it a link, so inode_unlock_free leaves it and its two blocks
  allocated, one more on every boot of the same disk.
* A user address that is not mapped stops the kernel: uvm_copyin, uvm_copyout
  and uvm_copyin_str panic on it, and sys_copyin, sys_copyout, sys_copyinstr
  and sys_print pass the user's address without a test (`sysfunc.c:131`).
* inode_free calls inode_destroy, which sleeps on a sleeplock and on the disk,
  inside the critical section of the spinlock `lk_icache` (`inode.c:153`).
* A new directory's block is not zeroed: stale bytes are read as entries
  (`dir.c:330`); a process can add a name to a directory that was unlinked
  while it held only a reference (`dir.c:289`).
* `offset + len` of inode_read_data and inode_write_data is computed in
  uint32 (`inode.c:307`).
* uvm_mmap maps a range also when no free region contains it, and sys_mmap,
  sys_munmap and sys_brk do not check their ranges against the layout
  (`uvm.c:145`): sys_brk can grow the heap into the mmap area.
* copy_range does not test the result of pmem_alloc (`uvm.c:26`); the model
  ends such a step in a panic of its own.
* sys_brk computes the growth in uint32 and can return a top other than the
  one asked for; uvm_copyin_str leaves the destination without an end when no
  '\0' is found in maxlen bytes; the copy loops do not test PTE_U.
* The user trap handler of lab4 does not yield on a timer interrupt: a
  process that stays in user mode keeps its hart.

## Bounds

All bounds are constants of the configurations or of the MC modules.

* **SleepLock**: processes 0, 1, 2 and one boot context. Two processes make a
  sleeper meet a holder, three make two sleepers compete after one wakeup.
* **BufCache**: 2 buffers, 3 blocks, 2 callers holding up to `MaxHeld = 2`
  buffers, `MaxVersion = 1` modification of a content. The cache hits, misses,
  recycles and runs out.
* **Inode**: 2 slots, 3 inode numbers, 2 callers with `MaxRefs = 2` pointers
  each, `MaxLink = 2`, `NBlocks = 2` bits of the block bitmap. Slots are
  recycled and run out, the inode bitmap runs out, and the block bitmap runs
  out under an inode_create of a directory, which stops the kernel.
* **InodeData**: one entry of each tier, `E = 2` words in a block, so a file
  of 7 blocks uses all three tiers; `NB = 7` blocks for two inodes, so the
  bitmap runs out in the middle of a walk; lengths 3 and 4 cross a block
  boundary; `UINT = 16` is the scaled width of the offsets. The self-test of
  fs_init is scaled with the block: a write of `E / 2` words, one of
  `E + E / 2`, a read of `2 * E`; bytes are taken modulo `UINT8 = 256`.
  Block 0 holds the right superblock, one with a wrong magic number or one
  with a wrong block size.
* **Path**: 2 processes, the root and 2 more inodes, `NB = 2` directory
  blocks, directories of 4 entries (3 in `path_cwd`, where a directory is
  full after one name), names "a" and "b", `MaxHeld = 1` inode kept per
  process. Two names, two inodes and one subdirectory are what a race for a
  name, a link count of two and the removal of a directory need.
* **Memory**: pages of 2 bytes, one kernel page, 11 user pages (proczero
  takes 4, a fork at least as many, so memory runs out in the middle of fork, of a
  heap growth and of an mmap), room for a heap of 3 pages below an mmap area
  of 3 pages, `N_MMAP = 4` region nodes, `UINT32 = 4` as the scaled width of
  the length sys_brk computes. The calls are listed in `MCMemory`: tops inside
  a page, on a boundary and past the width; ranges at the start, in the middle
  and at the end of the area, aligned and not; copies of mapped and of
  unmapped addresses, with `SIZEOF_INT = 2` so that one int is one page and
  sys_copyin's second int is on the next, strings with and without an end
  within `COPYINSTR_MAX = 3` and `PRINT_MAX = 5` bytes. The configuration uses a
  `VIEW` that names the physical pages by the place they are first met in:
  two states that differ only in which page is where are one state. This is
  exact, because no action and no property depends on the address of a page
  beyond its region and its identity.
* **Kernel**: the five labs, 2 harts, 2 processes, `PRINT_EVERY = 2` ticks
  between two lines of lab3's main, sleeps of 0, 1 and 2 ticks on a counter
  of width `UINT64 = 4`, so the counter wraps while a process sleeps; the
  causes are the interrupts 1, 5 and 9, the ecall and a store page fault. The
  history counter of ticks slept stops at the longest sleep.

Symmetry sets are used where the members are interchangeable (the callers of
`BufCache`, `Inode`, `Path`, the inodes of `InodeData`); not in `SleepLock`
and `Kernel`, which check liveness.

## Fairness

* **SleepLock**: weak fairness of each caller's step, strong fairness of
  taking the inner spinlock. A caller that is not waiting runs; a spinlock is
  free infinitely often and the property needs that a spinning caller gets it
  eventually, which the code's test-and-set loop does not promise by itself
  and the hardware does in practice.
* **Kernel**: strong fairness of hart 0 taking a timer interrupt (the
  interrupt stays pending until the hart's interrupts are on again), strong
  fairness of timer_update getting `sys_timer.lk`, weak fairness of the step
  of sys_sleep that gives the lock up. Nothing is assumed of the scheduler:
  `TickWakesSleeper` says a sleeper becomes runnable, not that it runs.
* The other modules check safety only and assume no fairness.

## Assumptions about the callers

The modules of the file system are checked with every caller the sources
have and with no other; where a module stands alone its callers are these.

* `BufCache.MayRead`: a caller that holds buffers asks for the next in one
  fixed order. The callers that hold one buffer and ask for another are
  locate_block (inode.c:214-217) and data_free (inode.c:357-363), which hold
  an index block and ask for the blocks below it and for the bitmap, never
  the other way round; the model takes the order of the block numbers.
* `Inode.CallsAlloc`: inode_alloc is called with the number inode_create was
  given or with the number of an inode that has links, as a directory entry
  names it. The number that has gone stale between the look-up and the call
  is the finding of run `path_stale_inum`, in `Path`.
* `Inode.InodeDestroy` and a round of `InodeData.WriteStep` are one step
  each, though buf_read may make the caller wait inside them. Every call of
  bitmap.c works under the sleeplock of the bitmap's buffer and a walk
  changes the table of its own locked inode only, so the calls of two inodes
  interleaved inside a round give the states of the rounds one after the
  other, up to which of them gets which block. The runs interleave the
  rounds, not the calls inside one.
* `Memory`: the tops given to sys_brk stay below the mmap area or lie above
  the stack (`MCCalls`). sys_brk accepts a top inside the mmap area;
  `HeapExact` and `OnlyUserPanics` say nothing of a heap that grew into it.
  sys_exit gives the address space back in its own step, as proc_exit (not
  among the sources) is taken to do before the process is gone.
* `Kernel`: the dispatch of a system call and proc_sleep are not among the
  sources; `Syscall` and `SleepCheck` are modelled from sys_sleep's use of
  them, with proc_sleep giving up the lock and sleeping in one step, which
  is what it has to do for `TickWakesSleeper` to hold.

## Not modelled

* The devices (UART, PLIC, virtio disk) and the machine-mode set-up of
  timer_init; the disk is a function from block numbers to content.
* The registers saved and restored by the trap vectors and the contexts of
  swtch; of trap_user_return the model keeps the trap vector it sets.
* The bytes of a page, the levels of the page table below the root (a page
  table is one function from virtual pages to physical pages), the kernel
  page table.
* Printing (`*_print`, `uvm_show_mmaplist`, sb_print); of sys_print the copy
  of the string is modelled, of lab3's main the choice of the ticks it prints.
* sys_wait (proc_wait is not among the sources) and sys_exec, which returns
  -1: the component "system calls" is partly modelled for this reason.
* The sleeplock of lab7 as a module of its own: it is the one of `SleepLock`
  without the boot context; `Path` takes it as `Mutex` describes it.
* The asserts on arguments (a lock held, the type of a directory) are taken
  to hold; `INODE_ROOT` is 0 as in the configurations.

## Plan

Done: the twelve runs above; fs_init as the first caller of `InodeData`;
`InodeData` as an implementation of `File`; `Inode` as an implementation
of `InodeLife`; the
mains of all labs, timer_get_ticks and the trap vector in `Kernel`; the copy
system calls in `Memory`. For later work, in this order:

1. The hazards that have a note and no property yet in `PROJECT.json`; the
   first is the boot context of lab7, where fs_init takes sleeplocks before
   any process exists. Each of them is a property the code violates and
   asks for a configuration of its own, as the four findings have. (`path`
   and `path_cwd` stay two configurations: with the calls of both, TLC
   visits 843,283 states in seven and a half minutes and still has no full
   directory.)
2. The asserts of dir.c and inode.c (a lock held, the type of a directory)
   as panics of `Path` and `Inode`, and a run with paths through "..".
   (A directory is the one block `addrs[0]` in dir.c, which does not call
   inode_read_data or inode_write_data, so `Path` and `InodeData` meet in
   the bitmap only.)
3. The content of a page in `Pmem` and `Memory` (pmem_alloc hands out what
   pmem_free filled, proc_make_fisrt copies initcode), and fs_init on a disk
   that was booted before.
4. `Memory` with the kernel region in use (page-table pages of the lower
   levels) once a caller of `pmem_alloc(true)` is among the sources, and
   sys_wait with proc_exit.
5. A liveness property for the scheduler of `Kernel` (a runnable process gets
   a hart) under lab7's user trap handler, when it is among the sources.
