-------------------------------- MODULE Path --------------------------------
(***************************************************************************)
(* Directories and paths of kernel/fs/dir.c on the inodes of               *)
(* kernel/fs/inode.c: dir_search_entry, dir_add_entry, dir_delete_entry,   *)
(* dir_get_entries, dir_change, search_inode, path_create_inode,           *)
(* path_link, path_unlink and check_unlink, called by several processes.   *)
(*                                                                         *)
(* A step of a process runs from one inode_lock to the next: inode_lock is *)
(* where a process waits, and what it does to an inode between inode_lock  *)
(* and inode_unlock no other process sees in part.  A lock taken and given *)
(* up inside one step is the guard "the lock is free"; a lock kept across  *)
(* steps is in slk.  inode_alloc before an inode_lock outside any lock is  *)
(* a step of its own, and so is what path_unlink does after it has given   *)
(* up the parent, when others walk the parent and the inode still has its  *)
(* old link count.                                                         *)
(*                                                                         *)
(* Of the inode cache (module Inode) the module keeps the reference count  *)
(* and the valid flag of every inode in use; the fields of an inode are    *)
(* one copy for the slot and the disk.  A path is the sequence of its      *)
(* components, as skip_element cuts them, and whether it starts at the     *)
(* root.  A directory is the block addrs[0] names, NSlots entries.         *)
(***************************************************************************)
EXTENDS Integers, FiniteSets, Sequences, FiniteSetsExt, Functions

CONSTANTS
    Procs,          \* the processes
    N_INUM,         \* bits of the inode bitmap
    INODE_ROOT,     \* the inode of "/"
    NB,             \* bits of the block bitmap
    NSlots,         \* BLOCK_SIZE / sizeof(dirent_t)
    Names,          \* the components of the paths, "." and ".." excluded
    Calls,          \* the calls the processes make
    MaxHeld,        \* the inodes a process keeps from path_create_inode
    UINT16,         \* nlink is computed modulo UINT16
    None

Inums == 0 .. N_INUM - 1
Blocks == 1 .. NB
Slots == 0 .. NSlots - 1
Dots == {".", ".."}
NoEntry == [name |-> None, inum |-> 0]
Entry == [name : Names \cup Dots, inum : Inums] \cup {NoEntry}
Path == [abs : BOOLEAN, elems : Seq(Names \cup Dots)]

ASSUME /\ INODE_ROOT \in Inums /\ NB \in Nat \ {0} /\ NSlots \in Nat \ {0, 1}
       /\ \A c \in Calls : c.fn \in {"create", "link", "unlink", "chdir"}

VARIABLES
    type,           \* ip->type: "unused", "dir" or "file"
    nlink,          \* ip->nlink
    size,           \* ip->size, in entries
    addr,           \* ip->addrs[0]
    valid,          \* ip->valid
    ref,            \* ip->ref
    ibitmap,        \* the inode numbers whose bit is set
    bbitmap,        \* the blocks whose bit is set
    block,          \* the entries in the blocks
    slk,            \* the process that keeps ip->slk across steps, or None
    cwd,            \* myproc()->cwd
    held,           \* the inodes path_create_inode returned, not yet freed
    ctx,            \* where a process is in its call, and its locals
    panic,          \* the message panic() was called with, or None
    lostInode,      \* history: an inode was taken after its destruction
    deadDirEntry    \* history: a name was added to an unlinked directory

fsVars == <<type, nlink, size, addr, valid, ref, ibitmap, bbitmap, block,
            lostInode, deadDirEntry>>
vars == <<fsVars, slk, cwd, held, ctx, panic>>

-----------------------------------------------------------------------------
(***************************************************************************)
(* The functions of inode.c and dir.c that do not wait are operators on a  *)
(* record s of the state they read and change.                             *)
(***************************************************************************)
Fs == [type |-> type, nlink |-> nlink, size |-> size, addr |-> addr,
       valid |-> valid, ref |-> ref, ibitmap |-> ibitmap, bbitmap |-> bbitmap,
       block |-> block, panic |-> None, lost |-> lostInode,
       dead |-> deadDirEntry]

\* inode_alloc: one more reference to the slot in use for i, or a slot
\* that was free, not valid.
InodeAlloc(s, i) ==
    [s EXCEPT !.ref[i] = @ + 1, !.valid[i] = @ /\ s.ref[i] > 0,
              !.lost = @ \/ i \notin s.ibitmap]

InodeDup(s, i) == [s EXCEPT !.ref[i] = @ + 1]

\* inode_lock loads the inode if the slot is not valid.
InodeLock(s, i) == [s EXCEPT !.valid[i] = TRUE]

\* inode_destroy: the block of a directory and the inode go back to the
\* bitmaps; bitmap_unset panics on a bit that is clear.
InodeDestroy(s, i) ==
    LET gone == [s EXCEPT !.bbitmap = @ \ {s.addr[i]}, !.addr[i] = 0,
                          !.size[i] = 0, !.type[i] = "unused",
                          !.ibitmap = @ \ {i}, !.valid[i] = FALSE]
    IN  IF i \in s.ibitmap /\ s.addr[i] \in s.bbitmap \cup {0} THEN gone
        ELSE [gone EXCEPT !.panic = "bit already free"]

\* Mutation of InodeFree: the last reference destroys an inode that has
\* links.
InodeFreeLinked(s, i) ==
    [(IF s.ref[i] = 1 /\ s.valid[i] THEN InodeDestroy(s, i) ELSE s)
        EXCEPT !.ref[i] = @ - 1]

\* Mutation of InodeFree: any reference that goes destroys an unlinked
\* inode.
InodeFreeEarly(s, i) ==
    [(IF s.valid[i] /\ s.nlink[i] = 0 THEN InodeDestroy(s, i) ELSE s)
        EXCEPT !.ref[i] = @ - 1]

\* inode_free: the last reference to a valid inode without links destroys
\* it.
InodeFree(s, i) ==
    [(IF s.ref[i] = 1 /\ s.valid[i] /\ s.nlink[i] = 0
        THEN InodeDestroy(s, i) ELSE s) EXCEPT !.ref[i] = @ - 1]

\* The entries of directory d, and the slots in use.
Entries(s, d) == s.block[s.addr[d]]
Used(s, d) == {k \in Slots : Entries(s, d)[k] # NoEntry}
Named(s, d, name) == {k \in Used(s, d) : Entries(s, d)[k].name = name}

\* dir_search_entry: the inode of the first entry with the name, or None
\* for INODE_NUM_UNUSED.
DirSearchEntry(s, d, name) ==
    IF Named(s, d, name) = {} THEN None
    ELSE Entries(s, d)[Min(Named(s, d, name))].inum

\* Mutation of Adds: the name is not searched for.
AddsUnsearched(s, d, name) == Used(s, d) # Slots

\* dir_add_entry returns an offset: the name is new and a slot is free.
Adds(s, d, name) == Named(s, d, name) = {} /\ Used(s, d) # Slots

\* Mutation of DirAddEntry: the size grows with every entry added.
DirAddEntryGrows(s, d, inum, name) ==
    IF ~Adds(s, d, name) THEN s
    ELSE [s EXCEPT !.block[s.addr[d]][Min(Slots \ Used(s, d))] =
                        [name |-> name, inum |-> inum],
                   !.size[d] = @ + 1]

\* dir_add_entry: the entry goes into the first free slot, and the size of
\* the directory covers it.
DirAddEntry(s, d, inum, name) ==
    IF ~Adds(s, d, name) THEN s
    ELSE LET k == Min(Slots \ Used(s, d))
         IN  [s EXCEPT !.block[s.addr[d]][k] = [name |-> name, inum |-> inum],
                       !.size[d] = Max({@, k + 1}),
                       !.dead = @ \/ (s.nlink[d] = 0 /\ name \notin Dots)]

\* dir_delete_entry: the first entry with the name is zeroed.
DirDeleteEntry(s, d, name) ==
    IF Named(s, d, name) = {} THEN s
    ELSE [s EXCEPT !.block[s.addr[d]][Min(Named(s, d, name))] = NoEntry]

\* dir_get_entries, the number of entries it copies into room for len.
DirGetEntries(s, d, len) == Min({Cardinality(Used(s, d)), len})

\* check_unlink of a directory: three entries refuse, two allow, fewer
\* panic.
CheckUnlink(s, d) ==
    CASE DirGetEntries(s, d, 3) = 3 -> "refuse"
      [] DirGetEntries(s, d, 3) = 2 -> "allow"
      [] OTHER -> "panic"

\* ip->nlink++ and ip->nlink--, in 16 bits.
Links(s, i, by) == [s EXCEPT !.nlink[i] = (@ + by) % UINT16]

\* Mutation of Round: a name that is not found ends the walk with NULL and
\* the inode of the directory neither unlocked nor freed.
RoundKeeps(s, cur, rest, find_parent) ==
    LET t == InodeLock(s, cur)
        inum == DirSearchEntry(t, cur, Head(rest))
        End(u, ret) == [s |-> u, done |-> TRUE, ret |-> ret]
        next == InodeFree(InodeAlloc(t, inum), cur)
    IN  CASE t.type[cur] # "dir" -> End(InodeFree(t, cur), None)
          [] t.type[cur] = "dir" /\ find_parent /\ Tail(rest) = <<>> -> End(t, cur)
          [] t.type[cur] = "dir" /\ ~(find_parent /\ Tail(rest) = <<>>)
             /\ inum = None -> End(t, None)
          [] OTHER -> [s |-> next, done |-> Tail(rest) = <<>>, ret |-> inum]

\* One round of the loop of search_inode with the current inode cur locked:
\* the walk ends with NULL or with the inode asked for, or goes on to the
\* inode of the next component, taken before cur is unlocked and freed.
Round(s, cur, rest, find_parent) ==
    LET t == InodeLock(s, cur)
        inum == DirSearchEntry(t, cur, Head(rest))
        End(u, ret) == [s |-> u, done |-> TRUE, ret |-> ret]
        next == InodeFree(InodeAlloc(t, inum), cur)
    IN  CASE t.type[cur] # "dir" -> End(InodeFree(t, cur), None)
          [] t.type[cur] = "dir" /\ find_parent /\ Tail(rest) = <<>> -> End(t, cur)
          [] t.type[cur] = "dir" /\ ~(find_parent /\ Tail(rest) = <<>>)
             /\ inum = None -> End(InodeFree(t, cur), None)
          [] OTHER -> [s |-> next, done |-> Tail(rest) = <<>>, ret |-> inum]

-----------------------------------------------------------------------------
\* The locals of a process outside a call.
Idle == [pc |-> "idle", call |-> None, cur |-> None, ip |-> None, pip |-> None,
         rest |-> <<>>, name |-> None, inum |-> None]

\* mkfs, the inode cache empty: the root directory with "." and "..".
Init ==
    /\ type = [i \in Inums |-> IF i = INODE_ROOT THEN "dir" ELSE "unused"]
    /\ nlink = [i \in Inums |-> IF i = INODE_ROOT THEN 1 ELSE 0]
    /\ size = [i \in Inums |-> IF i = INODE_ROOT THEN 2 ELSE 0]
    /\ addr = [i \in Inums |-> IF i = INODE_ROOT THEN 1 ELSE 0]
    /\ valid = [i \in Inums |-> FALSE]
    /\ ref = [i \in Inums |-> 0]
    /\ ibitmap = {INODE_ROOT}
    /\ bbitmap = {1}
    /\ block = [b \in Blocks |-> [k \in Slots |->
                  CASE b = 1 /\ k = 0 -> [name |-> ".", inum |-> INODE_ROOT]
                    [] b = 1 /\ k = 1 -> [name |-> "..", inum |-> INODE_ROOT]
                    [] OTHER -> NoEntry]]
    /\ slk = [i \in Inums |-> None]
    /\ cwd = [p \in Procs |-> None]
    /\ held = [p \in Procs |-> [i \in Inums |-> 0]]
    /\ ctx = [p \in Procs |-> Idle]
    /\ panic = None
    /\ lostInode = FALSE
    /\ deadDirEntry = FALSE

Running(p, at) == panic = None /\ ctx[p].pc = at

\* The inode whose sleeplock the next step of p starts by taking.
Wants(p) ==
    CASE ctx[p].pc = "walk" -> ctx[p].cur
      [] ctx[p].pc \in {"c_pip", "l_pip", "u_pip"} -> ctx[p].pip
      [] ctx[p].pc \in {"c_check", "c_fill", "c_undo", "c_dots", "l_ip", "u_ip",
                        "d_ip"} -> ctx[p].ip
      [] OTHER -> None

\* inode_lock returns.
Locks(p) == slk[Wants(p)] = None

Unlock(locks, i) == [locks EXCEPT ![i] = None]
Keep(p, i) == [held EXCEPT ![p][i] = @ + 1]

\* What a step leaves: the state s, the context c of process p, the locks,
\* the inodes kept and the current directories; a step that panics leaves
\* the message.
Becomes(s, p, c, locks, handles, dir) ==
    IF s.panic # None
      THEN panic' = s.panic /\ UNCHANGED <<fsVars, slk, cwd, held, ctx>>
      ELSE /\ type' = s.type /\ nlink' = s.nlink /\ size' = s.size
           /\ addr' = s.addr /\ valid' = s.valid /\ ref' = s.ref
           /\ ibitmap' = s.ibitmap /\ bbitmap' = s.bbitmap /\ block' = s.block
           /\ lostInode' = s.lost /\ deadDirEntry' = s.dead
           /\ ctx' = [ctx EXCEPT ![p] = c]
           /\ slk' = locks /\ held' = handles /\ cwd' = dir
           /\ UNCHANGED panic

\* find_parent of the search_inode a call is in: path_to_pinode for
\* path_create_inode, path_unlink and the new path of path_link.
FindParent(c) ==
    c.call.fn \in {"create", "unlink"} \/ (c.call.fn = "link" /\ c.ip # None)

\* search_inode returned NULL: the call returns, path_link after it has
\* unlocked and freed the inode of the old path.
GiveUp(p, c, s, locks) ==
    IF c.ip = None THEN Becomes(s, p, Idle, locks, held, cwd)
    ELSE Becomes(InodeFree(s, c.ip), p, Idle, Unlock(locks, c.ip), held, cwd)

\* search_inode returned inode ret: where the call goes on.
Arrived(c, ret) ==
    LET d == [c EXCEPT !.cur = None, !.rest = <<>>]
    IN  CASE c.call.fn = "create" -> [d EXCEPT !.pc = "c_pip", !.pip = ret]
          [] c.call.fn = "unlink" -> [d EXCEPT !.pc = "u_pip", !.pip = ret]
          [] c.call.fn = "chdir" -> [d EXCEPT !.pc = "d_ip", !.ip = ret]
          [] c.call.fn = "link" /\ c.ip = None -> [d EXCEPT !.pc = "l_ip", !.ip = ret]
          [] OTHER -> [d EXCEPT !.pc = "l_pip", !.pip = ret]

\* search_inode to its loop: the walk starts with a reference to the root
\* or to the current directory; a path without components ends it at once.
Begin(p, c, s, path, locks) ==
    LET root == path.abs \/ cwd[p] = None
        from == IF root THEN INODE_ROOT ELSE cwd[p]
        t == IF root THEN InodeAlloc(s, INODE_ROOT) ELSE InodeDup(s, cwd[p])
    IN  CASE path.elems # <<>> ->
                Becomes(t, p, [c EXCEPT !.pc = "walk", !.cur = from,
                                        !.rest = path.elems], locks, held, cwd)
          [] path.elems = <<>> /\ FindParent(c) ->
                GiveUp(p, c, InodeFree(t, from), locks)
          [] OTHER -> Becomes(t, p, Arrived(c, from), locks, held, cwd)

\* A process calls path_create_inode, path_link, path_unlink or dir_change.
Call(p, call) ==
    /\ Running(p, "idle")
    /\ call.fn = "create" => SumFunction(held[p]) < MaxHeld
    /\ Begin(p, [Idle EXCEPT !.call = call], Fs, call.path, slk)

\* One round of the loop of search_inode.
Walk(p) ==
    /\ Running(p, "walk") /\ Locks(p)
    /\ LET c == [ctx[p] EXCEPT !.name = Head(ctx[p].rest)]
           r == Round(Fs, c.cur, c.rest, FindParent(c))
       IN  CASE ~r.done -> Becomes(r.s, p, [c EXCEPT !.cur = r.ret, !.rest = Tail(@)],
                                   slk, held, cwd)
             [] r.done /\ r.ret = None -> GiveUp(p, c, r.s, slk)
             [] OTHER -> Becomes(r.s, p, Arrived(c, r.ret), slk, held, cwd)

\* path_create_inode with the parent locked: the name is there and the
\* parent is given up, or bitmap_alloc_inode and inode_alloc of
\* inode_create get a new inode.
CreatePip(p) ==
    /\ Running(p, "c_pip") /\ Locks(p)
    /\ LET c == ctx[p]
           s == InodeLock(Fs, c.pip)
           inum == DirSearchEntry(s, c.pip, c.name)
           new == Min(Inums \ s.ibitmap)
       IN  CASE inum # None ->
                  Becomes(InodeFree(s, c.pip), p,
                          [c EXCEPT !.pc = "c_found", !.inum = inum, !.pip = None],
                          slk, held, cwd)
             [] inum = None /\ Inums \subseteq s.ibitmap ->
                  Becomes([s EXCEPT !.panic = "no bit left"], p, c, slk, held, cwd)
             [] OTHER ->
                  Becomes(InodeAlloc([s EXCEPT !.ibitmap = @ \cup {new}], new), p,
                          [c EXCEPT !.pc = "c_fill", !.ip = new],
                          [slk EXCEPT ![c.pip] = p], held, cwd)

\* path_create_inode takes the inode the name had when the parent was
\* locked.
CreateFound(p) ==
    /\ Running(p, "c_found")
    /\ Becomes(InodeAlloc(Fs, ctx[p].inum), p,
               [ctx[p] EXCEPT !.pc = "c_check", !.ip = ctx[p].inum], slk, held, cwd)

\* path_create_inode returns the inode that was there, or NULL for a
\* directory where none was asked for.
CreateCheck(p) ==
    /\ Running(p, "c_check") /\ Locks(p)
    /\ LET c == ctx[p]
           s == InodeLock(Fs, c.ip)
       IN  IF c.call.type # "dir" /\ s.type[c.ip] = "dir"
             THEN Becomes(InodeFree(s, c.ip), p, Idle, slk, held, cwd)
             ELSE Becomes(s, p, Idle, slk, Keep(p, c.ip), cwd)

\* inode_create from its inode_lock, and dir_add_entry in the parent: the
\* inode is filled, a directory gets the first free block as it is, and
\* the name is added if the parent has room.
CreateFill(p) ==
    /\ Running(p, "c_fill") /\ Locks(p)
    /\ LET c == ctx[p]
           b == Min(Blocks \ bbitmap)
           dir == c.call.type = "dir"
           made == [InodeLock(Fs, c.ip) EXCEPT
                       !.type[c.ip] = c.call.type, !.nlink[c.ip] = 1,
                       !.size[c.ip] = 0, !.addr[c.ip] = IF dir THEN b ELSE 0,
                       !.bbitmap = IF dir THEN @ \cup {b} ELSE @]
           s == DirAddEntry(made, c.pip, c.ip, c.name)
       IN  CASE dir /\ Blocks \subseteq bbitmap ->
                  Becomes([Fs EXCEPT !.panic = "no bit left"], p, c, slk, held, cwd)
             [] ~(dir /\ Blocks \subseteq bbitmap) /\ ~Adds(made, c.pip, c.name) ->
                  Becomes(made, p, [c EXCEPT !.pc = "c_undo"], slk, held, cwd)
             [] ~(dir /\ Blocks \subseteq bbitmap) /\ Adds(made, c.pip, c.name) /\ dir ->
                  Becomes(s, p, [c EXCEPT !.pc = "c_dots"], slk, held, cwd)
             [] OTHER ->
                  Becomes(InodeFree(s, c.pip), p, Idle, Unlock(slk, c.pip),
                          Keep(p, c.ip), cwd)

\* Mutation of CreateUndo: the new inode keeps its link.
CreateUndoLinked(p) ==
    /\ Running(p, "c_undo") /\ Locks(p)
    /\ LET c == ctx[p]
       IN  Becomes(InodeFree(InodeFree(InodeLock(Fs, c.ip), c.ip), c.pip), p, Idle,
                   Unlock(slk, c.pip), held, cwd)

\* path_create_inode, the parent is full: the new inode loses its link and
\* is freed, then the parent.
CreateUndo(p) ==
    /\ Running(p, "c_undo") /\ Locks(p)
    /\ LET c == ctx[p]
           s == InodeFree([InodeLock(Fs, c.ip) EXCEPT !.nlink[c.ip] = 0], c.ip)
       IN  Becomes(InodeFree(s, c.pip), p, Idle, Unlock(slk, c.pip), held, cwd)

\* path_create_inode, a new directory: "." and ".." are added, whatever
\* dir_add_entry returns, and the parent has one more link.
CreateDots(p) ==
    /\ Running(p, "c_dots") /\ Locks(p)
    /\ LET c == ctx[p]
           dot == DirAddEntry(InodeLock(Fs, c.ip), c.ip, c.ip, ".")
           s == Links(DirAddEntry(dot, c.ip, c.pip, ".."), c.pip, 1)
       IN  Becomes(InodeFree(s, c.pip), p, Idle, Unlock(slk, c.pip),
                   Keep(p, c.ip), cwd)

\* path_link with the inode of the old path: a directory ends the call;
\* otherwise the inode stays locked while the new path is walked.
LinkIp(p) ==
    /\ Running(p, "l_ip") /\ Locks(p)
    /\ LET c == ctx[p]
           s == InodeLock(Fs, c.ip)
       IN  IF s.type[c.ip] = "dir"
             THEN Becomes(InodeFree(s, c.ip), p, Idle, slk, held, cwd)
             ELSE Begin(p, c, s, c.call.new, [slk EXCEPT ![c.ip] = p])

\* path_link with the parent of the new path: the name is added and the
\* inode has one more link, or the name is there or the parent full.
LinkPip(p) ==
    /\ Running(p, "l_pip") /\ Locks(p)
    /\ LET c == ctx[p]
           s == InodeLock(Fs, c.pip)
           linked == IF Adds(s, c.pip, c.name)
                       THEN Links(DirAddEntry(s, c.pip, c.ip, c.name), c.ip, 1)
                       ELSE s
       IN  Becomes(InodeFree(InodeFree(linked, c.pip), c.ip), p, Idle,
                   Unlock(slk, c.ip), held, cwd)

\* path_unlink with the parent locked: "." and ".." and a name that is
\* not there end the call; otherwise the inode of the name is taken.
UnlinkPip(p) ==
    /\ Running(p, "u_pip") /\ Locks(p)
    /\ LET c == ctx[p]
           s == InodeLock(Fs, c.pip)
           inum == DirSearchEntry(s, c.pip, c.name)
       IN  IF c.name \in Dots \/ inum = None
             THEN Becomes(InodeFree(s, c.pip), p, Idle, slk, held, cwd)
             ELSE Becomes(InodeAlloc(s, inum), p, [c EXCEPT !.pc = "u_ip", !.ip = inum],
                          [slk EXCEPT ![c.pip] = p], held, cwd)

\* Mutation of ParentLoses: the link of the parent is dropped for files too.
ParentLosesAlways(s, c) == Links(s, c.pip, -1)

\* path_unlink of a directory: pip->nlink--, for the ".." that goes.
ParentLoses(s, c) == IF s.type[c.ip] = "dir" THEN Links(s, c.pip, -1) ELSE s

\* path_unlink with both inodes locked: check_unlink of a directory, then
\* the entry is deleted, the parent of a directory loses a link and is
\* given up, with the inode still locked and its link still counted.
UnlinkIp(p) ==
    /\ Running(p, "u_ip") /\ Locks(p)
    /\ LET c == ctx[p]
           s == InodeLock(Fs, c.ip)
           dir == s.type[c.ip] = "dir"
           check == CheckUnlink(s, c.ip)
           gone == ParentLoses(DirDeleteEntry(s, c.pip, c.name), c)
       IN  CASE dir /\ check = "refuse" ->
                  Becomes(InodeFree(InodeFree(s, c.ip), c.pip), p, Idle,
                          Unlock(slk, c.pip), held, cwd)
             [] dir /\ check = "panic" ->
                  Becomes([s EXCEPT !.panic = "check_unlink"], p, c, slk, held, cwd)
             [] OTHER ->
                  Becomes(InodeFree(gone, c.pip), p,
                          [c EXCEPT !.pc = "u_nlink", !.pip = None],
                          [slk EXCEPT ![c.pip] = None, ![c.ip] = p], held, cwd)

\* path_unlink after the parent is given up: the inode loses its link and
\* is unlocked and freed.
UnlinkNlink(p) ==
    /\ Running(p, "u_nlink")
    /\ LET c == ctx[p]
       IN  Becomes(InodeFree(Links(Fs, c.ip, -1), c.ip), p, Idle,
                   Unlock(slk, c.ip), held, cwd)

\* dir_change with the inode of the path: a directory becomes the current
\* directory, and the one before is freed.
ChdirIp(p) ==
    /\ Running(p, "d_ip") /\ Locks(p)
    /\ LET c == ctx[p]
           s == InodeLock(Fs, c.ip)
       IN  IF s.type[c.ip] # "dir"
             THEN Becomes(InodeFree(s, c.ip), p, Idle, slk, held, cwd)
             ELSE Becomes(IF cwd[p] = None THEN s ELSE InodeFree(s, cwd[p]), p, Idle,
                          slk, held, [cwd EXCEPT ![p] = c.ip])

\* The caller of path_create_inode frees the inode it got.
Close(p, i) ==
    /\ Running(p, "idle") /\ held[p][i] > 0
    /\ Becomes(InodeFree(Fs, i), p, Idle, slk, [held EXCEPT ![p][i] = @ - 1], cwd)

\* Every process sleeps in inode_lock: nothing runs any more.
Hang ==
    /\ panic = None
    /\ \A p \in Procs : Wants(p) # None /\ ~Locks(p)
    /\ UNCHANGED vars

\* After panic() nothing runs.
Halted == panic # None /\ UNCHANGED vars

Next ==
    \/ \E p \in Procs, c \in Calls : Call(p, c)
    \/ \E p \in Procs :
          \/ Walk(p)
          \/ CreatePip(p) \/ CreateFound(p) \/ CreateCheck(p) \/ CreateFill(p)
          \/ CreateUndo(p) \/ CreateDots(p)
          \/ LinkIp(p) \/ LinkPip(p)
          \/ UnlinkPip(p) \/ UnlinkIp(p) \/ UnlinkNlink(p)
          \/ ChdirIp(p)
    \/ \E p \in Procs, i \in Inums : Close(p, i)
    \/ Hang
    \/ Halted

Spec == Init /\ [][Next]_vars

-----------------------------------------------------------------------------
TypeOK ==
    /\ type \in [Inums -> {"unused", "dir", "file"}]
    /\ nlink \in [Inums -> 0 .. UINT16 - 1]
    /\ size \in [Inums -> 0 .. NSlots]
    /\ addr \in [Inums -> Blocks \cup {0}]
    /\ valid \in [Inums -> BOOLEAN]
    /\ ref \in [Inums -> Nat]
    /\ ibitmap \subseteq Inums /\ bbitmap \subseteq Blocks
    /\ block \in [Blocks -> [Slots -> Entry]]
    /\ slk \in [Inums -> Procs \cup {None}]
    /\ cwd \in [Procs -> Inums \cup {None}]
    /\ held \in [Procs -> [Inums -> 0 .. MaxHeld]]
    /\ \A p \in Procs :
          /\ ctx[p].pc \in {"idle", "walk", "c_pip", "c_found", "c_check", "c_fill",
                            "c_undo", "c_dots", "l_ip", "l_pip", "u_pip", "u_ip",
                            "u_nlink", "d_ip"}
          /\ ctx[p].call \in Calls \cup {None}
          /\ {ctx[p].cur, ctx[p].ip, ctx[p].pip, ctx[p].inum} \subseteq Inums \cup {None}
    /\ panic \in {None, "no bit left", "bit already free", "check_unlink"}
    /\ lostInode \in BOOLEAN /\ deadDirEntry \in BOOLEAN

\* The pointers to inode i a process has: the locals of its call, its
\* current directory and what it keeps from path_create_inode.
Pointers(p, i) ==
    held[p][i] + Cardinality({f \in {"cur", "ip", "pip"} : ctx[p][f] = i})
               + (IF cwd[p] = i THEN 1 ELSE 0)

\* The sleeplocks a process keeps from one step to the next.
Keeps(p) ==
    CASE ctx[p].pc \in {"c_fill", "c_undo", "c_dots", "u_ip"} -> {ctx[p].pip}
      [] ctx[p].pc \in {"l_pip", "u_nlink"}
         \/ (ctx[p].pc = "walk" /\ ctx[p].ip # None) -> {ctx[p].ip}
      [] OTHER -> {}

\* The directories, the names of an inode in them and the directories
\* among the entries of a directory; "." and ".." are not names.
Dirs == {d \in ibitmap : type[d] = "dir"}
NamesIn(d) == {k \in Slots : block[addr[d]][k] # NoEntry
                             /\ block[addr[d]][k].name \notin Dots}
NamesOf(i) == {x \in Dirs \X Slots :
                  x[2] \in NamesIn(x[1]) /\ block[addr[x[1]]][x[2]].inum = i}
SubDirs(d) == {k \in NamesIn(d) : type[block[addr[d]][k].inum] = "dir"}

\* No inode was taken after its destruction and no name was added to an
\* unlinked directory.
Sound == ~lostInode /\ ~deadDirEntry

\* Every return of search_inode, path_create_inode, path_link, path_unlink
\* and dir_change, the early ones included, has freed the inodes it took
\* and unlocked the ones it locked: ip->ref counts the pointers the
\* processes have, and a sleeplock is kept by the call that will give it up.
NothingLeaked ==
    /\ \A i \in Inums : ref[i] = SumFunction([p \in Procs |-> Pointers(p, i)])
    /\ \A i \in Inums, p \in Procs : slk[i] = p <=> i \in Keeps(p)

\* ip->nlink is the number of names of the inode, for a directory with the
\* ".." of the directories in it (and the root with its own): creations,
\* links and unlinks of several processes in any order keep the count, seen
\* whenever the inode is unlocked and not about to be undone by
\* path_create_inode.
LinksExact ==
    Sound =>
        \A i \in ibitmap :
            /\ type[i] # "unused" /\ slk[i] = None
            /\ ~\E p \in Procs : ctx[p].pc = "c_undo" /\ ctx[p].ip = i
            => nlink[i] = Cardinality(NamesOf(i))
                          + (IF type[i] = "dir" THEN Cardinality(SubDirs(i)) ELSE 0)
                          + (IF i = INODE_ROOT THEN 1 ELSE 0)

\* With current directories and full directories the two counts of an
\* inode stay exact together: dir_change keeps one reference for the
\* current directory and frees the one before, and the undo of
\* path_create_inode, when dir_add_entry finds the parent full, takes back
\* the link and both references of the inode it made.
CountsExact == NothingLeaked /\ LinksExact

\* A name in a directory is the name of an inode that exists: inode_free
\* destroys no inode that path_unlink has not taken the last name of.
NamesAreLive ==
    Sound =>
        \A d \in Dirs : \A k \in NamesIn(d) :
            LET i == block[addr[d]][k].inum
            IN  i \in ibitmap /\ type[i] # "unused"

\* Names are unique within a directory: dir_add_entry of path_link and of
\* path_create_inode, by processes that race for one name, adds it once.
UniqueNames ==
    \A d \in Dirs : \A k, l \in Slots :
        /\ block[addr[d]][k] # NoEntry /\ block[addr[d]][l] # NoEntry
        /\ block[addr[d]][k].name = block[addr[d]][l].name
        => k = l

\* An inode is destroyed when it has no name and no pointer left, and not
\* before: inode_free of the last reference, after path_unlink of the last
\* name.
DestroyedUnnamed ==
    [][\A i \in ibitmap \ ibitmap' : NamesOf(i)' = {} /\ ref'[i] = 0]_vars

\* Every inode a process has a pointer to exists: path_create_inode
\* returns the inode of a name that is there, and inode_alloc is not given
\* the number of an inode that was destroyed.
ReferencedIsAllocated == \A i \in Inums : ref[i] > 0 => i \in ibitmap

\* The process a process waits for: the one that keeps the sleeplock its
\* next step takes.
WaitsFor(p) == IF Wants(p) = None THEN None ELSE slk[Wants(p)]

RECURSIVE Waited(_, _)
Waited(p, n) == IF n = 0 \/ p = None THEN p ELSE Waited(WaitsFor(p), n - 1)

\* No process waits for a sleeplock that is kept by a process waiting for
\* it, directly or through others: the order in which path_link,
\* path_unlink and path_create_inode lock inodes lets every call return.
NoLockCycle ==
    \A p \in Procs, n \in 1 .. Cardinality(Procs) : Waited(p, n) # p
=============================================================================
