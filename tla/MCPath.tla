------------------------------- MODULE MCPath -------------------------------
(***************************************************************************)
(* Path for TLC: two processes, the root and two more inodes, the block of *)
(* the root and one more directory block.                                  *)
(*                                                                         *)
(* NameCalls (Path.cfg, directories of four entries) make, link and unlink *)
(* a file or a directory "a" of the root, a second name "b" of the file    *)
(* and a file below the directory: two names, two inodes and one           *)
(* directory are what a race for a name, a link count of two and the       *)
(* removal of a directory need.                                            *)
(*                                                                         *)
(* CwdCalls (PathCwd.cfg, directories of three entries) enter a directory  *)
(* and work below it by relative paths, in a root that is full with one    *)
(* name.                                                                   *)
(***************************************************************************)
EXTENDS Path, TLC

CONSTANTS p1, p2

MCProcs == {p1, p2}
Symmetry == Permutations(MCProcs)

Abs(elems) == [abs |-> TRUE, elems |-> elems]
Rel(elems) == [abs |-> FALSE, elems |-> elems]
Create(path, t) == [fn |-> "create", path |-> path, type |-> t]
Unlink(path) == [fn |-> "unlink", path |-> path]

NameCalls ==
    {Create(Abs(<<"a">>), "dir"), Create(Abs(<<"a">>), "file"),
     Create(Abs(<<"a", "b">>), "file"),
     [fn |-> "link", path |-> Abs(<<"a">>), new |-> Abs(<<"b">>)],
     Unlink(Abs(<<"a">>)), Unlink(Abs(<<"b">>)), Unlink(Abs(<<"a", "b">>))}

CwdCalls ==
    {Create(Abs(<<"a">>), "dir"), Create(Abs(<<"b">>), "file"),
     Create(Rel(<<"b">>), "file"),
     [fn |-> "chdir", path |-> Abs(<<"a">>)],
     Unlink(Abs(<<"a">>)), Unlink(Rel(<<"b">>))}

\* The states up to the first defect.
UntilFirstDefect == Sound
=============================================================================
