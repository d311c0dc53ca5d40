------------------------------ MODULE MCMemory ------------------------------
(***************************************************************************)
(* Memory for TLC: two process slots, pages of two bytes, a kernel region  *)
(* of one whole page and a user region of eleven, room for a heap of three *)
(* pages under an mmap area of three.                                      *)
(***************************************************************************)
EXTENDS Memory

CONSTANTS p0, p1
MCProcs == {p0, p1}

Brk(new) == [fn |-> "brk", new |-> new]
Mmap(start, len) == [fn |-> "mmap", start |-> start, len |-> len]
Munmap(start, len) == [fn |-> "munmap", start |-> start, len |-> len]
Copy(fn, addr, len, nul) == [fn |-> fn, addr |-> addr, len |-> len, nul |-> nul]

\* The tops: a query, below the code, in a page, on a boundary, the top
\* of the heap room, above the stack.
\* The ranges: any start, the middle of the area, bad lengths and starts.
\* The copies: ints and strings in the code page and into the heap, strings
\* with and without an end, and out of the stack into the trapframe.
MCCalls ==
    {Brk(0), Brk(3), Brk(4), Brk(5), Brk(7), Brk(9), Brk(17),
     Mmap(0, 2), Mmap(0, 4), Mmap(12, 2), Mmap(0, 3), Mmap(11, 2), Mmap(0, 8),
     Munmap(10, 2), Munmap(12, 2), Munmap(14, 2), Munmap(10, 4), Munmap(11, 2),
     [fn |-> "fork"], [fn |-> "exit"]}
    \cup {Copy("copyin", 3, 2, {}), Copy("copyout", 17, 0, {}),
          Copy("copyinstr", 2, 0, {3}), Copy("copyinstr", 3, 0, {}),
          Copy("print", 3, 0, {}), Copy("print", 16, 0, {19})}

\* The pages of a region are alike: nothing in Memory tells two of them
\* apart but the region they are of.  The view names every page by its
\* region and the first place it is found at, going through the free
\* lists and then the trapframes, the tables and the entries of the
\* processes, so that two states are one to TLC exactly when a renaming of
\* the pages inside their regions makes them equal.
Places ==
    free["kern"] \o free["user"] \o <<tf[p0], root[p0], tf[p1], root[p1]>>
    \o [i \in 1 .. Cardinality(VAs) |-> pgtbl[p0][i * PGSIZE]]
    \o [i \in 1 .. Cardinality(VAs) |-> pgtbl[p1][i * PGSIZE]]

View ==
    LET at == Places
        kern == RegionPages("kern")
        names == [i \in DOMAIN at |->
                    IF at[i] = 0 THEN <<FALSE, 0>>
                    ELSE <<at[i] \in kern, Min({j \in 1 .. i : at[j] = at[i]})>>]
    IN  <<names, Len(free["kern"]), allocable, pstate, heap_top, mmap, nodes,
          hole, unlisted, ctx, panic>>
=============================================================================
