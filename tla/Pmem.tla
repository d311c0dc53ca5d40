-------------------------------- MODULE Pmem --------------------------------
(***************************************************************************)
(* The physical page allocator of kernel/mem/pmem.c: two regions, one for  *)
(* the kernel and one for user processes, each a list of free pages under  *)
(* a spinlock with the number of pages on it.                              *)
(*                                                                         *)
(* A page is known by its address.  The functions are operators on a       *)
(* record m with the fields free (the list of a region, head first),       *)
(* allocable and panic; the modules that call them make the record from    *)
(* their variables.  What pmem_alloc and pmem_free do outside the spinlock *)
(* (the memset of the page) is done to the one page the caller has and     *)
(* nobody else can reach, so each is one step; the bytes of a page are     *)
(* not modelled.                                                           *)
(***************************************************************************)
EXTENDS Integers, Sequences, FiniteSets, SequencesExt

CONSTANTS
    PGSIZE,         \* bytes of a page
    ALLOC_BEGIN,    \* the first byte after the kernel image
    ALLOC_END,      \* the end of the physical memory
    KERNEL_PAGES    \* pages set apart for the kernel

ASSUME /\ PGSIZE \in Nat \ {0} /\ KERNEL_PAGES \in Nat
       /\ ALLOC_BEGIN \in Nat \ {0} /\ ALLOC_END \in Nat /\ ALLOC_BEGIN <= ALLOC_END

Regions == {"kern", "user"}

PG_ROUND_DOWN(a) == a - (a % PGSIZE)
PG_ROUND_UP(a) == PG_ROUND_DOWN(a + PGSIZE - 1)

\* pmem_init: the kernel region ends KERNEL_PAGES after ALLOC_BEGIN or at
\* the end of the memory, and the user region is what follows.
KernEnd == Min({ALLOC_BEGIN + KERNEL_PAGES * PGSIZE, ALLOC_END})
Begin == [r \in Regions |-> IF r = "kern" THEN ALLOC_BEGIN ELSE KernEnd]
End == [r \in Regions |-> IF r = "kern" THEN KernEnd ELSE ALLOC_END]

\* The pages the loop of region_init puts on the list: the whole pages
\* from the first page boundary in the region.
RegionPages(r) ==
    {a \in Begin[r] .. End[r] : a % PGSIZE = 0 /\ a + PGSIZE <= End[r]}

Pages == RegionPages("kern") \cup RegionPages("user")

\* region_init adds each page at the head: the highest address is first.
RegionInit(r) ==
    LET n == Cardinality(RegionPages(r))
    IN  [i \in 1 .. n |-> PG_ROUND_UP(Begin[r]) + (n - i) * PGSIZE]

\* Mutation of PmemAlloc: an empty region takes from the other one.
PmemAllocAnywhere(m, r) ==
    LET other == CHOOSE o \in Regions : o # r
        from == IF m.free[r] = <<>> THEN other ELSE r
    IN  IF m.free[from] = <<>> THEN [m |-> m, page |-> 0]
        ELSE [m |-> [m EXCEPT !.free[from] = Tail(@), !.allocable[from] = @ - 1],
              page |-> Head(m.free[from])]

\* pmem_alloc: the head of the list, or 0 for NULL.
PmemAlloc(m, r) ==
    IF m.free[r] = <<>> THEN [m |-> m, page |-> 0]
    ELSE [m |-> [m EXCEPT !.free[r] = Tail(@), !.allocable[r] = @ - 1],
          page |-> Head(m.free[r])]

\* pmem_free: a page of the region, put at the head of its list.
PmemFree(m, page, r) ==
    CASE page % PGSIZE # 0 -> [m EXCEPT !.panic = "pmem_free: page not aligned"]
      [] page % PGSIZE = 0 /\ (page < Begin[r] \/ page >= End[r]) ->
            [m EXCEPT !.panic = "pmem_free: page out of region bounds"]
      [] OTHER -> [m EXCEPT !.free[r] = <<page>> \o @, !.allocable[r] = @ + 1]
=============================================================================
