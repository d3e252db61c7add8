---------------------------- MODULE MCPageTable ----------------------------
(***************************************************************************)
(* Model-checking instances of PageTable: the four levels of Sv48, with    *)
(* two entries each, and too few pages of physical memory for everything   *)
(* at once.  As in the kernel's memory map, map and map_alloc work on      *)
(* separate areas, map_alloc on the pages 2 to 7 and map on the others,    *)
(* below shared tables, and map maps memory of the allocator too (the      *)
(* large page at 0).                                                       *)
(***************************************************************************)
EXTENDS PageTable

Request(v, size, ppn) == [v |-> v, size |-> size, ppn |-> ppn]

\* A page of every size, an address that is not aligned and one out of range.
MCMapRequests ==
    { Request(0, 0, 16), Request(0, 1, 2), Request(8, 2, 20), Request(8, 3, 24),
      Request(1, 1, 16), Request(16, 0, 16) }

SomeAlloc(v, count, size) == [v |-> v, count |-> count, size |-> size]

\* One page, a large page, and an address that is not aligned to its page size.
MCAllocRequests == { SomeAlloc(2, 1, 0), SomeAlloc(4, 1, 1), SomeAlloc(5, 1, 1) }

\* One allocation of two pages.
PairRequests == { SomeAlloc(2, 2, 0) }

\* What the theorems suppose of the requests holds of these.
ASSUME MCSeparate == RequestsSeparate
ASSUME MCSinglePages == AllocRequests = MCAllocRequests => SinglePages
=============================================================================
