------------------------------ MODULE MCMemory ------------------------------
(***************************************************************************)
(* Model-checking instances of RangeSetUse and of PhysMem, which uses the  *)
(* RangeSet.  A behaviour is one of a RangeSet under any calls, or one of  *)
(* pmem::init and the allocations after it; in the latter the history of   *)
(* RangeSetUse goes on, so that its properties hold for init() too.        *)
(*                                                                         *)
(* Any calls: four slots and up to four written ranges over the six        *)
(* largest addresses, so that the zeros of a fresh array touch no range,   *)
(* as with the addresses of real memory.                                   *)
(*                                                                         *)
(* init: two-byte pages from page 8 on, with the firmware in the first     *)
(* pages and the kernel behind it, in the middle or at the end of memory;  *)
(* memory in one region, in two that touch, or with a hole; ranges too     *)
(* small for a page.  Four slots are enough for two regions and two cuts.  *)
(***************************************************************************)
EXTENDS PhysMem, RangeSetUse

MCAddresses == 45 .. 50

Region(first, last) == [start |-> first * PAGE_SIZE, end |-> (last + 1) * PAGE_SIZE]

Cut(first, last) == Range_new(first * PAGE_SIZE, (last + 1) * PAGE_SIZE - 1)

Machine(memory, kernel) == [memory |-> memory, blocked |-> <<Cut(8, 9), kernel>>]

MCLayouts ==
    { Machine(<<Region(8, 20)>>, Cut(10, 13)),
      Machine(<<Region(8, 19)>>, Cut(10, 14)),
      Machine(<<Region(8, 18)>>, Cut(12, 15)),
      Machine(<<Region(8, 12), Region(13, 18)>>, Cut(10, 11)),
      Machine(<<Region(14, 17), Region(8, 11)>>, Cut(10, 10)),
      Machine(<<Region(8, 15)>>, Cut(10, 14)),
      Machine(<<Region(8, 15), Region(19, 18)>>, Cut(10, 11)) }

\* A kernel whose end is one page behind a multiple of four pages.
OddLayouts == { Machine(<<Region(8, 19)>>, Cut(10, 12)) }

\* The layouts of the passing run are those that the theorems are about.
ASSUME AlignedHere == /\ \A l \in MCLayouts : Aligned(l)
                      /\ \A l \in OddLayouts : ~ Aligned(l)

MCSizes == {1, 2, 3, 4, 5, 8, 9}

-----------------------------------------------------------------------------
memoryVars == <<vars, physVars, useVars>>

bootVars == <<vars, layout, phase, i, request>>

\* No kernel boots: the RangeSet is used on its own.
Alone == /\ Init
         /\ layout = CHOOSE l \in Layouts : TRUE
         /\ phase = "off"
         /\ i = 1
         /\ request = 0

\* What the loops of init() have inserted and removed so far.
Requested ==
    CASE phase = "memory"  -> Inserted(layout, i - 1)
      [] phase = "blocked" -> TreeBytes \ CutOut(layout, i - 1)
      [] OTHER             -> UsableBytes

\* The history of RangeSetUse in a step of PhysMem.
History == /\ cover' = IF phase' = "panicked" THEN cover ELSE Requested'
           /\ writes' = writes + (IF rs'.idx > rs.idx THEN 1 ELSE 0)
           /\ UNCHANGED <<overlap, cleared>>

MemoryInit == UseInit /\ (Alone \/ PhysInit)

MemoryNext == \/ phase = "off" /\ UseNext /\ UNCHANGED bootVars
              \/ phase # "off" /\ PhysNext /\ History

MemorySpec == MemoryInit /\ [][MemoryNext]_memoryVars
=============================================================================
