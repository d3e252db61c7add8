------------------------------ MODULE PhysMem ------------------------------
(***************************************************************************)
(* crates/kernel/src/pmem.rs: how the memory of the device tree becomes    *)
(* the memory of the global buddy allocator, and the calls the kernel      *)
(* makes on it afterwards.  init() collects the memory regions in a        *)
(* RangeSet, cuts out the firmware and the kernel, and adds what is left.  *)
(* Addresses are bytes; the allocator works on pages of PAGE_SIZE bytes.   *)
(* Calls run under the PHYS_MEM mutex, one at a time.  The boot code       *)
(* unwraps the result of init(), so that every error there is a panic.     *)
(***************************************************************************)
EXTENDS Buddy, RangeSet

CONSTANTS Layouts,  \* [memory |-> sequence of [start, end), blocked |-> sequence of Range]
          Sizes     \* the byte sizes that are requested

\* Regions that have an end (the code subtracts one from it) above the largest
\* block: RAM is at 0x8000_0000, the largest block is 8 MiB.
ASSUME LayoutsAssumption ==
    \A l \in Layouts :
        /\ l.memory \in Seq([start : 0 .. UsizeMax, end : 1 .. UsizeMax])
        /\ l.blocked \in Seq([start : 0 .. UsizeMax, end : 0 .. UsizeMax])
        /\ \A k \in DOMAIN l.memory : l.memory[k].start >= 2^MAX_ORDER * PAGE_SIZE

\* A page has a power of two of bytes (4096).
ASSUME SizesAssumption == Sizes \subseteq Nat /\ \E p \in 0 .. PAGE_SIZE : PAGE_SIZE = 2^p

VARIABLES layout,   \* the machine the kernel boots on
          phase,    \* where init() is; then "up", or "panicked"
          i,        \* the iterator of the running try_for_each
          request   \* bytes that the last allocation asked for

physVars == <<layout, phase, i, rs, work, request>>
allVars == <<vars, physVars>>

PhysInit == /\ Init
            /\ SetInit
            /\ layout \in Layouts
            /\ phase = "memory"
            /\ i = 1
            /\ request = 0

\* The next range of a loop is given to the RangeSet.  An invalid range ends
\* init() with an error; a panic of the RangeSet is the end of everything.
Feed(method, r) ==
    IF r.start > r.end
    THEN phase' = "panicked" /\ UNCHANGED <<rs, work, i>>
    ELSE StartCall(method, r) /\ i' = i + 1 /\ phase' = phase

\* The loop is over.
NextPhase(next) == phase' = next /\ i' = 1 /\ UNCHANGED <<rs, work>>

\* init: insert a region of the tree, as an inclusive range.
InsertMemory ==
    /\ phase = "memory"
    /\ SetIdle
    /\ IF i <= Len(layout.memory)
       THEN Feed("merge", Range_new(layout.memory[i].start, layout.memory[i].end - 1))
       ELSE NextPhase("blocked")
    /\ UNCHANGED <<vars, layout, request>>

\* Mutant of RemoveBlocked: the kernel is forgotten.
RemoveFirmwareOnly ==
    /\ phase = "blocked"
    /\ SetIdle
    /\ IF i <= 1
       THEN Feed("cut", layout.blocked[i])
       ELSE NextPhase("add")
    /\ UNCHANGED <<vars, layout, request>>

\* init: remove a range of get_blocked_ranges: the firmware, then the kernel.
RemoveBlocked ==
    /\ phase = "blocked"
    /\ SetIdle
    /\ IF i <= Len(layout.blocked)
       THEN Feed("cut", layout.blocked[i])
       ELSE NextPhase("add")
    /\ UNCHANGED <<vars, layout, request>>

\* insert and remove_range run.
RunRangeSet == RunSet /\ UNCHANGED <<vars, layout, phase, i, request>>

\* init: hand a range to add_region.  The range's end is inclusive, the one of
\* add_region is not: the last byte, and with it the last page, is left out.
AddToAllocator ==
    /\ phase = "add"
    /\ ret # "NullPointer"
    /\ i <= rs.idx
    /\ rs.ranges[i - 1].start # 0 /\ rs.ranges[i - 1].end # 0
    /\ AddRegion(rs.ranges[i - 1])
    /\ i' = i + 1
    /\ UNCHANGED <<layout, phase, rs, work, request>>

\* init: a null pointer, a range without a whole page or an error of the last
\* add_region ends it.
AddFails ==
    /\ phase = "add"
    /\ Idle
    /\ LET r == rs.ranges[i - 1]
       IN  \/ ret = "NullPointer"
           \/ i <= rs.idx /\ (r.start = 0 \/ r.end = 0 \/ EndPage(r) <= FirstPage(r))
    /\ phase' = "panicked"
    /\ UNCHANGED <<vars, layout, i, rs, work, request>>

\* Mutant of InitReturns: the last range is forgotten.
InitReturnsEarly ==
    /\ phase = "add"
    /\ Idle
    /\ ret # "NullPointer"
    /\ i >= rs.idx
    /\ phase' = "up"
    /\ UNCHANGED <<vars, layout, i, rs, work, request>>

\* init: every range was added.
InitReturns ==
    /\ phase = "add"
    /\ Idle
    /\ ret # "NullPointer"
    /\ i > rs.idx
    /\ phase' = "up"
    /\ UNCHANGED <<vars, layout, i, rs, work, request>>

-----------------------------------------------------------------------------
(* The calls of the running kernel *)

next_power_of_two(n) == 2^(CHOOSE k \in 0 .. n : 2^k >= n /\ \A j \in 0 .. k - 1 : 2^j < n)

trailing_zeros(n) == CHOOSE k \in 0 .. n : n % 2^k = 0 /\ n % 2^(k + 1) # 0

\* Mutant of order_for_size: the size is not rounded up.
order_for_size_down(size) == trailing_zeros(Greater(size, PAGE_SIZE) \div PAGE_SIZE)

\* The order for a size in bytes, for layouts and for the kernel's stacks.
order_for_size(size) ==
    LET pages == next_power_of_two(Greater(size, PAGE_SIZE)) \div PAGE_SIZE
    IN  trailing_zeros(pages)

\* alloc, alloc_order, zalloc_order, and PhysicalAllocator::allocate.
AllocBytes(size) ==
    /\ phase = "up"
    /\ Allocate(order_for_size(size)) \/ AllocateTooLarge(order_for_size(size))
    /\ request' = size
    /\ UNCHANGED <<layout, phase, i, rs, work>>

\* free, free_order and PhysicalAllocator::deallocate, which computes the
\* block's order from the same layout again.
FreeBlock(x) ==
    /\ phase = "up"
    /\ Deallocate(x)
    /\ UNCHANGED physVars

RunAllocator == Run /\ UNCHANGED physVars

PhysNext == \/ InsertMemory \/ RemoveBlocked \/ RunRangeSet
            \/ AddToAllocator \/ AddFails \/ InitReturns
            \/ \E size \in Sizes : AllocBytes(size)
            \/ \E x \in live : FreeBlock(x)
            \/ RunAllocator

PhysSpec == PhysInit /\ [][PhysNext]_allVars

-----------------------------------------------------------------------------
(* Properties *)

Bytes(p) == p * PAGE_SIZE .. (p + 1) * PAGE_SIZE - 1

\* The bytes of the first n regions of the tree, and of n blocked ranges.
Inserted(l, n) == UNION {l.memory[k].start .. l.memory[k].end - 1 : k \in 1 .. n}
CutOut(l, n) == UNION {l.blocked[k].start .. l.blocked[k].end : k \in 1 .. n}

Usable(l) == Inserted(l, Len(l.memory)) \ CutOut(l, Len(l.blocked))

TreeBytes == Inserted(layout, Len(layout.memory))
BlockedBytes == CutOut(layout, Len(layout.blocked))
UsableBytes == Usable(layout)

\* No stretch of usable memory starts one page behind a multiple of four pages.
\* The code does not ensure this; where it does not hold, blocks reach into
\* memory that is not usable.
Aligned(l) == \A b \in Usable(l) :
    b - 1 \notin Usable(l) => ((b + PAGE_SIZE - 1) \div PAGE_SIZE) % 4 # 1

LayoutsAligned == \A l \in Layouts : Aligned(l)

KnownPages == AllPages(AllBlocks)

\* "memory ranges that must not be used for memory allocation, like the kernel
\* itself and OpenSBI": no page of them is ever free, handed out or in hand,
\* however blocks were split and merged since init().
BlockedStaysBlocked == \A p \in KnownPages : Bytes(p) \cap BlockedBytes = {}

\* The allocator touches only memory that the device tree lists.
InsideTree == \A p \in KnownPages : Bytes(p) \subseteq TreeBytes

\* The pages that lie in usable memory as a whole.
UsablePages == {p \in {b \div PAGE_SIZE : b \in TreeBytes} : Bytes(p) \subseteq UsableBytes}

\* "adding all regions specified in the `/memory` node": once init() is through,
\* every whole page of usable memory is in the allocator.
EveryPageAdded == phase = "up" => UsablePages \subseteq AllPages(seeds)

\* Where init() does lose memory: every page it adds is a whole usable one, and
\* a page that is missing afterwards is the last of a stretch of usable memory
\* (whose last byte the loop of init() hands over as an exclusive end).
OnlyLastPagesMissing ==
    phase = "up" =>
        /\ AllPages(seeds) \subseteq UsablePages
        /\ \A p \in UsablePages \ AllPages(seeds) : (p + 1) * PAGE_SIZE \notin UsableBytes

\* A block holds the bytes that were asked for and one of half the size would
\* not; and a request is refused as too large only when the largest block could
\* not hold it: the round trip through next_power_of_two and trailing_zeros.
OrderFits ==
    /\ call.op \in {"search", "split"} =>
          /\ size_for_order(call.arg) * PAGE_SIZE >= request
          /\ call.arg = 0 \/ size_for_order(call.arg - 1) * PAGE_SIZE < request
    /\ ret = "OrderTooLarge" => size_for_order(MAX_ORDER - 1) * PAGE_SIZE < request
=============================================================================
