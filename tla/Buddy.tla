------------------------------- MODULE Buddy -------------------------------
(***************************************************************************)
(* `BuddyAllocator` of crates/kernel/src/allocator/buddy.rs.  Addresses    *)
(* are page numbers (the code's addresses divided by PAGE_SIZE) once a     *)
(* region has been page aligned.  A call runs with exclusive access to the *)
(* allocator (`&mut self`); each level of its recursion, and each turn of  *)
(* its loop, is one step, with the frame's locals in `call`.  The free     *)
(* lists are LIFO linked lists threaded through the free blocks.           *)
(***************************************************************************)
EXTENDS Integers, Sequences, FiniteSets

CONSTANTS MAX_ORDER,  \* orders 0 .. MAX_ORDER - 1 exist
          PAGE_SIZE,  \* bytes per page
          Regions     \* byte regions [start, end) that are added, once each

ASSUME OrderAssumption == MAX_ORDER \in Nat \ {0} /\ PAGE_SIZE \in Nat \ {0}

Orders == 0 .. MAX_ORDER - 1

\* Arithmetic facts about the sizes in use: they double from order to order
\* and all are below the size of MAX_ORDER.
ASSUME PowersOfTwo ==
    /\ \A o \in Orders : /\ 2^o \in Nat \ {0}
                         /\ 2^(o + 1) = 2 * 2^o
                         /\ 2^o < 2^MAX_ORDER
    /\ 2^0 = 1

\* allocator.rs: align_up, here in pages; a partial last page is not used.
FirstPage(r) == (r.start + PAGE_SIZE - 1) \div PAGE_SIZE
EndPage(r) == r.end \div PAGE_SIZE

RegionPages(r) == FirstPage(r) .. EndPage(r) - 1

\* No region starts one page behind a multiple of four pages.  The code does not
\* ensure this; where it does not hold, blocks overlap.
RegionsAligned == \A r \in Regions : FirstPage(r) < EndPage(r) => FirstPage(r) % 4 # 1

\* The safety contract of add_region (regions do not overlap), and memory that
\* starts above the largest block: RAM is at 0x8000_0000, the largest block is
\* 8 MiB, so that no buddy of a block is the null page.
ASSUME RegionsAssumption ==
    /\ \A r \in Regions : /\ r.start \in Nat /\ r.end \in Nat
                          /\ FirstPage(r) \in Nat /\ EndPage(r) \in Nat
                          /\ FirstPage(r) >= 2^MAX_ORDER
    /\ \A q, r \in Regions : q # r => RegionPages(q) \cap RegionPages(r) = {}

VARIABLES orders,  \* orders[o]: the free list of order o
          stats,   \* AllocStats, in pages
          call,    \* the running call: op, block, cur(rent order), arg(ument)
          ret,     \* how the last call returned
          live,    \* blocks handed out and not given back (the callers')
          added,   \* regions add_region was called with
          seeds    \* blocks that add_region put into the free lists

vars == <<orders, stats, call, ret, live, added, seeds>>

NoCall == [op |-> "idle", block |-> 0, cur |-> 0, arg |-> 0]

Block(b, o) == [block |-> b, order |-> o]

Pages(x) == x.block .. (x.block + 2^x.order - 1)

-----------------------------------------------------------------------------
(* Helpers *)

size_for_order(order) == 2^order

\* block ^ size: the bit of the size is flipped.
buddy_of(block, order) == IF (block \div 2^order) % 2 = 0
                          THEN block + size_for_order(order)
                          ELSE block - size_for_order(order)

order_push(lists, order, block) == [lists EXCEPT ![order] = <<block>> \o @]

order_pop(lists, order) == [lists EXCEPT ![order] = Tail(@)]

\* Mutant of InList: only the first entry is compared.
InListHead(s, block) == s # <<>> /\ Head(s) = block

InList(s, block) == \E i \in DOMAIN s : s[i] = block

\* order_remove unlinks the first entry that is the block.
FirstAt(s, block) == CHOOSE i \in DOMAIN s :
                        s[i] = block /\ \A j \in 1 .. i - 1 : s[j] # block

order_remove(lists, order, block) ==
    LET s == lists[order]
        k == FirstAt(s, block)
    IN  [lists EXCEPT ![order] =
            [i \in 1 .. Len(s) - 1 |-> IF i < k THEN s[i] ELSE s[i + 1]]]

\* `free` and `allocated` are moved against each other.
alloc_stats(s, size) == [s EXCEPT !.free = @ - size, !.allocated = @ + size]

\* Mutant of dealloc_stats: `allocated` is forgotten.
dealloc_stats_free(s, size) == [s EXCEPT !.free = @ + size]

dealloc_stats(s, size) == [s EXCEPT !.free = @ + size, !.allocated = @ - size]

Return(result) == call' = NoCall /\ ret' = result

-----------------------------------------------------------------------------
(* add_region *)

Idle == call.op = "idle"

\* The code's loop tests the sizes of the orders 1, 2, ... : the block must
\* fit and its buddy must lie between the start and the end of the region.
Grows(start, end, order) ==
    /\ start + size_for_order(order) <= end
    /\ start <= buddy_of(start, order)
    /\ buddy_of(start, order) <= end

region_order(start, end) ==
    CHOOSE k \in Orders : /\ \A j \in 1 .. k : Grows(start, end, j)
                          /\ k = MAX_ORDER - 1 \/ ~ Grows(start, end, k + 1)

\* The loop's `?`: the next order fits, but the block's buddy is the null page.
NullBuddy(start, end) ==
    LET next == region_order(start, end) + 1
    IN  /\ next < MAX_ORDER
        /\ start + size_for_order(next) <= end
        /\ buddy_of(start, next) = 0

\* add_region: too little memory for a page is an error.
AddRegionTooSmall(r) ==
    /\ Idle
    /\ r \notin added
    /\ EndPage(r) <= FirstPage(r)
    /\ added' = added \cup {r}
    /\ ret' = "RegionTooSmall"
    /\ UNCHANGED <<orders, stats, call, live, seeds>>

AddRegion(r) ==
    /\ Idle
    /\ r \notin added
    /\ FirstPage(r) < EndPage(r)
    /\ added' = added \cup {r}
    /\ call' = [op |-> "add", block |-> FirstPage(r), cur |-> 0, arg |-> EndPage(r)]
    /\ ret' = "none"
    /\ UNCHANGED <<orders, stats, live, seeds>>

\* add_single_region, and the test of add_region's loop.
AddSingleRegion ==
    /\ call.op = "add"
    /\ LET order == region_order(call.block, call.arg)
           size  == size_for_order(order)
           start == call.block + size
       IN  IF NullBuddy(call.block, call.arg)
           THEN Return("NullPointer") /\ UNCHANGED <<orders, stats, seeds>>
           ELSE /\ orders' = order_push(orders, order, call.block)
                /\ stats' = [stats EXCEPT !.total = @ + size, !.free = @ + size]
                /\ seeds' = seeds \cup {Block(call.block, order)}
                /\ IF start < call.arg
                   THEN call' = [call EXCEPT !.block = start] /\ ret' = ret
                   ELSE Return("Ok")
    /\ UNCHANGED <<live, added>>

-----------------------------------------------------------------------------
(* allocate *)

AllocateTooLarge(order) ==
    /\ Idle
    /\ order >= MAX_ORDER
    /\ ret' = "OrderTooLarge"
    /\ UNCHANGED <<orders, stats, call, live, added, seeds>>

Allocate(order) ==
    /\ Idle
    /\ order \in Orders
    /\ call' = [op |-> "search", block |-> 0, cur |-> order, arg |-> order]
    /\ ret' = "none"
    /\ UNCHANGED <<orders, stats, live, added, seeds>>

\* Mutant of SearchUp: off by one at the largest order.
SearchPastEnd ==
    /\ call.op = "search"
    /\ orders[call.cur] = <<>>
    /\ IF call.cur < MAX_ORDER
       THEN call' = [call EXCEPT !.cur = @ + 1] /\ ret' = ret
       ELSE Return("NoMemoryAvailable")
    /\ UNCHANGED <<orders, stats, live, added, seeds>>

\* Mutant of SearchUp: the recursion does not go up.
SearchSameOrder ==
    /\ call.op = "search"
    /\ orders[call.cur] = <<>>
    /\ UNCHANGED vars

\* Mutant of SearchUp: two orders at a time.
SearchSkips ==
    /\ call.op = "search"
    /\ orders[call.cur] = <<>>
    /\ IF call.cur + 2 < MAX_ORDER
       THEN call' = [call EXCEPT !.cur = @ + 2] /\ ret' = ret
       ELSE Return("NoMemoryAvailable")
    /\ UNCHANGED <<orders, stats, live, added, seeds>>

\* Slow path: nothing in this list, so the recursion goes one order up; above
\* the largest order it fails, whatever the error was called on the way.
SearchUp ==
    /\ call.op = "search"
    /\ orders[call.cur] = <<>>
    /\ IF call.cur + 1 < MAX_ORDER
       THEN call' = [call EXCEPT !.cur = @ + 1] /\ ret' = ret
       ELSE Return("NoMemoryAvailable")
    /\ UNCHANGED <<orders, stats, live, added, seeds>>

\* Fast path: take the first block of the list.
Pop ==
    /\ call.op = "search"
    /\ orders[call.cur] # <<>>
    /\ orders' = order_pop(orders, call.cur)
    /\ stats' = alloc_stats(stats, size_for_order(call.cur))
    /\ call' = [call EXCEPT !.op = "split", !.block = Head(orders[call.cur])]
    /\ UNCHANGED <<ret, live, added, seeds>>

\* Mutant of Split: the buddy at the order before the split.
SplitWrongBuddy ==
    /\ call.op = "split"
    /\ call.cur > call.arg
    /\ LET order == call.cur - 1
           buddy == buddy_of(call.block, call.cur)
       IN  /\ orders' = order_push(orders, order, buddy)
           /\ stats' = dealloc_stats(stats, size_for_order(order))
           /\ call' = [call EXCEPT !.cur = order]
           /\ ret' = ret
    /\ UNCHANGED <<live, added, seeds>>

\* Return from the recursion, one order down: the other half goes to the free
\* list.  The frames below map the error of a null buddy to another one.
Split ==
    /\ call.op = "split"
    /\ call.cur > call.arg
    /\ LET order == call.cur - 1
           buddy == buddy_of(call.block, order)
       IN  IF buddy = 0
           THEN /\ Return(IF order = call.arg THEN "NullPointer" ELSE "NoMemoryAvailable")
                /\ UNCHANGED <<orders, stats>>
           ELSE /\ orders' = order_push(orders, order, buddy)
                /\ stats' = dealloc_stats(stats, size_for_order(order))
                /\ call' = [call EXCEPT !.cur = order]
                /\ ret' = ret
    /\ UNCHANGED <<live, added, seeds>>

\* The block has the requested order: allocate returns it.
HandOut ==
    /\ call.op = "split"
    /\ call.cur = call.arg
    /\ live' = live \cup {Block(call.block, call.cur)}
    /\ Return("Ok")
    /\ UNCHANGED <<orders, stats, added, seeds>>

-----------------------------------------------------------------------------
(* deallocate *)

\* The contract: a block that allocate returned, with the order it had.
Deallocate(x) ==
    /\ Idle
    /\ x \in live
    /\ live' = live \ {x}
    /\ call' = [op |-> "merge", block |-> x.block, cur |-> x.order, arg |-> x.order]
    /\ ret' = "none"
    /\ UNCHANGED <<orders, stats, added, seeds>>

\* The buddy is not in the free list: the block goes there.
PutBack ==
    /\ call.op = "merge"
    /\ LET buddy == buddy_of(call.block, call.cur)
       IN  /\ ~ InList(orders[call.cur], buddy)
           /\ IF buddy = 0
              THEN Return("NullPointer") /\ UNCHANGED <<orders, stats>>
              ELSE /\ orders' = order_push(orders, call.cur, call.block)
                   /\ stats' = dealloc_stats(stats, size_for_order(call.cur))
                   /\ Return("Ok")
    /\ UNCHANGED <<live, added, seeds>>

\* Mutant of Merge: the block does not move down to its lower half.
MergeUpperHalf ==
    /\ call.op = "merge"
    /\ LET buddy == buddy_of(call.block, call.cur)
       IN  /\ InList(orders[call.cur], buddy)
           /\ call.cur + 1 < MAX_ORDER
           /\ orders' = order_remove(orders, call.cur, buddy)
           /\ stats' = alloc_stats(stats, size_for_order(call.cur))
           /\ call' = [call EXCEPT !.cur = @ + 1]
    /\ UNCHANGED <<ret, live, added, seeds>>

\* Mutant of Merge: the buddy is not unlinked.
MergeKeepsBuddy ==
    /\ call.op = "merge"
    /\ LET buddy == buddy_of(call.block, call.cur)
           low   == IF buddy < call.block THEN buddy ELSE call.block
       IN  /\ InList(orders[call.cur], buddy)
           /\ call.cur + 1 < MAX_ORDER
           /\ stats' = alloc_stats(stats, size_for_order(call.cur))
           /\ call' = [call EXCEPT !.block = low, !.cur = @ + 1]
    /\ UNCHANGED <<orders, ret, live, added, seeds>>

\* The buddy is free: unlink it and go on, one order up, with both as one.
Merge ==
    /\ call.op = "merge"
    /\ LET buddy == buddy_of(call.block, call.cur)
           low   == IF buddy < call.block THEN buddy ELSE call.block
       IN  /\ InList(orders[call.cur], buddy)
           /\ call.cur + 1 < MAX_ORDER
           /\ orders' = order_remove(orders, call.cur, buddy)
           /\ stats' = alloc_stats(stats, size_for_order(call.cur))
           /\ call' = [call EXCEPT !.block = low, !.cur = @ + 1]
    /\ UNCHANGED <<ret, live, added, seeds>>

\* Mutant of PutBackBoth: the buddy is dropped.
PutBackOne ==
    /\ call.op = "merge"
    /\ LET buddy   == buddy_of(call.block, call.cur)
           size    == size_for_order(call.cur)
           removed == order_remove(orders, call.cur, buddy)
       IN  /\ InList(orders[call.cur], buddy)
           /\ call.cur + 1 = MAX_ORDER
           /\ orders' = order_push(removed, call.cur, call.block)
           /\ stats' = dealloc_stats(alloc_stats(stats, size), size * 2)
           /\ Return("Ok")
    /\ UNCHANGED <<live, added, seeds>>

\* At the largest order nothing can be merged: both go to its list.
PutBackBoth ==
    /\ call.op = "merge"
    /\ LET buddy   == buddy_of(call.block, call.cur)
           size    == size_for_order(call.cur)
           removed == order_remove(orders, call.cur, buddy)
       IN  /\ InList(orders[call.cur], buddy)
           /\ call.cur + 1 = MAX_ORDER
           /\ orders' = order_push(order_push(removed, call.cur, buddy),
                                   call.cur, call.block)
           /\ stats' = dealloc_stats(alloc_stats(stats, size), size * 2)
           /\ Return("Ok")
    /\ UNCHANGED <<live, added, seeds>>

-----------------------------------------------------------------------------
Init == /\ orders = [o \in Orders |-> <<>>]
        /\ stats = [free |-> 0, allocated |-> 0, total |-> 0]
        /\ call = NoCall
        /\ ret = "none"
        /\ live = {}
        /\ added = {}
        /\ seeds = {}

\* The steps of a running call.
Run == \/ AddSingleRegion
       \/ SearchUp \/ Pop \/ Split \/ HandOut
       \/ PutBack \/ Merge \/ PutBackBoth

Next == \/ \E r \in Regions : AddRegionTooSmall(r) \/ AddRegion(r)
        \/ \E o \in 0 .. MAX_ORDER : AllocateTooLarge(o) \/ Allocate(o)
        \/ \E x \in live : Deallocate(x)
        \/ Run

\* A call that was made runs to its end.
Spec == Init /\ [][Next]_vars /\ WF_vars(Run)

-----------------------------------------------------------------------------
(* Properties *)

OpNames == {"idle", "add", "search", "split", "merge"}

RetNames == {"none", "Ok", "RegionTooSmall", "OrderTooLarge",
             "NoMemoryAvailable", "NullPointer"}

TypeOK ==
    /\ orders \in [Orders -> Seq(Nat)]
    /\ stats \in [free : Int, allocated : Int, total : Int]
    /\ call \in [op : OpNames, block : Nat, cur : Orders, arg : Nat]
    /\ ret \in RetNames
    /\ live \subseteq [block : Nat, order : Orders]
    /\ added \subseteq Regions
    /\ seeds \subseteq [block : Nat, order : Orders]

\* The blocks in the lists, and that no list has an entry twice.
FreeIn(lists) == UNION {{Block(lists[o][k], o) : k \in DOMAIN lists[o]} : o \in Orders}

Distinct(lists) == \A o \in Orders : \A j, k \in DOMAIN lists[o] :
                       lists[o][j] = lists[o][k] => j = k

FreeBlocks == FreeIn(orders)

\* The block the running call has in its locals and in no list.
InHand == IF call.op \in {"split", "merge"} THEN {Block(call.block, call.cur)} ELSE {}

AllBlocks == FreeBlocks \cup live \cup InHand

AllPages(S) == UNION {Pages(x) : x \in S}

Disjoint(x, y) == Pages(x) \cap Pages(y) = {}

\* No page is in two places: the entries of all free lists, the blocks handed
\* out and the block being split or merged are pairwise disjoint.  A list with
\* an entry twice would be a cycle in the code's linked list.
NoOverlap ==
    /\ Distinct(orders)
    /\ \A x, y \in AllBlocks : x # y => Disjoint(x, y)
    /\ FreeBlocks \cap live = {}
    /\ InHand \cap (FreeBlocks \cup live) = {}

\* No page is lost and none appears from nowhere: what is free, handed out or
\* in hand is exactly what add_region put in.
Conservation == AllPages(AllBlocks) = AllPages(seeds)

\* alloc_stats() reports the truth, also in the middle of a call, and the
\* subtractions of the bookkeeping never go below zero.
StatsExact ==
    /\ stats.free = Cardinality(AllPages(FreeBlocks))
    /\ stats.allocated = Cardinality(AllPages(live \cup InHand))
    /\ stats.total = Cardinality(AllPages(seeds))

AddedPages == UNION {RegionPages(r) : r \in added}

\* Every block is inside the regions that were added (deallocate may merge
\* across the border of two of them) and aligned to its size (the xor of
\* buddy_of finds the other half only then).
BlocksValid ==
    \A x \in AllBlocks :
        /\ x.block % 2^x.order = 0
        /\ Pages(x) \subseteq AddedPages

\* The locals of the running call: the search stays between the requested and
\* the largest order, and what add_region still has to add is the end of a
\* region, in no block yet, and does not start one page behind a multiple of
\* four (there the code would form a misaligned block).
CallInv ==
    /\ call.op \in {"search", "split"} => call.arg <= call.cur
    /\ call.op = "add" =>
          /\ \E r \in added : FirstPage(r) <= call.block /\ call.arg = EndPage(r)
          /\ call.block < call.arg
          /\ MAX_ORDER = 1 \/ call.block % 4 # 1
          /\ \A x \in AllBlocks : Pages(x) \cap (call.block .. call.arg - 1) = {}

IInv == TypeOK /\ NoOverlap /\ BlocksValid /\ CallInv

\* Freeing undoes splitting: between calls, a free block that was split off a
\* larger one has no free buddy, so that memory which was all given back is
\* available again in blocks at least as large as those it was added in.
\* (Neighbours that add_region added as separate blocks are not covered.)
Coalesced ==
    Idle => \A x \in FreeBlocks, s \in seeds :
                Pages(x) \subseteq Pages(s) /\ x.order < s.order
                    => Block(buddy_of(x.block, x.order), x.order) \notin FreeBlocks

\* allocate reports NoMemoryAvailable only when no list from the requested
\* order up has a block, after walking up one recursion level at a time.
FailsOnlyWhenExhausted ==
    [][ret # "NoMemoryAvailable" /\ ret' = "NoMemoryAvailable"
         => \A o \in call.arg .. MAX_ORDER - 1 : orders[o] = <<>>]_vars

\* The allocator implements PageAllocator.  A block that is being split is
\* still free; one that is being merged is free already.
Abstract == INSTANCE PageAllocator WITH
    Memory <- UNION {RegionPages(r) : r \in Regions},
    free   <- AllPages(FreeBlocks \cup InHand),
    live   <- live

ImplementsPageAllocator == Abstract!Spec

\* Every call returns: the recursion of allocate and deallocate and the loop of
\* add_region end.
CallsReturn == ~ Idle ~> Idle
=============================================================================
