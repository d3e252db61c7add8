----------------------------- MODULE BuddyBooks -----------------------------
(***************************************************************************)
(* Proofs about what the buddy allocator promises its callers, on top of   *)
(* BuddyProofs: no page is lost, alloc_stats() is exact, allocate fails    *)
(* only when nothing is left, and the allocator implements PageAllocator.  *)
(* Every step is first reduced to what it does to three sets of pages: the *)
(* free ones, the taken ones and the ones that were added.                 *)
(***************************************************************************)
EXTENDS BuddyProofs, FiniteSetTheorems

FreePages == AllPages(FreeBlocks)

TakenPages == AllPages(live \cup InHand)

SeedPages == AllPages(seeds)

-----------------------------------------------------------------------------
(* Pages of sets of blocks *)

\* The pages of two sets of blocks, and of one block.
LEMMA PagesUnion ==
    /\ AllPages({}) = {}
    /\ \A x : AllPages({x}) = Pages(x)
    /\ \A S, T : AllPages(S \cup T) = AllPages(S) \cup AllPages(T)
BY DEF AllPages

\* Disjoint blocks: without a block, its pages are gone and no others.
LEMMA PagesWithout ==
    ASSUME NEW S, NEW x \in S, Apart(S)
    PROVE  AllPages(S \ {x}) = AllPages(S) \ Pages(x)
BY DEF AllPages, Apart, Disjoint

\* Blocks in different places have no page in common.
LEMMA PagesApart ==
    ASSUME NEW S, NEW T, Apart(S \cup T), S \cap T = {}
    PROVE  AllPages(S) \cap AllPages(T) = {}
BY DEF AllPages, Apart, Disjoint

\* A block has as many pages as its order says.
LEMMA PagesCount ==
    ASSUME NEW b \in Nat, NEW o \in Orders
    PROVE  /\ IsFiniteSet(Pages(Block(b, o)))
           /\ Cardinality(Pages(Block(b, o))) = 2^o
<1>1. 2^o \in Nat \ {0} /\ Pages(Block(b, o)) = b .. (b + 2^o - 1)
  BY PowersOfTwo, BlockIn
<1>2. /\ b + 2^o - 1 \in Int /\ ~ (b > b + 2^o - 1)
      /\ (b + 2^o - 1) - b + 1 = 2^o
  BY <1>1
<1> QED
  BY <1>1, <1>2, FS_Interval

-----------------------------------------------------------------------------
(* The null page *)

\* The size that memory starts above is a number.
LEMMA TopSize == 2^MAX_ORDER \in Nat
<1>1. MAX_ORDER - 1 \in Orders /\ (MAX_ORDER - 1) + 1 = MAX_ORDER
  BY OrderAssumption DEF Orders
<1> QED
  BY <1>1, PowersOfTwo

\* Memory starts above the largest block, so that flipping one bit of a page
\* number in it never gives the null page.
LEMMA NeverNull ==
    ASSUME NEW b \in Nat, b >= 2^MAX_ORDER, NEW o \in Orders
    PROVE  buddy_of(b, o) # 0
<1>1. 2^o \in Nat \ {0} /\ 2^o < 2^MAX_ORDER
  BY PowersOfTwo
<1> QED
  BY <1>1, TopSize DEF buddy_of, size_for_order

\* A block inside the added regions is above it.
LEMMA BlockAbove ==
    ASSUME Typed, NEW x \in BlockSet, Pages(x) \subseteq AddedPages
    PROVE  x.block >= 2^MAX_ORDER
<1>1. x.block \in Pages(x)
  BY PowersOfTwo DEF BlockSet, Pages
<1>2. PICK r \in added : x.block \in RegionPages(r)
  BY <1>1 DEF AddedPages
<1>3. /\ FirstPage(r) \in Nat /\ EndPage(r) \in Nat
      /\ FirstPage(r) >= 2^MAX_ORDER
  BY DEF Typed, RegionOK
<1>4. x.block \in Nat
  BY DEF BlockSet
<1> QED
  BY <1>2, <1>3, <1>4, TopSize DEF RegionPages

\* The error paths for a null buddy are not taken: not when splitting or merging
\* the block in hand, and not when add_region chooses an order.
LEMMA NoNullBuddy ==
    ASSUME Typed, Safe
    PROVE  /\ call.op \in {"split", "merge"} =>
                 \A o \in Orders : buddy_of(call.block, o) # 0
           /\ call.op = "add" => ~ NullBuddy(call.block, call.arg)
<1>1. call.block \in Nat /\ call.arg \in Nat
  BY BlockTypes
<1>2. ASSUME call.op \in {"split", "merge"}
      PROVE  \A o \in Orders : buddy_of(call.block, o) # 0
  <2> DEFINE x == Block(call.block, call.cur)
  <2>1. x \in BlockSet /\ x.block = call.block /\ x \in InHand
    BY <1>2, BlockTypes, BlockFields DEF InHand
  <2>2. Pages(x) \subseteq AddedPages
    BY <2>1, SafeParts DEF Good
  <2>3. call.block >= 2^MAX_ORDER
    BY <2>1, <2>2, BlockAbove
  <2> QED
    BY <1>1, <2>3, NeverNull
<1>3. ASSUME call.op = "add"
      PROVE  ~ NullBuddy(call.block, call.arg)
  <2>1. PICK r \in added : FirstPage(r) <= call.block
    BY <1>3, SafeParts DEF CallInv
  <2>2. FirstPage(r) \in Nat /\ FirstPage(r) >= 2^MAX_ORDER
    BY DEF Typed, RegionOK
  <2>3. call.block >= 2^MAX_ORDER
    BY <1>1, <2>1, <2>2, TopSize
  <2>4. region_order(call.block, call.arg) \in Orders
    BY <1>1, RegionOrder
  <2>5. region_order(call.block, call.arg) + 1 < MAX_ORDER
           => region_order(call.block, call.arg) + 1 \in Orders
    BY <2>4, OrderAssumption DEF Orders
  <2> QED
    BY <1>1, <2>3, <2>5, NeverNull DEF NullBuddy
<1> QED
  BY <1>2, <1>3

-----------------------------------------------------------------------------
(* What a step does to the pages *)

Keeps == UNCHANGED <<FreePages, TakenPages, SeedPages, stats>>

\* The pages P are taken from the free ones.
Takes(P) == /\ P \subseteq FreePages
            /\ FreePages' = FreePages \ P
            /\ TakenPages' = TakenPages \cup P
            /\ SeedPages' = SeedPages
            /\ stats' = alloc_stats(stats, Cardinality(P))

\* Taken pages P become free.
Gives(P) == /\ P \subseteq TakenPages
            /\ FreePages' = FreePages \cup P
            /\ TakenPages' = TakenPages \ P
            /\ SeedPages' = SeedPages
            /\ stats' = dealloc_stats(stats, Cardinality(P))

\* Pages P that were in no place become free.
Adds(P) == /\ P \cap (FreePages \cup TakenPages) = {}
           /\ FreePages' = FreePages \cup P
           /\ TakenPages' = TakenPages
           /\ SeedPages' = SeedPages \cup P
           /\ stats' = [stats EXCEPT !.total = @ + Cardinality(P),
                                     !.free = @ + Cardinality(P)]

Moves(P) == Takes(P) \/ Gives(P) \/ Adds(P)

\* The fast path of allocate takes the pages of the first block of the list.
LEMMA PopMoves ==
    ASSUME Typed, Safe, Pop
    PROVE  \E P : IsFiniteSet(P) /\ Takes(P)
<1> DEFINE x == Block(Head(orders[call.cur]), call.cur)
<1>1. call.cur \in Orders /\ orders \in Lists /\ orders[call.cur] # <<>>
  BY BlockTypes DEF Pop, Typed
<1>2. /\ Head(orders[call.cur]) \in Nat /\ x \in FreeBlocks
      /\ FreeBlocks' = FreeBlocks \ {x}
  BY <1>1, PopFree, SafeParts DEF Pop, FreeBlocks
<1>3. InHand = {} /\ InHand' = {x} /\ live' = live /\ seeds' = seeds
  BY DEF Pop, InHand, Typed, Calls
<1>4. IsFiniteSet(Pages(x)) /\ Cardinality(Pages(x)) = 2^call.cur
  BY <1>1, <1>2, PagesCount
<1>5. stats' = alloc_stats(stats, 2^call.cur)
  BY DEF Pop, size_for_order
<1> HIDE DEF x
<1>6. Apart(FreeBlocks)
  BY SafeParts DEF Layout, Apart
<1>7. FreePages' = FreePages \ Pages(x) /\ Pages(x) \subseteq FreePages
  BY <1>2, <1>6, PagesWithout DEF FreePages, AllPages
<1>8. TakenPages' = TakenPages \cup Pages(x) /\ SeedPages' = SeedPages
  BY <1>3 DEF TakenPages, SeedPages, AllPages
<1> QED
  BY <1>4, <1>5, <1>7, <1>8 DEF Takes

\* The pages of the block in hand are taken, and no block handed out has them.
LEMMA HandPages ==
    ASSUME Typed, Safe, call.op \in {"split", "merge"}
    PROVE  LET x == Block(call.block, call.cur)
           IN  /\ InHand = {x}
               /\ TakenPages = AllPages(live) \cup Pages(x)
               /\ AllPages(live) \cap Pages(x) = {}
               /\ FreePages \cap Pages(x) = {}
               /\ IsFiniteSet(Pages(x)) /\ Cardinality(Pages(x)) = 2^call.cur
<1> DEFINE x == Block(call.block, call.cur)
<1>1. InHand = {x}
  BY DEF InHand
<1>2. IsFiniteSet(Pages(x)) /\ Cardinality(Pages(x)) = 2^call.cur
  BY BlockTypes, PagesCount
<1> HIDE DEF x
<1>3. /\ Apart(live \cup {x}) /\ live \cap {x} = {}
      /\ Apart(FreeBlocks \cup {x}) /\ FreeBlocks \cap {x} = {}
  BY <1>1, SafeParts DEF Layout, Apart
<1>4. AllPages(live) \cap Pages(x) = {} /\ FreePages \cap Pages(x) = {}
  BY <1>3, PagesApart, PagesUnion DEF FreePages
<1>5. TakenPages = AllPages(live) \cup Pages(x)
  BY <1>1, PagesUnion DEF TakenPages
<1> QED
  BY <1>1, <1>2, <1>4, <1>5 DEF x

\* The slow path of allocate gives the upper half of its block back.
LEMMA SplitMoves ==
    ASSUME Typed, Safe, Split
    PROVE  \E P : IsFiniteSet(P) /\ Gives(P)
<1> DEFINE b == call.block
           order == call.cur - 1
           x == Block(b, call.cur)
           low == Block(b, order)
           high == Block(b + 2^order, order)
<1>1. b \in Nat /\ call.cur \in Orders /\ call.cur > 0
  BY BlockTypes, OrderAssumption DEF Split, Orders
<1>2. order \in Orders /\ 2^call.cur = 2 * 2^order /\ 2^order \in Nat \ {0}
  BY <1>1, OrderSizes
<1>3. /\ InHand = {x} /\ live' = live /\ seeds' = seeds
      /\ TakenPages = AllPages(live) \cup Pages(x)
      /\ AllPages(live) \cap Pages(x) = {}
  BY HandPages DEF Split
<1>4. b % 2^call.cur = 0
  <2>1. x.block = b /\ x.order = call.cur
    BY BlockFields
  <2> QED
    BY <1>3, <2>1, SafeParts DEF Good
<1>5. (b \div 2^order) % 2 = 0
  BY <1>1, <1>2, <1>4, HalvesAligned
<1>6. buddy_of(b, order) = b + 2^order /\ buddy_of(b, order) # 0 /\ b + 2^order \in Nat
  BY <1>1, <1>2, <1>5 DEF buddy_of, size_for_order
<1>7. /\ orders' = order_push(orders, order, b + 2^order)
      /\ call' = [call EXCEPT !.cur = order]
      /\ stats' = dealloc_stats(stats, 2^order)
  BY <1>6 DEF Split, size_for_order
<1>8. InHand' = {low}
  <2>1. call'.op = "split" /\ call'.block = b /\ call'.cur = order
    BY <1>7 DEF Split, Typed, Calls
  <2> QED
    BY <2>1 DEF InHand
<1>9. FreeBlocks' = FreeBlocks \cup {high}
  BY <1>2, <1>6, <1>7, PushFree DEF FreeBlocks, Typed
<1>10. Pages(x) = Pages(low) \cup Pages(high) /\ Disjoint(low, high)
  BY <1>1, Halves
<1>11. IsFiniteSet(Pages(high)) /\ Cardinality(Pages(high)) = 2^order
  BY <1>2, <1>6, PagesCount
<1> HIDE DEF x, low, high
<1>12. /\ TakenPages' = AllPages(live) \cup Pages(low)
       /\ FreePages' = FreePages \cup Pages(high)
       /\ SeedPages' = SeedPages
  BY <1>3, <1>8, <1>9 DEF TakenPages, FreePages, SeedPages, AllPages
<1>13. Pages(high) \subseteq TakenPages /\ TakenPages' = TakenPages \ Pages(high)
  BY <1>3, <1>10, <1>12 DEF Disjoint
<1> QED
  BY <1>7, <1>11, <1>12, <1>13 DEF Gives

\* allocate and deallocate move a whole block between the caller and the call:
\* it stays taken.
LEMMA CallerMoves ==
    ASSUME Typed, HandOut \/ \E x \in live : Deallocate(x)
    PROVE  Keeps
<1>1. FreePages' = FreePages /\ SeedPages' = SeedPages /\ stats' = stats
  BY DEF HandOut, Deallocate, FreePages, SeedPages, FreeBlocks
<1>2. CASE HandOut
  <2>1. live' \cup InHand' = live \cup InHand
    BY <1>2 DEF HandOut, InHand, Return, NoCall
  <2> QED
    BY <1>1, <2>1 DEF Keeps, TakenPages
<1>3. ASSUME NEW x \in live, Deallocate(x)
      PROVE  Keeps
  <2>1. x = Block(x.block, x.order)
    BY DEF Typed, Block
  <2>2. InHand = {} /\ InHand' = {x} /\ live' = live \ {x}
    BY <1>3, <2>1 DEF Deallocate, InHand, Idle
  <2>3. live' \cup InHand' = live \cup InHand
    BY <2>2
  <2> QED
    BY <1>1, <2>3 DEF Keeps, TakenPages
<1> QED
  BY <1>2, <1>3

\* deallocate gives its block back to the list.
LEMMA PutBackMoves ==
    ASSUME Typed, Safe, PutBack
    PROVE  \E P : IsFiniteSet(P) /\ Gives(P)
<1> DEFINE x == Block(call.block, call.cur)
<1>1. /\ call.op = "merge" /\ live' = live /\ seeds' = seeds
      /\ call.block \in Nat /\ call.cur \in Orders
  BY BlockTypes DEF PutBack
<1>2. buddy_of(call.block, call.cur) # 0
  BY <1>1, NoNullBuddy
<1>3. /\ orders' = order_push(orders, call.cur, call.block)
      /\ stats' = dealloc_stats(stats, 2^call.cur)
      /\ InHand' = {}
  BY <1>2 DEF PutBack, size_for_order, Return, NoCall, InHand
<1>4. FreeBlocks' = FreeBlocks \cup {x}
  BY <1>1, <1>3, PushFree DEF FreeBlocks, Typed
<1>5. /\ TakenPages = AllPages(live) \cup Pages(x)
      /\ AllPages(live) \cap Pages(x) = {}
      /\ IsFiniteSet(Pages(x)) /\ Cardinality(Pages(x)) = 2^call.cur
  BY <1>1, HandPages
<1> HIDE DEF x
<1>6. /\ TakenPages' = AllPages(live) /\ FreePages' = FreePages \cup Pages(x)
      /\ SeedPages' = SeedPages
  BY <1>1, <1>3, <1>4 DEF TakenPages, FreePages, SeedPages, AllPages
<1>7. Pages(x) \subseteq TakenPages /\ TakenPages' = TakenPages \ Pages(x)
  BY <1>5, <1>6
<1> QED
  BY <1>3, <1>5, <1>6, <1>7 DEF Gives

\* deallocate takes the buddy of its block out of the list.
LEMMA MergeMoves ==
    ASSUME Typed, Safe, Merge
    PROVE  \E P : IsFiniteSet(P) /\ Takes(P)
<1> DEFINE b == call.block
           o == call.cur
           mate == buddy_of(b, o)
           low == IF mate < b THEN mate ELSE b
           x == Block(b, o)
           y == Block(mate, o)
           z == Block(low, o + 1)
<1>1. /\ b \in Nat /\ o \in Orders /\ o + 1 \in Orders /\ call.op = "merge"
      /\ live' = live /\ seeds' = seeds
  BY BlockTypes, OrderAssumption DEF Merge, Orders
<1>2. InHand = {x} /\ TakenPages = AllPages(live) \cup Pages(x)
  BY <1>1, HandPages
<1>3. b % 2^o = 0
  <2>1. x.block = b /\ x.order = o
    BY BlockFields
  <2> QED
    BY <1>2, <2>1, SafeParts DEF Good
<1>4. mate \in Nat /\ low \in Nat /\ Pages(z) = Pages(x) \cup Pages(y)
  BY <1>1, <1>3, BuddiesDouble
<1>5. /\ InList(orders[o], mate) /\ orders' = order_remove(orders, o, mate)
      /\ stats' = alloc_stats(stats, 2^o)
      /\ call' = [call EXCEPT !.block = low, !.cur = @ + 1]
  BY DEF Merge, size_for_order
<1>6. y \in FreeBlocks /\ FreeBlocks' = FreeBlocks \ {y}
  BY <1>1, <1>5, RemoveFree, SafeParts DEF FreeBlocks, Typed
<1>7. InHand' = {z}
  <2>1. call'.op = "merge" /\ call'.block = low /\ call'.cur = o + 1
    <3> HIDE DEF low
    <3> QED
      BY <1>1, <1>5 DEF Typed, Calls
  <2> QED
    BY <2>1 DEF InHand
<1>8. IsFiniteSet(Pages(y)) /\ Cardinality(Pages(y)) = 2^o
  BY <1>1, <1>4, PagesCount
<1> HIDE DEF x, y, z, low, mate
<1>9. FreePages' = FreePages \ Pages(y) /\ Pages(y) \subseteq FreePages
  <2>1. Apart(FreeBlocks)
    BY SafeParts DEF Layout, Apart
  <2> QED
    BY <1>6, <2>1, PagesWithout DEF FreePages, AllPages
<1>10. TakenPages' = AllPages(live) \cup Pages(z) /\ SeedPages' = SeedPages
  BY <1>1, <1>7 DEF TakenPages, SeedPages, AllPages
<1>11. TakenPages' = TakenPages \cup Pages(y)
  BY <1>2, <1>4, <1>10
<1> QED
  BY <1>5, <1>8, <1>9, <1>10, <1>11 DEF Takes

\* At the largest order it takes the buddy out and puts both back: the books are
\* moved there and back, by one and by two blocks.
LEMMA PutBackBothMoves ==
    ASSUME Typed, Safe, PutBackBoth
    PROVE  \E P : IsFiniteSet(P) /\ Gives(P)
<1> DEFINE b == call.block
           o == call.cur
           mate == buddy_of(b, o)
           x == Block(b, o)
           y == Block(mate, o)
           removed == order_remove(orders, o, mate)
           one == order_push(removed, o, mate)
<1>1. /\ b \in Nat /\ o \in Orders /\ mate \in Nat /\ call.op = "merge"
      /\ live' = live /\ seeds' = seeds
  BY BlockTypes, BuddyNat DEF PutBackBoth
<1>2. /\ InList(orders[o], mate) /\ orders' = order_push(one, o, b)
      /\ stats' = dealloc_stats(alloc_stats(stats, 2^o), 2^o * 2)
      /\ InHand' = {}
  BY DEF PutBackBoth, size_for_order, Return, NoCall, InHand
<1>3. /\ removed \in Lists /\ y \in FreeBlocks
      /\ FreeIn(removed) = FreeBlocks \ {y}
  BY <1>1, <1>2, RemoveFree, SafeParts DEF FreeBlocks, Typed
<1> HIDE DEF removed, mate
<1>4. one \in Lists /\ FreeIn(one) = FreeBlocks
  <2>1. one \in Lists /\ FreeIn(one) = FreeIn(removed) \cup {y}
    BY <1>1, <1>3, PushFree
  <2> HIDE DEF one, y
  <2> QED
    BY <1>3, <2>1
<1> HIDE DEF one
<1>5. FreeBlocks' = FreeBlocks \cup {x}
  BY <1>1, <1>2, <1>4, PushFree DEF FreeBlocks
<1>6. /\ TakenPages = AllPages(live) \cup Pages(x)
      /\ AllPages(live) \cap Pages(x) = {}
      /\ IsFiniteSet(Pages(x)) /\ Cardinality(Pages(x)) = 2^o
  BY <1>1, HandPages
<1>7. stats' = dealloc_stats(stats, 2^o)
  <2>1. /\ stats \in [free : Int, allocated : Int, total : Int] /\ 2^o \in Nat
    BY <1>1, PowersOfTwo DEF Typed, Stats
  <2>2. ASSUME NEW n \in Nat
        PROVE  dealloc_stats(alloc_stats(stats, n), n * 2) = dealloc_stats(stats, n)
    <3>1. /\ (stats.free - n) + n * 2 = stats.free + n
          /\ (stats.allocated + n) - n * 2 = stats.allocated - n
      BY <2>1
    <3> QED
      BY <2>1, <3>1 DEF dealloc_stats, alloc_stats
  <2> QED
    BY <1>2, <2>1, <2>2
<1> HIDE DEF x, y
<1>8. /\ TakenPages' = AllPages(live) /\ FreePages' = FreePages \cup Pages(x)
      /\ SeedPages' = SeedPages
  BY <1>1, <1>2, <1>5 DEF TakenPages, FreePages, SeedPages, AllPages
<1>9. Pages(x) \subseteq TakenPages /\ TakenPages' = TakenPages \ Pages(x)
  BY <1>6, <1>8
<1> QED
  BY <1>6, <1>7, <1>8, <1>9 DEF Gives

\* add_single_region adds fresh pages.
LEMMA AddMoves ==
    ASSUME Typed, Safe, AddSingleRegion
    PROVE  \E P : IsFiniteSet(P) /\ Adds(P)
<1> DEFINE b == call.block
           end == call.arg
           k == region_order(b, end)
           x == Block(b, k)
<1>1. /\ b \in Nat /\ end \in Nat /\ b < end
      /\ MAX_ORDER = 1 \/ b % 4 # 1
      /\ \A w \in AllBlocks : Pages(w) \cap (b .. end - 1) = {}
  BY BlockTypes, SafeParts DEF AddSingleRegion, CallInv
<1>2. k \in Orders /\ 2^k \in Nat \ {0} /\ b + 2^k <= end
  BY <1>1, AddedBlock
<1> HIDE DEF k
<1>3. ~ NullBuddy(b, end)
  BY NoNullBuddy DEF AddSingleRegion
<1>4. /\ orders' = order_push(orders, k, b)
      /\ stats' = [stats EXCEPT !.total = @ + 2^k, !.free = @ + 2^k]
      /\ seeds' = seeds \cup {x}
      /\ live' = live
      /\ call' = [call EXCEPT !.block = b + 2^k] \/ call' = NoCall
  BY <1>3 DEF AddSingleRegion, k, size_for_order, Return
<1>5. InHand = {} /\ InHand' = {}
  BY <1>4 DEF AddSingleRegion, InHand, NoCall, Typed, Calls
<1>6. FreeBlocks' = FreeBlocks \cup {x}
  BY <1>1, <1>2, <1>4, PushFree DEF FreeBlocks, Typed
<1>7. Pages(x) \subseteq b .. end - 1
  <2>1. Pages(x) = b .. (b + 2^k - 1)
    BY <1>1, <1>2, BlockIn
  <2> QED
    BY <1>1, <1>2, <2>1
<1>8. IsFiniteSet(Pages(x)) /\ Cardinality(Pages(x)) = 2^k
  BY <1>1, <1>2, PagesCount
<1> HIDE DEF x
<1>9. Pages(x) \cap (FreePages \cup TakenPages) = {}
  BY <1>1, <1>7 DEF FreePages, TakenPages, AllPages, AllBlocks
<1>10. /\ FreePages' = FreePages \cup Pages(x) /\ TakenPages' = TakenPages
       /\ SeedPages' = SeedPages \cup Pages(x)
  BY <1>4, <1>5, <1>6 DEF FreePages, TakenPages, SeedPages, AllPages
<1> QED
  BY <1>4, <1>8, <1>9, <1>10 DEF Adds

\* The steps that only start a call, refuse one or go on searching.
LEMMA QuietMoves ==
    ASSUME Typed,
           \/ UNCHANGED vars
           \/ \E r : AddRegionTooSmall(r) \/ AddRegion(r)
           \/ \E o : AllocateTooLarge(o) \/ Allocate(o)
           \/ SearchUp
    PROVE  Keeps /\ live' = live /\ InHand' = InHand /\ orders' = orders
<1>1. UNCHANGED <<orders, stats, live, seeds>>
  BY DEF vars, AddRegionTooSmall, AddRegion, AllocateTooLarge, Allocate, SearchUp
<1>2. InHand' = InHand
  <2>1. CASE SearchUp
    BY <2>1 DEF SearchUp, InHand, Return, NoCall, Typed, Calls
  <2>2. CASE ~ SearchUp
    BY <2>2 DEF vars, AddRegionTooSmall, AddRegion, AllocateTooLarge, Allocate, InHand, Idle
  <2> QED
    BY <2>1, <2>2
<1> QED
  BY <1>1, <1>2 DEF Keeps, FreePages, TakenPages, SeedPages, FreeBlocks

\* Every step moves one set of pages, or none.
LEMMA StepMoves ==
    ASSUME Typed, Safe, [BuddyStep]_vars
    PROVE  Keeps \/ \E P : IsFiniteSet(P) /\ Moves(P)
<1>1. CASE AddSingleRegion \/ Pop \/ Split \/ PutBack \/ Merge \/ PutBackBoth
  BY <1>1, AddMoves, PopMoves, SplitMoves, PutBackMoves, MergeMoves, PutBackBothMoves
  DEF Moves
<1>2. CASE HandOut \/ \E x \in live : Deallocate(x)
  BY <1>2, CallerMoves
<1>3. CASE \/ UNCHANGED vars
           \/ \E r : AddRegionTooSmall(r) \/ AddRegion(r)
           \/ \E o : AllocateTooLarge(o) \/ Allocate(o)
           \/ SearchUp
  BY <1>3, QuietMoves
<1> QED
  BY <1>1, <1>2, <1>3 DEF BuddyStep, Run

-----------------------------------------------------------------------------
(* No page is lost, and the books are exact *)

\* Conservation and StatsExact, on sets that are finite.
Books == /\ IsFiniteSet(FreePages) /\ IsFiniteSet(TakenPages)
         /\ FreePages \cup TakenPages = SeedPages
         /\ stats.free = Cardinality(FreePages)
         /\ stats.allocated = Cardinality(TakenPages)
         /\ stats.total = Cardinality(SeedPages)

\* Finite sets of which one is inside, or outside, the other.
LEMMA CountParts ==
    ASSUME NEW S, NEW P, IsFiniteSet(S), IsFiniteSet(P)
    PROVE  /\ IsFiniteSet(S \cup P) /\ IsFiniteSet(S \ P)
           /\ S \cap P = {} => Cardinality(S \cup P) = Cardinality(S) + Cardinality(P)
           /\ P \subseteq S => Cardinality(S \ P) = Cardinality(S) - Cardinality(P)
           /\ Cardinality(S) \in Nat /\ Cardinality(P) \in Nat
<1>1. Cardinality(S) \in Nat /\ Cardinality(P) \in Nat
  BY FS_CardinalityType
<1>2. /\ IsFiniteSet(S \cup P)
      /\ Cardinality(S \cup P) = Cardinality(S) + Cardinality(P) - Cardinality(S \cap P)
  BY FS_Union
<1>3. IsFiniteSet(S \ P) /\ Cardinality(S \ P) = Cardinality(S) - Cardinality(S \cap P)
  BY FS_Difference
<1>4. S \cap P = {} => Cardinality(S \cup P) = Cardinality(S) + Cardinality(P)
  BY <1>1, <1>2, FS_EmptySet
<1>5. P \subseteq S => S \cap P = P
  OBVIOUS
<1> QED
  BY <1>1, <1>2, <1>3, <1>4, <1>5

\* The books hold at the start.
LEMMA InitBooks == Init => Books
<1> SUFFICES ASSUME Init PROVE Books
  OBVIOUS
<1>1. DOMAIN <<>> = {}
  OBVIOUS
<1>2. FreeBlocks = {} /\ live \cup InHand = {} /\ seeds = {}
  BY <1>1 DEF Init, FreeBlocks, FreeIn, InHand, NoCall
<1>3. FreePages = {} /\ TakenPages = {} /\ SeedPages = {}
  BY <1>2, PagesUnion DEF FreePages, TakenPages, SeedPages
<1> QED
  BY <1>3, FS_EmptySet DEF Books, Init

\* Every step keeps the books.
LEMMA NextBooks ==
    ASSUME Typed, Safe, Books, [BuddyStep]_vars
    PROVE  Books'
<1>1. FreePages \cap TakenPages = {}
  <2>1. /\ Apart(FreeBlocks \cup (live \cup InHand))
        /\ FreeBlocks \cap (live \cup InHand) = {}
    BY SafeParts DEF Layout, Apart
  <2> QED
    BY <2>1, PagesApart DEF FreePages, TakenPages
<1>2. stats \in [free : Int, allocated : Int, total : Int]
  BY DEF Typed, Stats
<1>3. CASE Keeps
  BY <1>3 DEF Keeps, Books
<1>4. ASSUME NEW P, IsFiniteSet(P), Moves(P)
      PROVE  Books'
  <2>1. /\ IsFiniteSet(FreePages \cup P) /\ IsFiniteSet(FreePages \ P)
        /\ IsFiniteSet(TakenPages \cup P) /\ IsFiniteSet(TakenPages \ P)
        /\ Cardinality(P) \in Nat
    BY <1>4, CountParts DEF Books
  <2>2. CASE Takes(P)
    <3>1. /\ Cardinality(FreePages \ P) = Cardinality(FreePages) - Cardinality(P)
          /\ Cardinality(TakenPages \cup P) = Cardinality(TakenPages) + Cardinality(P)
      <4>1. P \subseteq FreePages /\ TakenPages \cap P = {}
        BY <1>1, <2>2 DEF Takes
      <4> QED
        BY <1>4, <4>1, CountParts DEF Books
    <3>2. /\ stats'.free = stats.free - Cardinality(P)
          /\ stats'.allocated = stats.allocated + Cardinality(P)
          /\ stats'.total = stats.total
      BY <1>2, <2>2 DEF Takes, alloc_stats
    <3>3. FreePages' \cup TakenPages' = SeedPages'
      BY <2>2 DEF Takes, Books
    <3> QED
      BY <2>1, <2>2, <3>1, <3>2, <3>3 DEF Takes, Books
  <2>3. CASE Gives(P)
    <3>1. /\ Cardinality(FreePages \cup P) = Cardinality(FreePages) + Cardinality(P)
          /\ Cardinality(TakenPages \ P) = Cardinality(TakenPages) - Cardinality(P)
      <4>1. P \subseteq TakenPages /\ FreePages \cap P = {}
        BY <1>1, <2>3 DEF Gives
      <4> QED
        BY <1>4, <4>1, CountParts DEF Books
    <3>2. /\ stats'.free = stats.free + Cardinality(P)
          /\ stats'.allocated = stats.allocated - Cardinality(P)
          /\ stats'.total = stats.total
      BY <1>2, <2>3 DEF Gives, dealloc_stats
    <3>3. FreePages' \cup TakenPages' = SeedPages'
      BY <2>3 DEF Gives, Books
    <3> QED
      BY <2>1, <2>3, <3>1, <3>2, <3>3 DEF Gives, Books
  <2>4. CASE Adds(P)
    <3>1. /\ Cardinality(FreePages \cup P) = Cardinality(FreePages) + Cardinality(P)
          /\ Cardinality(SeedPages \cup P) = Cardinality(SeedPages) + Cardinality(P)
      <4>1. FreePages \cap P = {} /\ SeedPages \cap P = {}
        BY <2>4 DEF Adds, Books
      <4>2. IsFiniteSet(SeedPages)
        BY CountParts DEF Books
      <4> QED
        BY <1>4, <4>1, <4>2, CountParts DEF Books
    <3>2. /\ stats'.free = stats.free + Cardinality(P)
          /\ stats'.total = stats.total + Cardinality(P)
          /\ stats'.allocated = stats.allocated
      BY <1>2, <2>4 DEF Adds
    <3>3. FreePages' \cup TakenPages' = SeedPages'
      BY <2>4 DEF Adds, Books
    <3> QED
      BY <2>1, <2>4, <3>1, <3>2, <3>3 DEF Adds, Books
  <2> QED
    BY <1>4, <2>2, <2>3, <2>4 DEF Moves
<1> QED
  BY <1>3, <1>4, StepMoves

\* The invariant of the allocator with its books.
LEMMA BooksAlways == RegionsAligned => (Spec => [](Sound /\ Books))
<1>1. ASSUME RegionsAligned
      PROVE  Spec => [](Sound /\ Books)
  <2>1. (Init => Sound) /\ (Sound /\ [Next]_vars => Sound')
    BY <1>1, SoundKept
  <2>2. Sound /\ Books /\ [Next]_vars => Books'
    BY NextIsStep, NextBooks DEF Sound
  <2> QED
    BY <2>1, <2>2, InitBooks, PTL DEF Spec
<1> QED
  BY <1>1

\* No page is lost in a split, a merge or an error path, and none appears from
\* nowhere: what is free, handed out or in the locals of the running call is at
\* every step exactly what add_region put into the lists.
THEOREM NothingLost == RegionsAligned => (Spec => []Conservation)
<1>1. Books => Conservation
  <2>1. AllPages(AllBlocks) = FreePages \cup TakenPages
    BY DEF AllPages, AllBlocks, FreePages, TakenPages
  <2> QED
    BY <2>1 DEF Books, Conservation, SeedPages
<1> QED
  BY <1>1, BooksAlways, PTL

\* alloc_stats() counts the free, the taken and all pages exactly, also between
\* the steps of a call, so that its subtractions never go below zero.
THEOREM BooksExact == RegionsAligned => (Spec => []StatsExact)
<1>1. Books => StatsExact
  BY DEF Books, StatsExact, FreePages, TakenPages, SeedPages
<1> QED
  BY <1>1, BooksAlways, PTL

-----------------------------------------------------------------------------
(* allocate fails only when nothing is left *)

\* The lists that the search has passed are still empty.
Searched == call.op = "search" =>
                \A o \in call.arg .. call.cur - 1 : orders[o] = <<>>

\* The search goes up one list at a time, past empty ones only.
LEMMA NextSearched ==
    ASSUME Typed, Safe, Searched, [BuddyStep]_vars
    PROVE  Searched'
<1>1. CASE UNCHANGED vars
  BY <1>1 DEF vars, Searched
<1>2. ASSUME NEW o, Allocate(o)
      PROVE  Searched'
  BY <1>2, OrderAssumption DEF Allocate, Searched, Orders
<1>3. CASE SearchUp
  <2>1. call.arg \in Nat /\ call.cur \in Nat /\ call.arg <= call.cur
    BY <1>3, BlockTypes, OrderAssumption DEF SearchUp, Orders, Safe, CallInv
  <2>2. orders[call.cur] = <<>> /\ orders' = orders
        /\ \A o \in call.arg .. call.cur - 1 : orders[o] = <<>>
    BY <1>3 DEF SearchUp, Searched
  <2>3. CASE call.cur + 1 < MAX_ORDER
    <3>1. call' = [call EXCEPT !.cur = @ + 1]
      BY <1>3, <2>3 DEF SearchUp
    <3>2. call'.arg = call.arg /\ call'.cur = call.cur + 1
      BY <3>1 DEF Typed, Calls
    <3>3. \A o \in call.arg .. (call.cur + 1) - 1 : o \in call.arg .. call.cur - 1 \/ o = call.cur
      BY <2>1
    <3> QED
      BY <2>2, <3>2, <3>3 DEF Searched
  <2>4. CASE ~ (call.cur + 1 < MAX_ORDER)
    BY <1>3, <2>4 DEF SearchUp, Return, NoCall, Searched
  <2> QED
    BY <2>3, <2>4
<1>4. ASSUME NEW r, AddRegionTooSmall(r) \/ AddRegion(r)
      PROVE  Searched'
  BY <1>4 DEF AddRegionTooSmall, AddRegion, Idle, Searched
<1>5. ASSUME NEW o, AllocateTooLarge(o)
      PROVE  Searched'
  BY <1>5 DEF AllocateTooLarge, Idle, Searched
<1>6. ASSUME NEW x \in live, Deallocate(x)
      PROVE  Searched'
  BY <1>6 DEF Deallocate, Searched
<1>7. CASE AddSingleRegion \/ Pop \/ Split \/ HandOut \/ PutBack \/ Merge \/ PutBackBoth
  <2>1. CASE AddSingleRegion
    <3>1. call'.op \in {"add", "idle"}
      BY <2>1 DEF AddSingleRegion, Return, NoCall, Typed, Calls
    <3> QED
      BY <3>1 DEF Searched
  <2>2. CASE Pop \/ Split
    <3>1. Pop => call'.op = "split"
      BY DEF Pop, Typed, Calls
    <3>2. Split => call'.op \in {"split", "idle"}
      BY DEF Split, Return, NoCall, Typed, Calls
    <3> QED
      BY <2>2, <3>1, <3>2 DEF Searched
  <2>3. CASE HandOut \/ PutBack \/ PutBackBoth
    BY <2>3 DEF HandOut, PutBack, PutBackBoth, Return, NoCall, Searched
  <2>4. CASE Merge
    <3>1. call'.op = "merge"
      BY <2>4 DEF Merge, Typed, Calls
    <3> QED
      BY <3>1 DEF Searched
  <2> QED
    BY <1>7, <2>1, <2>2, <2>3, <2>4
<1> QED
  BY <1>1, <1>2, <1>3, <1>4, <1>5, <1>6, <1>7 DEF BuddyStep, Run

\* When a step returns NoMemoryAvailable, the search has passed the last list.
\* The other path with that result, a null buddy in a split, is never taken.
LEMMA FailStep ==
    ASSUME Typed, Safe, Searched, [BuddyStep]_vars,
           ret # "NoMemoryAvailable", ret' = "NoMemoryAvailable"
    PROVE  \A o \in call.arg .. MAX_ORDER - 1 : orders[o] = <<>>
<1>1. SearchUp \/ Split
  BY DEF BuddyStep, Run, vars, AddRegionTooSmall, AddRegion, AddSingleRegion, AllocateTooLarge,
         Allocate, Pop, HandOut, Deallocate, PutBack, Merge, PutBackBoth, Return
<1>2. ~ Split
  <2> SUFFICES ASSUME Split PROVE FALSE
    OBVIOUS
  <2>1. call.cur - 1 \in Orders
    BY BlockTypes, OrderAssumption DEF Split, Orders
  <2>2. buddy_of(call.block, call.cur - 1) # 0
    BY <2>1, NoNullBuddy DEF Split
  <2> QED
    BY <2>2 DEF Split
<1>3. /\ call.op = "search" /\ orders[call.cur] = <<>>
      /\ ~ (call.cur + 1 < MAX_ORDER)
  BY <1>1, <1>2 DEF SearchUp
<1>4. call.cur \in Nat /\ call.cur = MAX_ORDER - 1 /\ call.arg \in Nat
  BY <1>3, BlockTypes, OrderAssumption DEF Orders
<1>5. \A o \in call.arg .. MAX_ORDER - 1 : o \in call.arg .. call.cur - 1 \/ o = call.cur
  BY <1>4, OrderAssumption
<1> QED
  BY <1>3, <1>5 DEF Searched

\* allocate reports NoMemoryAvailable only in a state where every list from the
\* requested order up is empty, whatever the number of orders.
THEOREM FailsWhenExhausted == RegionsAligned => (Spec => FailsOnlyWhenExhausted)
<1>1. Init => Searched
  BY DEF Init, NoCall, Searched
<1>2. ASSUME RegionsAligned
      PROVE  Spec => FailsOnlyWhenExhausted
  <2>1. (Init => Sound) /\ (Sound /\ [Next]_vars => Sound')
    BY <1>2, SoundKept
  <2>2. Sound /\ Searched /\ [Next]_vars => Searched'
    BY NextIsStep, NextSearched DEF Sound
  <2>3. Sound /\ Searched /\ [Next]_vars
           => [ret # "NoMemoryAvailable" /\ ret' = "NoMemoryAvailable"
                 => \A o \in call.arg .. MAX_ORDER - 1 : orders[o] = <<>>]_vars
    BY NextIsStep, FailStep DEF Sound
  <2> QED
    BY <1>1, <2>1, <2>2, <2>3, PTL DEF Spec, FailsOnlyWhenExhausted
<1> QED
  BY <1>2

-----------------------------------------------------------------------------
(* The refinement of PageAllocator *)

\* What PageAllocator sees as free.
Offered == AllPages(FreeBlocks \cup InHand)

\* They are the pages that no caller has.
LEMMA OfferedPages ==
    ASSUME NEW F, NEW L, NEW H, Layout(F, L, H)
    PROVE  /\ AllPages(F \cup H) = (AllPages(F) \cup AllPages(L \cup H)) \ AllPages(L)
           /\ AllPages(F \cup H) \cap AllPages(L) = {}
<1>1. Apart((F \cup H) \cup L) /\ (F \cup H) \cap L = {}
  BY DEF Layout, Apart
<1>2. AllPages(F \cup H) \cap AllPages(L) = {}
  BY <1>1, PagesApart
<1> QED
  BY <1>2 DEF AllPages

\* Splitting, merging and putting back move pages between the lists and the call.
LEMMA InnerStep ==
    ASSUME Typed, Safe, Safe', Pop \/ Split \/ PutBack \/ Merge \/ PutBackBoth
    PROVE  UNCHANGED Abstract!vars
<1>1. live' = live
  BY DEF Pop, Split, PutBack, Merge, PutBackBoth
<1>2. \E P : Takes(P) \/ Gives(P)
  BY PopMoves, SplitMoves, PutBackMoves, MergeMoves, PutBackBothMoves
<1>3. FreePages' \cup TakenPages' = FreePages \cup TakenPages
  BY <1>2 DEF Takes, Gives
<1>4. Layout(FreeBlocks, live, InHand) /\ Layout(FreeBlocks', live', InHand')
  BY DEF Safe, NoOverlap, Layout, Apart, AllBlocks
<1>5. Offered = (FreePages \cup TakenPages) \ AllPages(live)
  BY <1>4, OfferedPages DEF Offered, FreePages, TakenPages
<1>6. Offered' = (FreePages' \cup TakenPages') \ AllPages(live')
  BY <1>4, OfferedPages DEF Offered, FreePages, TakenPages
<1>7. Offered' = Offered
  BY <1>1, <1>3, <1>5, <1>6
<1> QED
  BY <1>1, <1>7 DEF Abstract!vars, Offered

\* The return of allocate is an Alloc of the block it hands out.
LEMMA HandOutRefines ==
    ASSUME Typed, Safe, HandOut
    PROVE  Abstract!Next
<1> DEFINE x == Block(call.block, call.cur)
<1>1. /\ InHand = {x} /\ InHand' = {} /\ live' = live \cup {x} /\ orders' = orders
  BY DEF HandOut, InHand, Return, NoCall
<1>2. FreeBlocks' = FreeBlocks
  BY <1>1 DEF FreeBlocks
<1>3. x.block % 2^x.order = 0 /\ x \notin live
  BY <1>1, SafeParts DEF Good, Layout
<1>4. FreePages \cap Pages(x) = {}
  BY HandPages DEF HandOut
<1> HIDE DEF x
<1>5. Offered = FreePages \cup Pages(x) /\ Offered' = FreePages
  BY <1>1, <1>2 DEF Offered, FreePages, AllPages
<1>6. Pages(x) \subseteq Offered /\ Offered' = Offered \ Pages(x)
  BY <1>4, <1>5
<1>7. Abstract!Alloc(x)
  BY <1>1, <1>3, <1>6 DEF Abstract!Alloc, Abstract!Pages, Pages, Offered
<1> QED
  BY <1>1, <1>7 DEF Abstract!Next

\* The call of deallocate is a Free of the block it is given.
LEMMA DeallocateRefines ==
    ASSUME Typed, Safe, NEW x \in live, Deallocate(x)
    PROVE  Abstract!Next
<1>1. x = Block(x.block, x.order)
  BY DEF Typed, Block
<1>2. InHand = {} /\ InHand' = {x} /\ live' = live \ {x} /\ orders' = orders
  BY <1>1 DEF Deallocate, InHand, Idle
<1>3. FreeBlocks' = FreeBlocks
  BY <1>2 DEF FreeBlocks
<1>4. Offered' = Offered \cup Pages(x)
  BY <1>2, <1>3 DEF Offered, AllPages
<1>5. Abstract!Free(x)
  BY <1>2, <1>4 DEF Abstract!Free, Abstract!Pages, Pages, Offered
<1> QED
  BY <1>5 DEF Abstract!Next

\* add_single_region is an Add of memory that no caller has.
LEMMA AddRefines ==
    ASSUME Typed, Safe, Safe', Listed', AddSingleRegion
    PROVE  Abstract!Next
<1>1. PICK P : Adds(P)
  BY AddMoves
<1>2. InHand = {} /\ InHand' = {} /\ live' = live
  BY DEF AddSingleRegion, InHand, Return, NoCall, Typed, Calls
<1>3. Offered = FreePages /\ Offered' = FreePages'
  BY <1>2 DEF Offered, FreePages, AllPages
<1>4. Offered \subseteq Offered'
  BY <1>1, <1>3 DEF Adds
<1>5. Offered' \cap AllPages(live') = {}
  <2>1. Layout(FreeBlocks', live', InHand')
    BY DEF Safe, NoOverlap, Layout, Apart, AllBlocks
  <2> QED
    BY <2>1, OfferedPages DEF Offered
<1>6. Offered' \subseteq UNION {RegionPages(r) : r \in Regions}
  <2>1. \A x \in FreeBlocks' \cup InHand' : Pages(x) \subseteq AddedPages'
    BY DEF Safe, BlocksValid, AllBlocks
  <2>2. AddedPages' \subseteq UNION {RegionPages(r) : r \in Regions}
    BY DEF AddedPages, Listed
  <2> QED
    BY <2>1, <2>2 DEF Offered, AllPages
<1>7. \A x \in live : Pages(x) \cap Offered' = {}
  BY <1>2, <1>5 DEF AllPages
<1>8. Abstract!Add
  BY <1>2, <1>4, <1>6, <1>7 DEF Abstract!Add, Abstract!Pages, Pages, Offered
<1> QED
  BY <1>8 DEF Abstract!Next

\* The allocator implements PageAllocator: whatever the callers do, a page is
\* either free or in exactly one block that is handed out, blocks are aligned
\* and inside memory that was added, and splitting and merging are invisible.
THEOREM Refinement == RegionsAligned => (Spec => ImplementsPageAllocator)
<1>1. Init => Abstract!Init
  <2> SUFFICES ASSUME Init PROVE Abstract!Init
    OBVIOUS
  <2>1. DOMAIN <<>> = {}
    OBVIOUS
  <2>2. FreeBlocks = {} /\ live = {} /\ InHand = {}
    BY <2>1 DEF Init, FreeBlocks, FreeIn, InHand, NoCall
  <2> QED
    BY <2>2 DEF Abstract!Init, AllPages
<1>2. ASSUME Sound, Sound', [Next]_vars
      PROVE  [Abstract!Next]_(Abstract!vars)
  <2>a. Typed /\ Safe /\ Safe' /\ Listed' /\ [BuddyStep]_vars
    BY <1>2, NextIsStep DEF Sound
  <2>1. CASE AddSingleRegion
    BY <2>a, <2>1, AddRefines
  <2>2. CASE HandOut
    BY <2>a, <2>2, HandOutRefines
  <2>3. ASSUME NEW x \in live, Deallocate(x)
        PROVE  Abstract!Next
    BY <2>a, <2>3, DeallocateRefines
  <2>4. CASE Pop \/ Split \/ PutBack \/ Merge \/ PutBackBoth
    BY <2>a, <2>4, InnerStep
  <2>5. CASE \/ UNCHANGED vars
             \/ \E r : AddRegionTooSmall(r) \/ AddRegion(r)
             \/ \E o : AllocateTooLarge(o) \/ Allocate(o)
             \/ SearchUp
    <3>1. live' = live /\ InHand' = InHand /\ orders' = orders
      BY <2>a, <2>5, QuietMoves
    <3> QED
      BY <3>1 DEF Abstract!vars, FreeBlocks
  <2> QED
    BY <2>a, <2>1, <2>2, <2>3, <2>4, <2>5 DEF BuddyStep, Run
<1>3. ASSUME RegionsAligned
      PROVE  Spec => ImplementsPageAllocator
  <2>1. (Init => Sound) /\ (Sound /\ [Next]_vars => Sound')
    BY <1>3, SoundKept
  <2> QED
    BY <1>1, <1>2, <2>1, PTL
    DEF Spec, ImplementsPageAllocator, Abstract!Spec
<1> QED
  BY <1>3

-----------------------------------------------------------------------------
(* Freeing undoes splitting *)

Mate(x) == Block(buddy_of(x.block, x.order), x.order)

\* No two free blocks of F are the halves of a block inside a larger one of S.
NoPairs(F, S) == \A x \in F, s \in S :
                     Pages(x) \subseteq Pages(s) /\ x.order < s.order => Mate(x) \notin F

\* Coalesced, also in the middle of a call, and seeds that are aligned.
Merged == /\ NoPairs(FreeBlocks, seeds)
          /\ \A s \in seeds : s.block % 2^s.order = 0

\* The buddy of an aligned block, as a block.
LEMMA MateBlock ==
    ASSUME NEW x \in BlockSet, x.block % 2^x.order = 0
    PROVE  /\ Mate(x) \in BlockSet /\ Mate(x).order = x.order
           /\ Mate(Mate(x)) = x /\ Mate(x) # x
<1>1. x.block \in Nat /\ x.order \in Orders /\ x = Block(x.block, x.order)
  BY DEF BlockSet, Block
<1>2. buddy_of(x.block, x.order) \in Nat
  BY <1>1, BuddyNat
<1>3. /\ buddy_of(buddy_of(x.block, x.order), x.order) = x.block
      /\ buddy_of(x.block, x.order) # x.block
  BY <1>1, BuddyTwice
<1>4. Mate(x) \in BlockSet
  BY <1>1, <1>2, BlockIn DEF Mate
<1>5. Mate(x).block = buddy_of(x.block, x.order) /\ Mate(x).order = x.order
  BY BlockFields DEF Mate
<1> QED
  BY <1>1, <1>3, <1>4, <1>5 DEF Mate

\* The buddy of a block inside a larger seed is in it, too.
LEMMA MateInside ==
    ASSUME NEW x \in BlockSet, x.block % 2^x.order = 0,
           NEW s \in BlockSet, s.block % 2^s.order = 0,
           x.order < s.order, Pages(x) \subseteq Pages(s)
    PROVE  Pages(Mate(x)) \subseteq Pages(s)
<1> DEFINE b == x.block
           h == 2^x.order
           c == s.block
           n == 2^s.order
           m == buddy_of(b, x.order)
<1>1. /\ b \in Nat /\ x.order \in Orders /\ c \in Nat /\ s.order \in Orders
  BY DEF BlockSet
<1>2. h \in Nat \ {0} /\ n \in Nat \ {0} /\ m \in Nat
  BY <1>1, PowersOfTwo, BuddyNat
<1>3. Pages(x) = b .. (b + h - 1) /\ Pages(s) = c .. (c + n - 1)
  BY DEF Pages
<1>4. Pages(Mate(x)) = m .. (m + h - 1)
  BY <1>1, <1>2, BlockIn DEF Mate
<1>5. c <= b /\ b + h <= c + n
  <2> HIDE DEF b, h, c, n
  <2>1. b \in b .. (b + h - 1) /\ b + h - 1 \in b .. (b + h - 1)
    BY <1>1, <1>2
  <2>2. b \in c .. (c + n - 1) /\ b + h - 1 \in c .. (c + n - 1)
    BY <1>3, <2>1
  <2> QED
    BY <1>1, <1>2, <2>2
<1>6. c <= m /\ m + h <= c + n
  BY <1>1, <1>5, BuddyInside
<1> HIDE DEF b, h, c, n, m
<1> QED
  BY <1>1, <1>2, <1>3, <1>4, <1>6

\* One more free block whose buddy is not free.
LEMMA AddSingle ==
    ASSUME NEW F \in SUBSET BlockSet, NEW S, NoPairs(F, S),
           \A y \in F : y.block % 2^y.order = 0,
           NEW x \in BlockSet, x.block % 2^x.order = 0, Mate(x) \notin F
    PROVE  NoPairs(F \cup {x}, S)
<1>1. Mate(x) # x
  BY MateBlock
<1>2. \A y \in F : Mate(y) = x => Mate(x) = y
  BY MateBlock
<1> QED
  BY <1>1, <1>2 DEF NoPairs

\* Steps that put nothing into a list.
LEMMA MergedLess ==
    ASSUME Merged, FreeBlocks' \subseteq FreeBlocks, seeds' = seeds
    PROVE  Merged'
BY DEF Merged, NoPairs

\* allocate puts the upper half into a list while the lower half is in hand.
LEMMA MergedSplit ==
    ASSUME Typed, Safe, Merged, Split
    PROVE  Merged'
<1> DEFINE b == call.block
           order == call.cur - 1
           x == Block(b, call.cur)
           low == Block(b, order)
           high == Block(b + 2^order, order)
<1>1. b \in Nat /\ call.cur \in Orders /\ call.cur > 0
  BY BlockTypes, OrderAssumption DEF Split, Orders
<1>2. order \in Orders /\ 2^call.cur = 2 * 2^order /\ 2^order \in Nat \ {0}
  BY <1>1, OrderSizes
<1>3. InHand = {x} /\ FreePages \cap Pages(x) = {} /\ seeds' = seeds
  BY HandPages DEF Split
<1>4. b % 2^call.cur = 0
  <2>1. x.block = b /\ x.order = call.cur
    BY BlockFields
  <2> QED
    BY <1>3, <2>1, SafeParts DEF Good
<1>5. /\ b % 2^order = 0 /\ (b \div 2^order) % 2 = 0
      /\ (b + 2^order) % 2^order = 0
  BY <1>1, <1>2, <1>4, HalvesAligned
<1>6. buddy_of(b, order) = b + 2^order /\ buddy_of(b, order) # 0 /\ b + 2^order \in Nat
  BY <1>1, <1>2, <1>5 DEF buddy_of, size_for_order
<1>7. orders' = order_push(orders, order, b + 2^order)
  BY <1>6 DEF Split
<1>8. FreeBlocks' = FreeBlocks \cup {high}
  BY <1>2, <1>6, <1>7, PushFree DEF FreeBlocks, Typed
<1>9. /\ low \in BlockSet /\ high \in BlockSet /\ Pages(low) \subseteq Pages(x)
  BY <1>1, Halves
<1>10. /\ high.block % 2^high.order = 0
       /\ low.block % 2^low.order = 0
       /\ Mate(low) = high
  BY <1>5, <1>6, BlockFields DEF Mate
<1> HIDE DEF low, high, x
<1>11. Mate(high) = low
  BY <1>9, <1>10, MateBlock
<1>12. low \notin FreeBlocks
  BY <1>3, <1>9, NonEmpty DEF FreePages, AllPages
<1>13. FreeBlocks \subseteq BlockSet /\ \A y \in FreeBlocks : y.block % 2^y.order = 0
  BY BlockTypes, SafeParts DEF Good
<1> QED
  BY <1>3, <1>8, <1>9, <1>10, <1>11, <1>12, <1>13, AddSingle DEF Merged

\* deallocate puts a block into its list after looking for the buddy there.
LEMMA MergedPutBack ==
    ASSUME Typed, Safe, Merged, PutBack
    PROVE  Merged'
<1> DEFINE x == Block(call.block, call.cur)
<1>1. call.block \in Nat /\ call.cur \in Orders /\ call.op = "merge" /\ seeds' = seeds
  BY BlockTypes DEF PutBack
<1>2. buddy_of(call.block, call.cur) # 0
  BY <1>1, NoNullBuddy
<1>3. orders' = order_push(orders, call.cur, call.block)
  BY <1>2 DEF PutBack
<1>4. FreeBlocks' = FreeBlocks \cup {x}
  BY <1>1, <1>3, PushFree DEF FreeBlocks, Typed
<1>5. x \in BlockSet /\ x.block = call.block /\ x.order = call.cur /\ x \in InHand
  BY <1>1, BlockTypes, BlockFields DEF InHand
<1>6. Mate(x) \notin FreeBlocks
  <2>1. ~ InList(orders[call.cur], buddy_of(call.block, call.cur))
    BY DEF PutBack
  <2> HIDE DEF x
  <2>2. ASSUME Mate(x) \in FreeBlocks
        PROVE  FALSE
    <3>1. PICK o \in Orders, c \in Nat : Mate(x) = Block(c, o) /\ InList(orders[o], c)
      BY <2>2, FreeInIff DEF FreeBlocks, Typed
    <3>2. c = buddy_of(call.block, call.cur) /\ o = call.cur
      BY <1>5, <3>1, BlockFields DEF Mate
    <3> QED
      BY <2>1, <3>1, <3>2
  <2> QED
    BY <2>2
<1>7. FreeBlocks \subseteq BlockSet /\ \A y \in FreeBlocks \cup InHand : y.block % 2^y.order = 0
  BY BlockTypes, SafeParts DEF Good
<1> HIDE DEF x
<1> QED
  BY <1>1, <1>4, <1>5, <1>6, <1>7, AddSingle DEF Merged

\* At the largest order there is no larger seed.
LEMMA MergedPutBackBoth ==
    ASSUME Typed, Safe, Merged, PutBackBoth
    PROVE  Merged'
<1> DEFINE b == call.block
           o == call.cur
           mate == buddy_of(b, o)
           x == Block(b, o)
           y == Block(mate, o)
           removed == order_remove(orders, o, mate)
           one == order_push(removed, o, mate)
<1>1. /\ b \in Nat /\ o \in Orders /\ mate \in Nat /\ seeds' = seeds /\ o = MAX_ORDER - 1
  BY BlockTypes, BuddyNat, OrderAssumption DEF PutBackBoth, Orders
<1>2. InList(orders[o], mate) /\ orders' = order_push(one, o, b)
  BY DEF PutBackBoth
<1>3. /\ removed \in Lists /\ y \in FreeBlocks /\ FreeIn(removed) = FreeBlocks \ {y}
  BY <1>1, <1>2, RemoveFree, SafeParts DEF FreeBlocks, Typed
<1> HIDE DEF removed, mate
<1>4. one \in Lists /\ FreeIn(one) = FreeBlocks
  <2>1. one \in Lists /\ FreeIn(one) = FreeIn(removed) \cup {y}
    BY <1>1, <1>3, PushFree
  <2> HIDE DEF one, y
  <2> QED
    BY <1>3, <2>1
<1> HIDE DEF one
<1>5. FreeBlocks' = FreeBlocks \cup {x} /\ x.order = o
  BY <1>1, <1>2, <1>4, PushFree, BlockFields DEF FreeBlocks
<1> HIDE DEF x
<1>6. \A s \in seeds : s.order \in Orders
  BY DEF Typed
<1>7. \A s \in seeds : ~ (x.order < s.order)
  BY <1>1, <1>5, <1>6, OrderAssumption DEF Orders
<1>8. ASSUME NEW z \in FreeBlocks, NEW s \in seeds,
             Pages(z) \subseteq Pages(s), z.order < s.order
      PROVE  Mate(z) \notin FreeBlocks \cup {x}
  <2>1. Mate(z) \notin FreeBlocks
    BY <1>8 DEF Merged, NoPairs
  <2>2. Mate(z).order = z.order
    BY BlockFields DEF Mate
  <2> QED
    BY <1>7, <1>8, <2>1, <2>2
<1> QED
  BY <1>1, <1>5, <1>7, <1>8 DEF Merged, NoPairs

\* A block that add_region adds is of fresh pages: it is inside no older seed,
\* and neither is its buddy.
LEMMA MergedAdd ==
    ASSUME Typed, Safe, Books, Merged, AddSingleRegion
    PROVE  Merged'
<1> DEFINE b == call.block
           end == call.arg
           k == region_order(b, end)
           x == Block(b, k)
<1>1. /\ b \in Nat /\ end \in Nat /\ b < end
      /\ MAX_ORDER = 1 \/ b % 4 # 1
      /\ \A w \in AllBlocks : Pages(w) \cap (b .. end - 1) = {}
  BY BlockTypes, SafeParts DEF AddSingleRegion, CallInv
<1>2. k \in Orders /\ 2^k \in Nat \ {0} /\ b % 2^k = 0 /\ b + 2^k <= end
  BY <1>1, AddedBlock
<1> HIDE DEF k
<1>3. ~ NullBuddy(b, end)
  BY NoNullBuddy DEF AddSingleRegion
<1>4. orders' = order_push(orders, k, b) /\ seeds' = seeds \cup {x}
  BY <1>3 DEF AddSingleRegion, k, size_for_order
<1>5. FreeBlocks' = FreeBlocks \cup {x}
  BY <1>1, <1>2, <1>4, PushFree DEF FreeBlocks, Typed
<1>6. /\ x \in BlockSet /\ x.block % 2^x.order = 0
      /\ Pages(x) \subseteq b .. end - 1
  <2>1. x \in BlockSet /\ Pages(x) = b .. (b + 2^k - 1) /\ x.block = b /\ x.order = k
    BY <1>1, <1>2, BlockIn, BlockFields
  <2> QED
    BY <1>1, <1>2, <2>1
<1> HIDE DEF x
<1>7. Pages(x) \cap (FreePages \cup TakenPages) = {}
  BY <1>1, <1>6 DEF FreePages, TakenPages, AllPages, AllBlocks
<1>8. /\ \A s \in seeds : Pages(x) \cap Pages(s) = {}
      /\ \A y \in FreeBlocks : Pages(x) \cap Pages(y) = {}
  BY <1>7 DEF Books, SeedPages, FreePages, AllPages
<1>9. /\ FreeBlocks \subseteq BlockSet /\ seeds \subseteq BlockSet
      /\ \A y \in FreeBlocks : y.block % 2^y.order = 0
      /\ Pages(x) # {} /\ \A y \in FreeBlocks : Pages(y) # {}
      /\ x.order \in Nat
  BY <1>6, BlockTypes, SafeParts, NonEmpty, OrderAssumption DEF Good, Typed, BlockSet, Orders
<1>10. ASSUME NEW y \in FreeBlocks \cup {x}, NEW s \in seeds \cup {x},
              Pages(y) \subseteq Pages(s), y.order < s.order
       PROVE  Mate(y) \notin FreeBlocks \cup {x}
  <2>1. y # x
    BY <1>8, <1>9, <1>10
  <2>2. y \in FreeBlocks /\ s \in seeds
    BY <1>8, <1>9, <1>10, <2>1
  <2>3. Mate(y) \notin FreeBlocks
    BY <1>10, <2>2 DEF Merged, NoPairs
  <2>4. Pages(Mate(y)) \subseteq Pages(s)
    BY <1>9, <1>10, <2>2, MateInside DEF Merged
  <2>5. Mate(y) # x
    BY <1>8, <1>9, <2>2, <2>4
  <2> QED
    BY <2>3, <2>5
<1>11. NoPairs(FreeBlocks', seeds')
  BY <1>4, <1>5, <1>10 DEF NoPairs
<1> QED
  BY <1>4, <1>6, <1>11 DEF Merged

\* Every step keeps freed memory merged.
LEMMA NextMerged ==
    ASSUME Typed, Safe, Books, Merged, [BuddyStep]_vars
    PROVE  Merged'
<1>1. CASE AddSingleRegion \/ Split \/ PutBack \/ PutBackBoth
  BY <1>1, MergedAdd, MergedSplit, MergedPutBack, MergedPutBackBoth
<1>2. CASE Pop
  <2>1. call.cur \in Orders /\ orders \in Lists /\ orders[call.cur] # <<>>
    BY <1>2, BlockTypes DEF Pop, Typed
  <2>2. FreeBlocks' \subseteq FreeBlocks
    BY <1>2, <2>1, PopFree, SafeParts DEF Pop, FreeBlocks
  <2> QED
    BY <1>2, <2>2, MergedLess DEF Pop
<1>3. CASE Merge
  <2>1. FreeBlocks' \subseteq FreeBlocks
    BY <1>3, BlockTypes, RemoveFree, SafeParts DEF Merge, FreeBlocks, Typed
  <2> QED
    BY <1>3, <2>1, MergedLess DEF Merge
<1>4. CASE UNCHANGED <<orders, seeds>>
  BY <1>4, MergedLess DEF FreeBlocks
<1> QED
  BY <1>1, <1>2, <1>3, <1>4
  DEF BuddyStep, Run, vars, AddRegionTooSmall, AddRegion, AllocateTooLarge, Allocate,
      SearchUp, HandOut, Deallocate

\* Freeing undoes splitting, whatever was allocated and freed in whatever order:
\* no two free blocks are the halves of a block inside a larger one that was
\* added, so that memory which was all given back can be allocated as before.
THEOREM FreedIsMerged == RegionsAligned => (Spec => []Coalesced)
<1>1. Init => Merged
  <2> SUFFICES ASSUME Init PROVE Merged
    OBVIOUS
  <2>1. seeds = {}
    BY DEF Init
  <2> QED
    BY <2>1 DEF Merged, NoPairs
<1>2. Merged => Coalesced
  BY DEF Merged, NoPairs, Mate, Coalesced
<1>3. ASSUME RegionsAligned
      PROVE  Spec => []Coalesced
  <2>1. Spec => [](Sound /\ Books)
    BY <1>3, BooksAlways
  <2>2. Sound /\ Books /\ Merged /\ [Next]_vars => Merged'
    BY NextIsStep, NextMerged DEF Sound
  <2> QED
    BY <1>1, <1>2, <2>1, <2>2, PTL DEF Spec
<1> QED
  BY <1>3

-----------------------------------------------------------------------------
(* add_region misses no page *)

\* The pages that a running add_region has still to add.
Pending == IF call.op = "add" THEN call.block .. call.arg - 1 ELSE {}

\* The pages of the regions are in the lists, or still to come.
Seeded == SeedPages \cup Pending = AddedPages /\ SeedPages \cap Pending = {}

\* At the start there are none.
LEMMA InitSeeded == Init => Seeded
<1> SUFFICES ASSUME Init PROVE Seeded
  OBVIOUS
<1>1. seeds = {} /\ added = {} /\ call.op = "idle"
  BY DEF Init, NoCall
<1> QED
  BY <1>1 DEF Seeded, SeedPages, AllPages, AddedPages, Pending

\* add_single_region moves the pages of one block.
LEMMA SeededAdd ==
    ASSUME Typed, Safe, Seeded, AddSingleRegion
    PROVE  Seeded'
<1> DEFINE b == call.block
           end == call.arg
           k == region_order(b, end)
           x == Block(b, k)
<1>1. b \in Nat /\ end \in Nat /\ b < end /\ (MAX_ORDER = 1 \/ b % 4 # 1)
  BY BlockTypes, SafeParts DEF AddSingleRegion, CallInv
<1>2. k \in Orders /\ 2^k \in Nat \ {0} /\ b + 2^k <= end
  BY <1>1, AddedBlock
<1> HIDE DEF k
<1>3. ~ NullBuddy(b, end)
  BY NoNullBuddy DEF AddSingleRegion
<1>4. /\ seeds' = seeds \cup {x} /\ added' = added /\ call.op = "add"
      /\ IF b + 2^k < end
         THEN call' = [call EXCEPT !.block = b + 2^k]
         ELSE call' = NoCall
  BY <1>3 DEF AddSingleRegion, k, size_for_order, Return
<1>5. Pages(x) = b .. (b + 2^k - 1)
  BY <1>1, <1>2, BlockIn
<1>6. Pending = b .. end - 1
  BY <1>4 DEF Pending
<1>7. Pending' = (b + 2^k) .. end - 1
  <2>1. CASE b + 2^k < end
    BY <1>4, <2>1 DEF Pending, Typed, Calls
  <2>2. CASE ~ (b + 2^k < end)
    BY <1>1, <1>2, <1>4, <2>2 DEF Pending, NoCall
  <2> QED
    BY <2>1, <2>2
<1>8. Pending = Pages(x) \cup Pending' /\ Pages(x) \cap Pending' = {}
  BY <1>1, <1>2, <1>5, <1>6, <1>7
<1> HIDE DEF x
<1>9. SeedPages' = SeedPages \cup Pages(x) /\ AddedPages' = AddedPages
  BY <1>4 DEF SeedPages, AllPages, AddedPages
<1> QED
  BY <1>8, <1>9 DEF Seeded

\* The steps of allocate and deallocate add nothing.
LEMMA NothingAdded ==
    ASSUME Typed,
           \/ \E o : AllocateTooLarge(o) \/ Allocate(o)
           \/ \E x \in live : Deallocate(x)
           \/ SearchUp \/ Pop \/ Split \/ HandOut \/ PutBack \/ Merge \/ PutBackBoth
    PROVE  UNCHANGED <<seeds, added>> /\ call.op # "add" /\ call'.op # "add"
<1>1. UNCHANGED <<seeds, added>> /\ call.op # "add"
  BY DEF AllocateTooLarge, Allocate, Deallocate, Idle, SearchUp, Pop, Split, HandOut,
              PutBack, Merge, PutBackBoth
<1>2. call'.op # "add"
  <2>1. CASE (\E o : AllocateTooLarge(o) \/ Allocate(o)) \/ \E x \in live : Deallocate(x)
    BY <2>1 DEF AllocateTooLarge, Allocate, Deallocate, Idle
  <2>a. call \in Calls
    BY DEF Typed
  <2>2. CASE SearchUp
    BY <2>a, <2>2 DEF SearchUp, Return, NoCall, Calls
  <2>3. CASE Pop
    BY <2>a, <2>3 DEF Pop, Calls
  <2>4. CASE Split
    BY <2>a, <2>4 DEF Split, Return, NoCall, Calls
  <2>5. CASE Merge
    BY <2>a, <2>5 DEF Merge, Calls
  <2>6. CASE HandOut \/ PutBack \/ PutBackBoth
    BY <2>6 DEF HandOut, PutBack, PutBackBoth, Return, NoCall
  <2> QED
    BY <2>1, <2>2, <2>3, <2>4, <2>5, <2>6
<1> QED
  BY <1>1, <1>2

\* Every step keeps it.
LEMMA NextSeeded ==
    ASSUME Typed, Typed', Safe, Seeded, [BuddyStep]_vars,
           \A r : AddRegion(r) => Admissible(r)
    PROVE  Seeded'
<1>1. CASE AddSingleRegion
  BY <1>1, SeededAdd
<1>2. ASSUME NEW r, AddRegion(r)
      PROVE  Seeded'
  <2>1. /\ FirstPage(r) \in Nat /\ EndPage(r) \in Nat
        /\ AddedPages \cap RegionPages(r) = {}
    BY <1>2 DEF Admissible, RegionOK
  <2>2. Pending = {} /\ Pending' = RegionPages(r)
    BY <1>2 DEF AddRegion, Idle, Pending, RegionPages
  <2>3. AddedPages' = AddedPages \cup RegionPages(r) /\ SeedPages' = SeedPages
    BY <1>2 DEF AddRegion, AddedPages, SeedPages
  <2> QED
    BY <2>1, <2>2, <2>3 DEF Seeded
<1>3. ASSUME NEW r, AddRegionTooSmall(r)
      PROVE  Seeded'
  <2>1. FirstPage(r) \in Nat /\ EndPage(r) \in Nat
    BY <1>3 DEF AddRegionTooSmall, Typed, RegionOK
  <2>2. RegionPages(r) = {}
    BY <1>3, <2>1 DEF AddRegionTooSmall, RegionPages
  <2> QED
    BY <1>3, <2>2 DEF AddRegionTooSmall, AddedPages, SeedPages, Seeded, Pending
<1>4. CASE UNCHANGED vars
  BY <1>4 DEF vars, Seeded, SeedPages, AddedPages, Pending
<1>5. ASSUME \/ \E o : AllocateTooLarge(o) \/ Allocate(o)
             \/ \E x \in live : Deallocate(x)
             \/ SearchUp \/ Pop \/ Split \/ HandOut \/ PutBack \/ Merge \/ PutBackBoth
      PROVE  Seeded'
  BY <1>5, NothingAdded DEF Seeded, SeedPages, AddedPages, Pending
<1> QED
  BY <1>1, <1>2, <1>3, <1>4, <1>5 DEF BuddyStep, Run

\* Between calls every page of every region that was added is in some place:
\* free, or handed out.  With NoPageTwice, add_region puts each into one block.
THEOREM RegionsComplete ==
    RegionsAligned => (Spec => [](Idle => AllPages(AllBlocks) = AddedPages))
<1>1. Init => Seeded
  BY InitSeeded
<1>2. Books /\ Seeded => (Idle => AllPages(AllBlocks) = AddedPages)
  <2>1. AllPages(AllBlocks) = FreePages \cup TakenPages
    BY DEF AllPages, AllBlocks, FreePages, TakenPages
  <2> QED
    BY <2>1 DEF Books, Seeded, Idle, Pending
<1>3. ASSUME RegionsAligned
      PROVE  Spec => [](Idle => AllPages(AllBlocks) = AddedPages)
  <2>1. Spec => [](Sound /\ Books)
    BY <1>3, BooksAlways
  <2>2. Sound /\ Sound' /\ Seeded /\ [Next]_vars => Seeded'
    BY <1>3, NextIsStep, NextSeeded, SoundAdds DEF Sound
  <2> QED
    BY <1>1, <1>2, <2>1, <2>2, PTL DEF Spec
<1> QED
  BY <1>3
=============================================================================
