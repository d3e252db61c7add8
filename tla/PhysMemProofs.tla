--------------------------- MODULE PhysMemProofs ---------------------------
(***************************************************************************)
(* Proofs about PhysMem, for every layout of memory, page size, number of  *)
(* orders and number of slots: what init() hands to the allocator, and     *)
(* what the allocator does with it afterwards.  They join the invariant of *)
(* the RangeSet (SetInv, with the bytes that are meant so far), the one of *)
(* the allocator (Typed, Safe, Seeded) and the link between the two: the   *)
(* regions that were added are the first entries of the set.               *)
(***************************************************************************)
EXTENDS PhysMem, BuddyBooks, RangeSetProofs

-----------------------------------------------------------------------------
(* Bytes and pages *)

\* Comparing with a quotient.
LEMMA DivBound ==
    ASSUME NEW s \in Nat \ {0}, NEW x \in Nat, NEW p \in Int
    PROVE  /\ x \div s \in Nat
           /\ p <= x \div s <=> p * s <= x
           /\ (x + s - 1) \div s <= p <=> x <= p * s
<1>a. ASSUME NEW n \in Int
      PROVE  /\ s * n \in Int /\ n * s = s * n /\ s * (n + 1) = s * n + s
             /\ (p <= n <=> s * p <= s * n) /\ (n <= p <=> s * n <= s * p)
             /\ (n + 1 <= p <=> s * (n + 1) <= s * p)
             /\ (p + 1 <= n <=> s * (p + 1) <= s * n)
  BY MulOrder
<1>b. p * s = s * p /\ s * p \in Int /\ s * (p + 1) = s * p + s
  OBVIOUS
<1>1. PICK q \in Nat, m \in Nat : x = s * q + m /\ m < s /\ q = x \div s
  OBVIOUS
<1>2. PICK y \in Nat : y = x + s - 1
  OBVIOUS
<1>3. PICK u \in Nat, n \in Nat : y = s * u + n /\ n < s /\ u = y \div s
  OBVIOUS
<1>c. s * q \in Int /\ s * (q + 1) = s * q + s
  BY <1>a
<1>4. PICK sq \in Int : /\ sq = s * q /\ x = sq + m
                        /\ (p <= q <=> s * p <= sq) /\ (q + 1 <= p <=> sq + s <= s * p)
  BY <1>1, <1>a, <1>c
<1>d. /\ s * u \in Int
      /\ u <= p <=> s * u <= s * p
      /\ p + 1 <= u <=> s * (p + 1) <= s * u
  BY <1>a
<1>5. PICK su \in Int : /\ su = s * u /\ y = su + n
                        /\ (u <= p <=> su <= s * p) /\ (p + 1 <= u <=> s * p + s <= su)
  BY <1>3, <1>b, <1>d
<1>6. PICK sp \in Int : sp = s * p
  BY <1>b
<1>7. p <= q <=> sp <= x
  BY <1>1, <1>4, <1>6
<1>8. u <= p <=> x <= sp
  BY <1>2, <1>3, <1>5, <1>6
<1> QED
  BY <1>1, <1>2, <1>3, <1>6, <1>7, <1>8, <1>b

\* The pages that add_region takes of a range: those that lie in it with the
\* byte behind them.
LEMMA RangePages ==
    ASSUME NEW r \in RangeType
    PROVE  /\ FirstPage(r) \in Nat /\ EndPage(r) \in Nat
           /\ \A p \in Int : p \in RegionPages(r) <=>
                  r.start <= p * PAGE_SIZE /\ (p + 1) * PAGE_SIZE <= r.end
<1>1. r.start \in Nat /\ r.end \in Nat /\ PAGE_SIZE \in Nat \ {0}
  BY RangeParts, OrderAssumption
<1>2. FirstPage(r) \in Nat
  <2>1. r.start + PAGE_SIZE - 1 \in Nat
    BY <1>1
  <2> QED
    BY <1>1, <2>1, DivBound DEF FirstPage
<1>3. EndPage(r) \in Nat
  BY <1>1, DivBound DEF EndPage
<1>4. ASSUME NEW p \in Int
      PROVE  p \in RegionPages(r) <=>
                 r.start <= p * PAGE_SIZE /\ (p + 1) * PAGE_SIZE <= r.end
  <2>1. FirstPage(r) <= p <=> r.start <= p * PAGE_SIZE
    BY <1>1, DivBound DEF FirstPage
  <2>2. p + 1 <= EndPage(r) <=> (p + 1) * PAGE_SIZE <= r.end
    <3>1. p + 1 \in Int
      OBVIOUS
    <3> QED
      BY <1>1, <3>1, DivBound DEF EndPage
  <2>3. p \in RegionPages(r) <=> FirstPage(r) <= p /\ p + 1 <= EndPage(r)
    BY <1>2, <1>3 DEF RegionPages
  <2> QED
    BY <2>1, <2>2, <2>3
<1> QED
  BY <1>2, <1>3, <1>4

\* The first and the last byte of a page, and the byte behind it.
LEMMA PageBytes ==
    ASSUME NEW p \in Int
    PROVE  /\ p * PAGE_SIZE \in Int
           /\ (p + 1) * PAGE_SIZE = p * PAGE_SIZE + PAGE_SIZE
           /\ p * PAGE_SIZE \in Bytes(p)
           /\ \A b \in Bytes(p) : /\ b \in Int
                                  /\ p * PAGE_SIZE <= b /\ b < (p + 1) * PAGE_SIZE
<1>1. PICK x \in Int : x = p * PAGE_SIZE
  BY OrderAssumption
<1>2. (p + 1) * PAGE_SIZE = x + PAGE_SIZE
  BY <1>1, OrderAssumption
<1> QED
  BY <1>1, <1>2, OrderAssumption DEF Bytes

\* Every page of a range lies in it.
LEMMA PageInside ==
    ASSUME NEW r \in RangeType, NEW p \in RegionPages(r)
    PROVE  p \in Nat /\ Bytes(p) \subseteq Covered(r) /\ (p + 1) * PAGE_SIZE \in Covered(r)
<1>1. r.start \in Nat /\ r.end \in Nat
  BY RangeParts
<1>2. p \in Nat
  BY RangePages DEF RegionPages
<1>3. r.start <= p * PAGE_SIZE /\ (p + 1) * PAGE_SIZE <= r.end
  BY <1>2, RangePages
<1>4. PICK x \in Int : x = p * PAGE_SIZE /\ (p + 1) * PAGE_SIZE = x + PAGE_SIZE
  BY <1>2, PageBytes
<1>5. Bytes(p) = x .. x + PAGE_SIZE - 1
  BY <1>4, OrderAssumption DEF Bytes
<1>6. r.start <= x /\ x + PAGE_SIZE <= r.end
  BY <1>3, <1>4
<1>7. Bytes(p) \subseteq r.start .. r.end /\ x + PAGE_SIZE \in r.start .. r.end
  BY <1>1, <1>5, <1>6, OrderAssumption
<1> QED
  BY <1>2, <1>4, <1>7 DEF Covered

-----------------------------------------------------------------------------
(* Layouts *)

\* The regions of the tree and the blocked ranges, as init() gives them to the
\* RangeSet.
LEMMA LayoutTypes ==
    ASSUME NEW l \in Layouts
    PROVE  /\ Len(l.memory) \in Nat /\ Len(l.blocked) \in Nat
           /\ \A k \in 1 .. Len(l.memory) :
                 LET m == l.memory[k]
                     r == Range_new(m.start, m.end - 1)
                 IN  /\ r \in RangeType
                     /\ Covered(r) = m.start .. m.end - 1
                     /\ m.start .. m.end - 1 \subseteq Usize
                     /\ \A b \in m.start .. m.end - 1 : b >= 2^MAX_ORDER * PAGE_SIZE
           /\ \A k \in 1 .. Len(l.blocked) :
                 /\ l.blocked[k] \in RangeType
                 /\ Covered(l.blocked[k]) = l.blocked[k].start .. l.blocked[k].end
<1>1. /\ l.memory \in Seq([start : 0 .. UsizeMax, end : 1 .. UsizeMax])
      /\ l.blocked \in Seq(RangeType)
      /\ \A k \in DOMAIN l.memory : l.memory[k].start >= 2^MAX_ORDER * PAGE_SIZE
  BY LayoutsAssumption DEF RangeType, Usize
<1>2. /\ Len(l.memory) \in Nat /\ DOMAIN l.memory = 1 .. Len(l.memory)
      /\ Len(l.blocked) \in Nat
  BY <1>1, LenProperties
<1>3. ASSUME NEW k \in 1 .. Len(l.blocked)
      PROVE  l.blocked[k] \in RangeType
  BY <1>1, <1>3, ElementOfSeq
<1>4. ASSUME NEW k \in 1 .. Len(l.memory), NEW m, m = l.memory[k],
             NEW r, r = Range_new(m.start, m.end - 1)
      PROVE  /\ r \in RangeType
             /\ Covered(r) = m.start .. m.end - 1
             /\ m.start .. m.end - 1 \subseteq Usize
             /\ \A b \in m.start .. m.end - 1 : b >= 2^MAX_ORDER * PAGE_SIZE
  <2>1. m \in [start : 0 .. UsizeMax, end : 1 .. UsizeMax]
    BY <1>1, <1>4, ElementOfSeq
  <2>2. /\ m.start \in Usize /\ m.end \in 1 .. UsizeMax /\ m.end - 1 \in Usize
        /\ m.start \in Nat /\ m.end \in Nat
    BY <2>1, RangeSetAssumption DEF Usize
  <2>3. r \in RangeType /\ r.start = m.start /\ r.end = m.end - 1
    BY <1>4, <2>2, RangeTyped
  <2>4. m.start >= 2^MAX_ORDER * PAGE_SIZE
    BY <1>1, <1>2, <1>4
  <2>5. 2^MAX_ORDER * PAGE_SIZE \in Nat
    BY TopSize, OrderAssumption
  <2> QED
    BY <2>2, <2>3, <2>4, <2>5, RangeSetAssumption DEF Covered, Usize
<1> QED
  BY <1>2, <1>3, <1>4 DEF Covered

\* The bytes of one more region, and of one more blocked range.
LEMMA OneMore ==
    ASSUME NEW l, NEW n \in Nat
    PROVE  /\ Inserted(l, 0) = {} /\ CutOut(l, 0) = {}
           /\ Inserted(l, n + 1) = Inserted(l, n)
                 \cup (l.memory[n + 1].start .. l.memory[n + 1].end - 1)
           /\ CutOut(l, n + 1) = CutOut(l, n)
                 \cup (l.blocked[n + 1].start .. l.blocked[n + 1].end)
<1>1. 1 .. 0 = {} /\ 1 .. n + 1 = (1 .. n) \cup {n + 1}
  OBVIOUS
<1> QED
  BY <1>1 DEF Inserted, CutOut

\* Usable memory is above the largest block.
LEMMA UsableAbove ==
    ASSUME NEW l \in Layouts, NEW b \in Usable(l)
    PROVE  b \in Usize /\ b \in Nat /\ b >= 2^MAX_ORDER * PAGE_SIZE
<1>1. PICK k \in 1 .. Len(l.memory) : b \in l.memory[k].start .. l.memory[k].end - 1
  BY DEF Usable, Inserted
<1> QED
  BY <1>1, LayoutTypes, RangeSetAssumption DEF Usize

-----------------------------------------------------------------------------
(* The entries of the finished set *)

\* Every entry is a stretch of usable memory that is usable no further down.
LEMMA EntryUsable ==
    ASSUME NEW l \in Layouts, SetInv(Usable(l)), SetIdle,
           NEW j \in 0 .. rs.idx - 1, NEW r, r = rs.ranges[j]
    PROVE  /\ r \in RangeType /\ r.start <= r.end
           /\ r.start \in Covered(r)
           /\ Covered(r) \subseteq Usable(l)
           /\ r.start - 1 \notin Usable(l)
<1>1. SetTyped /\ Separated /\ Content(Usable(l)) /\ work.op = "idle"
  BY DEF SetInv, SetIdle, Panicked
<1>2. rs.idx \in Nat /\ \A k \in 0 .. rs.idx - 1 : rs.ranges[k] \in RangeType
  BY <1>1, SetParts, RangeSetAssumption DEF Slots
<1>3. r \in RangeType /\ r.start <= r.end
  BY <1>1, <1>2 DEF Separated
<1>4. r.start \in Nat /\ r.end \in Nat /\ r.end <= UsizeMax
  BY <1>3, RangeParts
<1>5. \A a \in Usize : a \in Usable(l) <=> InEntry(a)
  BY <1>1 DEF Content
<1>6. Covered(r) \subseteq Usable(l)
  <2> SUFFICES ASSUME NEW a \in Covered(r) PROVE a \in Usable(l)
    OBVIOUS
  <2>1. a \in Usize
    BY <1>4, RangeSetAssumption DEF Covered, Usize
  <2> QED
    BY <1>5, <2>1 DEF InEntry
<1>7. ASSUME r.start - 1 \in Usable(l)
      PROVE  FALSE
  <2>1. PICK k \in 0 .. rs.idx - 1 : r.start - 1 \in Covered(rs.ranges[k])
    BY <1>5, <1>7, UsableAbove DEF InEntry
  <2>2. /\ rs.ranges[k].start \in Nat /\ rs.ranges[k].end \in Nat
    BY <1>2, RangeParts
  <2>3. k # j
    BY <1>4, <2>1 DEF Covered
  <2>4. Gap(r, rs.ranges[k])
    BY <1>1, <2>3 DEF Separated
  <2> QED
    BY <1>3, <1>4, <2>1, <2>2, <2>4 DEF Gap, Covered
<1> QED
  BY <1>3, <1>4, <1>6, <1>7 DEF Covered

\* No page is in two of them.
LEMMA EntriesApart ==
    ASSUME SetTyped, Separated, NEW j \in 0 .. rs.idx - 1, NEW k \in 0 .. rs.idx - 1, j # k
    PROVE  RegionPages(rs.ranges[j]) \cap RegionPages(rs.ranges[k]) = {}
<1>1. rs.ranges[j] \in RangeType /\ rs.ranges[k] \in RangeType
  BY SetParts, RangeSetAssumption DEF Slots
<1>2. /\ rs.ranges[j].start \in Nat /\ rs.ranges[j].end \in Nat
      /\ rs.ranges[k].start \in Nat /\ rs.ranges[k].end \in Nat
  BY <1>1, RangeParts
<1>3. Gap(rs.ranges[j], rs.ranges[k])
  BY DEF Separated
<1>4. ASSUME NEW p, p \in RegionPages(rs.ranges[j]), p \in RegionPages(rs.ranges[k])
      PROVE  FALSE
  <2>1. /\ p \in Nat
        /\ Bytes(p) \subseteq Covered(rs.ranges[j]) /\ Bytes(p) \subseteq Covered(rs.ranges[k])
    BY <1>1, <1>4, PageInside
  <2>2. p * PAGE_SIZE \in Bytes(p) /\ p * PAGE_SIZE \in Int
    BY <2>1, PageBytes
  <2>3. PICK x \in Int : x \in Covered(rs.ranges[j]) /\ x \in Covered(rs.ranges[k])
    BY <2>1, <2>2
  <2> QED
    BY <1>2, <1>3, <2>3 DEF Gap, Covered
<1> QED
  BY <1>4

\* The next entry may be given to add_region.
LEMMA EntryAdmissible ==
    ASSUME NEW l \in Layouts, Aligned(l), SetInv(Usable(l)), SetIdle,
           NEW j \in 0 .. rs.idx - 1, added = {rs.ranges[h] : h \in 0 .. j - 1}
    PROVE  Admissible(rs.ranges[j])
<1>1. PICK r : r = rs.ranges[j]
  OBVIOUS
<1>2. /\ r \in RangeType /\ r.start \in Usable(l) /\ r.start - 1 \notin Usable(l)
  BY <1>1, EntryUsable
<1>3. r.start \in Nat /\ r.start >= 2^MAX_ORDER * PAGE_SIZE
  BY <1>2, UsableAbove
<1>4. FirstPage(r) \in Nat /\ EndPage(r) \in Nat
  BY <1>2, RangePages
<1>5. FirstPage(r) >= 2^MAX_ORDER
  <2>1. PICK m \in Nat : m = 2^MAX_ORDER
    BY TopSize
  <2>2. FirstPage(r) <= m - 1 <=> r.start <= (m - 1) * PAGE_SIZE
    <3>1. PICK p \in Int : p = m - 1
      OBVIOUS
    <3>2. FirstPage(r) <= p <=> r.start <= p * PAGE_SIZE
      BY <1>3, OrderAssumption, DivBound DEF FirstPage
    <3> QED
      BY <3>1, <3>2
  <2>3. (m - 1) * PAGE_SIZE < m * PAGE_SIZE /\ m * PAGE_SIZE \in Int /\ (m - 1) * PAGE_SIZE \in Int
    <3>1. m - 1 \in Int /\ (m - 1) + 1 = m
      OBVIOUS
    <3>2. m * PAGE_SIZE = (m - 1) * PAGE_SIZE + PAGE_SIZE /\ (m - 1) * PAGE_SIZE \in Int
      BY <3>1, PageBytes
    <3> QED
      BY <3>2, OrderAssumption
  <2>4. ~ (FirstPage(r) <= m - 1)
    BY <1>3, <2>1, <2>2, <2>3
  <2> QED
    BY <1>4, <2>1, <2>4
<1>6. FirstPage(r) % 4 # 1
  BY <1>2 DEF Aligned, FirstPage
<1>7. AddedPages \cap RegionPages(r) = {}
  <2> SUFFICES ASSUME NEW h \in 0 .. j - 1
               PROVE  RegionPages(rs.ranges[h]) \cap RegionPages(r) = {}
    BY DEF AddedPages
  <2>1. SetTyped /\ Separated /\ rs.idx \in Nat
    BY SetParts DEF SetInv
  <2>2. h \in 0 .. rs.idx - 1 /\ h # j
    BY <2>1
  <2> QED
    BY <1>1, <2>1, <2>2, EntriesApart
<1> QED
  BY <1>1, <1>4, <1>5, <1>6, <1>7 DEF Admissible, RegionOK

-----------------------------------------------------------------------------
(* The invariant *)

Phases == {"memory", "blocked", "add", "up", "panicked"}

\* The bytes that the set stands for when the call that is running, if any, has
\* returned: n is the iterator of the loop in phase ph.
Wanted(l, ph, n) ==
    CASE ph = "memory"  -> Inserted(l, n - 1)
      [] ph = "blocked" -> Inserted(l, Len(l.memory)) \ CutOut(l, n - 1)
      [] OTHER          -> Usable(l)

PhysTyped == layout \in Layouts /\ phase \in Phases /\ i \in Nat \ {0}

\* Where the loops of init() are.
Loops == /\ phase = "memory" => i - 1 <= Len(layout.memory)
         /\ phase = "blocked" => i - 1 <= Len(layout.blocked)

\* The regions that were added are the entries that the last loop has passed.
Passed == /\ phase \in {"memory", "blocked"} => added = {}
          /\ phase \in {"add", "up"} =>
                /\ SetIdle
                /\ i - 1 <= rs.idx
                /\ added = {rs.ranges[h] : h \in 0 .. i - 2}
          /\ phase = "up" => i - 1 = rs.idx /\ call.op # "add"

Inside == \A r \in added : r \in RangeType /\ Covered(r) \subseteq UsableBytes

PhysInv == /\ PhysTyped /\ Loops /\ Passed /\ Inside
           /\ phase # "panicked" => SetInv(Wanted(layout, phase, i))
           /\ Typed /\ Safe /\ Seeded

\* What the conjuncts say of a phase that is given.
LEMMA WantedIs ==
    ASSUME NEW l, NEW n
    PROVE  /\ Wanted(l, "memory", n) = Inserted(l, n - 1)
           /\ Wanted(l, "blocked", n) = Inserted(l, Len(l.memory)) \ CutOut(l, n - 1)
           /\ Wanted(l, "add", n) = Usable(l)
           /\ Wanted(l, "up", n) = Usable(l)
  BY DEF Wanted

\* It holds at the start.
LEMMA InitPhysInv == PhysInit => PhysInv
<1> SUFFICES ASSUME PhysInit PROVE PhysInv
  OBVIOUS
<1>1. layout \in Layouts /\ phase = "memory" /\ i = 1 /\ added = {} /\ Init /\ SetInit
  BY DEF PhysInit, Init
<1>2. Wanted(layout, phase, i) = {}
  <2>1. 1 - 1 = 0
    OBVIOUS
  <2> QED
    BY <1>1, <2>1, WantedIs, OneMore
<1>3. SetInv(Wanted(layout, phase, i))
  BY <1>1, <1>2, SetInitInv
<1>4. Typed /\ Safe /\ Seeded
  BY <1>1, InitTypeOK, InitSafe, InitSeeded
<1>5. PhysTyped /\ Inside /\ Passed
  BY <1>1 DEF PhysTyped, Phases, Inside, Passed
<1>6. Loops
  <2>1. Len(layout.memory) \in Nat
    BY <1>1, LayoutTypes
  <2> QED
    BY <1>1, <2>1 DEF Loops
<1> QED
  BY <1>3, <1>4, <1>5, <1>6 DEF PhysInv

\* The allocator under any step, as long as its regions are admissible.
LEMMA AllocKept ==
    ASSUME Typed, Safe, Seeded, [BuddyStep]_vars, \A r \in added' : RegionOK(r),
           \A r : AddRegion(r) => Admissible(r)
    PROVE  Typed' /\ Safe' /\ Seeded'
<1>1. Typed'
  BY StepTypeOK
<1> QED
  BY <1>1, StepSafe, NextSeeded

\* A step that leaves it alone.
LEMMA AllocQuiet ==
    ASSUME Typed, Safe, Seeded, UNCHANGED vars
    PROVE  Typed' /\ Safe' /\ Seeded'
<1>1. added' = added /\ call' = call
  BY DEF vars
<1>2. \A r \in added' : RegionOK(r)
  BY <1>1 DEF Typed
<1>3. \A r : ~ AddRegion(r)
  BY <1>1 DEF AddRegion, Idle
<1> QED
  BY <1>2, <1>3, AllocKept

\* And one that adds no region.
LEMMA AllocRuns ==
    ASSUME Typed, Safe, Seeded, BuddyStep, added' = added
    PROVE  Typed' /\ Safe' /\ Seeded'
<1>1. \A r \in added' : RegionOK(r)
  BY DEF Typed
<1>2. \A r : ~ AddRegion(r)
  BY DEF AddRegion
<1> QED
  BY <1>1, <1>2, AllocKept

\* The set when nothing happens to it.
LEMMA SetQuiet ==
    ASSUME NEW C, SetInv(C), UNCHANGED <<rs, work>>
    PROVE  SetInv(C)'
  BY DEF SetInv, SetTyped, Panicked, Separated, Content, InEntry, InRange,
         MergeProgress, CutProgress, CutNesting

\* Between calls the set does not move.
LEMMA IdleSetRests == SetIdle => ~ RunSet
  BY DEF SetIdle, RunSet, MergeSkip, MergeBlock, MergeReturns, InsertReturns, CutSkip,
         CutRemove, CutStart, CutEnd, CutMiddle, CutsPart, CutReturns, RemoveReturns,
         Turn, LoopEnds

\* A step that adds no region keeps them inside usable memory.
LEMMA InsideQuiet ==
    ASSUME Inside, layout' = layout, added' = added
    PROVE  Inside'
  BY DEF Inside, UsableBytes

-----------------------------------------------------------------------------
(* The loops of init() *)

\* The loop over the regions of the tree.
LEMMA InsertMemoryInv ==
    ASSUME PhysInv, InsertMemory
    PROVE  PhysInv'
<1>1. PICK l \in Layouts, n \in Nat \ {0} : l = layout /\ n = i
  BY DEF PhysInv, PhysTyped
<1>2. /\ phase = "memory" /\ SetIdle /\ UNCHANGED <<vars, layout>>
      /\ added' = added /\ added = {}
  BY DEF InsertMemory, PhysInv, Passed, vars
<1>3. Typed' /\ Safe' /\ Seeded' /\ Inside'
  BY <1>2, AllocQuiet, InsideQuiet DEF PhysInv
<1>4. n - 1 \in Nat /\ n - 1 <= Len(l.memory) /\ Len(l.memory) \in Nat /\ Len(l.blocked) \in Nat
      /\ (n - 1) + 1 = n /\ (n + 1) - 1 = n
  BY <1>1, <1>2, LayoutTypes DEF PhysInv, Loops
<1>5. PICK C : C = Inserted(l, n - 1)
  OBVIOUS
<1>6. SetInv(C)
  BY <1>1, <1>2, <1>5, WantedIs DEF PhysInv
<1>7. CASE n <= Len(l.memory)
  <2>1. PICK r : r = Range_new(l.memory[n].start, l.memory[n].end - 1)
    OBVIOUS
  <2>2. n \in 1 .. Len(l.memory)
    BY <1>4, <1>7
  <2>3. r \in RangeType /\ Covered(r) = l.memory[n].start .. l.memory[n].end - 1
    BY <2>1, <2>2, LayoutTypes
  <2>4. Feed("merge", r)
    BY <1>1, <1>7, <2>1 DEF InsertMemory
  <2>5. CASE r.start > r.end
    <3>1. phase' = "panicked" /\ i' = i
      BY <2>4, <2>5 DEF Feed
    <3> QED
      BY <1>1, <1>2, <1>3, <3>1 DEF PhysInv, PhysTyped, Phases, Loops, Passed
  <2>6. CASE ~ (r.start > r.end)
    <3>1. StartInsert(r) /\ i' = n + 1 /\ phase' = "memory"
      BY <1>1, <1>2, <2>4, <2>6 DEF Feed, StartInsert
    <3>2. PICK D : D = C \cup Covered(r)
      OBVIOUS
    <3>3. SetInv(D)'
      BY <1>6, <2>3, <3>1, <3>2, StartInsertInv
    <3>4. D = Wanted(l, "memory", n + 1)
      <4>1. Inserted(l, n) = Inserted(l, n - 1) \cup Covered(r)
        BY <1>4, <2>3, OneMore
      <4> QED
        BY <1>4, <1>5, <3>2, <4>1, WantedIs
    <3>5. D = Wanted(layout', phase', i')
      BY <1>1, <1>2, <3>1, <3>4
    <3>6. PhysTyped' /\ Loops' /\ Passed'
      BY <1>1, <1>2, <1>4, <1>7, <3>1 DEF PhysTyped, Phases, Loops, Passed
    <3> QED
      BY <1>3, <3>3, <3>5, <3>6 DEF PhysInv
  <2> QED
    BY <2>5, <2>6
<1>8. CASE ~ (n <= Len(l.memory))
  <2>1. phase' = "blocked" /\ i' = 1 /\ UNCHANGED <<rs, work>>
    BY <1>1, <1>8 DEF InsertMemory, NextPhase
  <2>2. n - 1 = Len(l.memory) /\ 1 - 1 = 0
    BY <1>4, <1>8
  <2>3. C = Wanted(l, "blocked", 1)
    <3>1. CutOut(l, 0) = {}
      BY OneMore
    <3>2. Wanted(l, "blocked", 1) = Inserted(l, Len(l.memory)) \ CutOut(l, 1 - 1)
      BY WantedIs
    <3> QED
      BY <1>5, <2>2, <3>1, <3>2
  <2>4. C = Wanted(layout', phase', i')
    BY <1>1, <1>2, <2>1, <2>3
  <2>5. SetInv(C)'
    BY <1>6, <2>1, SetQuiet
  <2>6. PhysTyped' /\ Loops' /\ Passed'
    BY <1>1, <1>2, <1>4, <2>1, <2>2 DEF PhysTyped, Phases, Loops, Passed
  <2> QED
    BY <1>3, <2>4, <2>5, <2>6 DEF PhysInv
<1> QED
  BY <1>7, <1>8

\* The loop over the blocked ranges.
LEMMA RemoveBlockedInv ==
    ASSUME PhysInv, RemoveBlocked
    PROVE  PhysInv'
<1>1. PICK l \in Layouts, n \in Nat \ {0} : l = layout /\ n = i
  BY DEF PhysInv, PhysTyped
<1>2. /\ phase = "blocked" /\ SetIdle /\ UNCHANGED <<vars, layout>>
      /\ added' = added /\ added = {}
  BY DEF RemoveBlocked, PhysInv, Passed, vars
<1>3. Typed' /\ Safe' /\ Seeded' /\ Inside'
  BY <1>2, AllocQuiet, InsideQuiet DEF PhysInv
<1>4. n - 1 \in Nat /\ n - 1 <= Len(l.blocked) /\ Len(l.blocked) \in Nat
      /\ (n - 1) + 1 = n /\ (n + 1) - 1 = n
  BY <1>1, <1>2, LayoutTypes DEF PhysInv, Loops
<1>5. PICK C : C = Inserted(l, Len(l.memory)) \ CutOut(l, n - 1)
  OBVIOUS
<1>6. SetInv(C)
  BY <1>1, <1>2, <1>5, WantedIs DEF PhysInv
<1>a. rs.idx \in Nat
  BY <1>6, SetParts DEF SetInv
<1>7. CASE n <= Len(l.blocked)
  <2>1. PICK r : r = l.blocked[n]
    OBVIOUS
  <2>2. n \in 1 .. Len(l.blocked)
    BY <1>4, <1>7
  <2>3. r \in RangeType /\ Covered(r) = l.blocked[n].start .. l.blocked[n].end
    BY <2>1, <2>2, LayoutTypes
  <2>4. Feed("cut", r)
    BY <1>1, <1>7, <2>1 DEF RemoveBlocked
  <2>5. CASE r.start > r.end
    <3>1. phase' = "panicked" /\ i' = i
      BY <2>4, <2>5 DEF Feed
    <3> QED
      BY <1>1, <1>2, <1>3, <3>1 DEF PhysInv, PhysTyped, Phases, Loops, Passed
  <2>6. CASE ~ (r.start > r.end)
    <3>1. StartRemove(r) /\ i' = n + 1 /\ phase' = "blocked"
      BY <1>1, <1>2, <2>4, <2>6 DEF Feed, StartRemove
    <3>2. PICK D : D = C \ Covered(r)
      OBVIOUS
    <3>3. SetInv(D)'
      BY <1>6, <2>3, <3>1, <3>2, StartRemoveInv
    <3>4. D = Wanted(l, "blocked", n + 1)
      <4>1. CutOut(l, n) = CutOut(l, n - 1) \cup Covered(r)
        BY <1>4, <2>3, OneMore
      <4>2. D = Inserted(l, Len(l.memory)) \ CutOut(l, n)
        BY <1>5, <3>2, <4>1
      <4> QED
        BY <1>4, <4>2, WantedIs
    <3>5. D = Wanted(layout', phase', i')
      BY <1>1, <1>2, <3>1, <3>4
    <3>6. PhysTyped' /\ Loops' /\ Passed'
      BY <1>1, <1>2, <1>4, <1>7, <3>1 DEF PhysTyped, Phases, Loops, Passed
    <3> QED
      BY <1>3, <3>3, <3>5, <3>6 DEF PhysInv
  <2> QED
    BY <2>5, <2>6
<1>8. CASE ~ (n <= Len(l.blocked))
  <2>1. phase' = "add" /\ i' = 1 /\ UNCHANGED <<rs, work>>
    BY <1>1, <1>8 DEF RemoveBlocked, NextPhase
  <2>2. n - 1 = Len(l.blocked)
    BY <1>4, <1>8
  <2>3. C = Wanted(l, "add", 1)
    BY <1>5, <2>2, WantedIs DEF Usable
  <2>4. C = Wanted(layout', phase', i')
    BY <1>1, <1>2, <2>1, <2>3
  <2>5. SetInv(C)'
    BY <1>6, <2>1, SetQuiet
  <2>6. Passed'
    <3>1. SetIdle' /\ rs'.idx = rs.idx
      BY <1>2, <2>1 DEF SetIdle
    <3>2. 0 .. 1 - 2 = {} /\ 1 - 1 <= rs.idx
      BY <1>a
    <3> QED
      BY <1>2, <2>1, <3>1, <3>2 DEF Passed
  <2>7. PhysTyped' /\ Loops'
    BY <1>1, <1>2, <2>1 DEF PhysTyped, Phases, Loops
  <2> QED
    BY <1>3, <2>4, <2>5, <2>6, <2>7 DEF PhysInv
<1> QED
  BY <1>7, <1>8

\* insert and remove_range run.
LEMMA RunRangeSetInv ==
    ASSUME PhysInv, RunRangeSet
    PROVE  PhysInv'
<1>1. /\ RunSet /\ UNCHANGED vars /\ phase' = phase /\ i' = i /\ layout' = layout
      /\ added' = added
  BY DEF RunRangeSet, vars
<1>2. ~ SetIdle
  BY <1>1, IdleSetRests
<1>3. phase \notin {"add", "up"}
  BY <1>2 DEF PhysInv, Passed
<1>4. Typed' /\ Safe' /\ Seeded' /\ Inside'
  BY <1>1, AllocQuiet, InsideQuiet DEF PhysInv
<1>5. PhysTyped' /\ Loops' /\ Passed'
  BY <1>1, <1>3 DEF PhysInv, PhysTyped, Loops, Passed
<1>6. PICK C : C = Wanted(layout, phase, i)
  OBVIOUS
<1>7. phase # "panicked" => SetInv(C)'
  BY <1>1, <1>6, RunSetInv DEF PhysInv
<1>8. C = Wanted(layout', phase', i')
  BY <1>1, <1>6
<1> QED
  BY <1>1, <1>4, <1>5, <1>7, <1>8 DEF PhysInv

\* The loop that hands the entries to the allocator.
LEMMA AddToAllocatorInv ==
    ASSUME LayoutsAligned, PhysInv, AddToAllocator
    PROVE  PhysInv'
<1>1. PICK l \in Layouts, n \in Nat \ {0} : l = layout /\ n = i
  BY DEF PhysInv, PhysTyped
<1>2. /\ phase = "add" /\ SetIdle /\ n <= rs.idx
      /\ added = {rs.ranges[h] : h \in 0 .. n - 2}
      /\ i' = n + 1 /\ phase' = "add" /\ layout' = l /\ rs' = rs /\ work' = work
  BY <1>1 DEF AddToAllocator, PhysInv, Passed
<1>3. PICK C : C = Usable(l)
  OBVIOUS
<1>4. SetInv(C) /\ Aligned(l) /\ C = Wanted(layout', phase', i')
  BY <1>1, <1>2, <1>3, WantedIs DEF PhysInv, LayoutsAligned
<1>5. rs.idx \in Nat
  BY <1>4, SetParts DEF SetInv
<1>6. PICK j \in 0 .. rs.idx - 1 : j = n - 1
  BY <1>2, <1>5
<1>7. PICK r : r = rs.ranges[j]
  OBVIOUS
<1>8. AddRegion(r) /\ added' = added \cup {r}
  BY <1>1, <1>6, <1>7 DEF AddToAllocator, AddRegion
<1>9. added = {rs.ranges[h] : h \in 0 .. j - 1}
  <2>1. n - 2 = j - 1
    BY <1>6
  <2> QED
    BY <1>2, <2>1
<1>10. Admissible(r)
  BY <1>2, <1>3, <1>4, <1>7, <1>9, EntryAdmissible
<1>11. \A q : AddRegion(q) => q = r
  BY <1>8 DEF AddRegion
<1>12. Typed' /\ Safe' /\ Seeded'
  <2>1. \A q \in added' : RegionOK(q)
    BY <1>8, <1>10 DEF PhysInv, Typed, Admissible
  <2>2. BuddyStep
    BY <1>8 DEF BuddyStep
  <2> QED
    BY <1>10, <1>11, <2>1, <2>2, AllocKept DEF PhysInv
<1>13. Inside'
  <2>1. r \in RangeType /\ Covered(r) \subseteq Usable(l)
    BY <1>2, <1>3, <1>4, <1>7, EntryUsable
  <2> QED
    BY <1>1, <1>2, <1>8, <2>1 DEF PhysInv, Inside, UsableBytes
<1>14. SetInv(C)'
  BY <1>2, <1>4, SetQuiet
<1>15. Passed'
  <2>1. 0 .. (n + 1) - 2 = (0 .. j - 1) \cup {j}
    BY <1>6
  <2>2. added' = {rs.ranges[h] : h \in 0 .. (n + 1) - 2}
    BY <1>7, <1>8, <1>9, <2>1
  <2>3. (n + 1) - 1 <= rs.idx /\ SetIdle'
    BY <1>2, <1>5 DEF SetIdle
  <2> QED
    BY <1>2, <2>2, <2>3 DEF Passed
<1>16. PhysTyped' /\ Loops'
  BY <1>1, <1>2 DEF PhysTyped, Phases, Loops
<1> QED
  BY <1>4, <1>12, <1>13, <1>14, <1>15, <1>16 DEF PhysInv

\* init() fails, or returns.
LEMMA InitEndsInv ==
    ASSUME PhysInv, AddFails \/ InitReturns
    PROVE  PhysInv'
<1>1. PICK l \in Layouts, n \in Nat \ {0} : l = layout /\ n = i
  BY DEF PhysInv, PhysTyped
<1>2. /\ phase = "add" /\ Idle /\ UNCHANGED vars /\ added' = added /\ call' = call
      /\ layout' = l /\ i' = n /\ rs' = rs /\ work' = work
  BY <1>1 DEF AddFails, InitReturns, vars
<1>3. Typed' /\ Safe' /\ Seeded' /\ Inside'
  BY <1>1, <1>2, AllocQuiet, InsideQuiet DEF PhysInv
<1>4. CASE AddFails
  <2>1. phase' = "panicked"
    BY <1>4 DEF AddFails
  <2> QED
    BY <1>1, <1>2, <1>3, <2>1 DEF PhysInv, PhysTyped, Phases, Loops, Passed
<1>5. CASE InitReturns
  <2>1. phase' = "up" /\ n > rs.idx
    BY <1>1, <1>5 DEF InitReturns
  <2>2. PICK C : C = Usable(l)
    OBVIOUS
  <2>3. SetInv(C) /\ C = Wanted(layout', phase', i')
    BY <1>1, <1>2, <2>1, <2>2, WantedIs DEF PhysInv
  <2>4. SetInv(C)' /\ rs.idx \in Nat
    BY <1>2, <2>3, SetQuiet, SetParts DEF SetInv
  <2>5. /\ SetIdle /\ n - 1 <= rs.idx /\ added = {rs.ranges[h] : h \in 0 .. n - 2}
    BY <1>1, <1>2 DEF PhysInv, Passed
  <2>6. n - 1 = rs.idx
    BY <2>1, <2>4, <2>5
  <2>7. Passed'
    BY <1>2, <2>1, <2>5, <2>6 DEF Passed, SetIdle, Idle
  <2>8. PhysTyped' /\ Loops'
    BY <1>1, <1>2, <2>1 DEF PhysTyped, Phases, Loops
  <2> QED
    BY <1>3, <2>3, <2>4, <2>7, <2>8 DEF PhysInv
<1> QED
  BY <1>4, <1>5

-----------------------------------------------------------------------------
(* The running kernel *)

\* A step of the allocator that adds no region and starts no add_region.
LEMMA KernelStepInv ==
    ASSUME PhysInv, BuddyStep, UNCHANGED <<layout, phase, i, rs, work>>,
           added' = added, phase = "up" => call'.op # "add"
    PROVE  PhysInv'
<1>1. Typed' /\ Safe' /\ Seeded' /\ Inside'
  BY AllocRuns, InsideQuiet DEF PhysInv
<1>2. PICK C : C = Wanted(layout, phase, i)
  OBVIOUS
<1>3. phase # "panicked" => SetInv(C)'
  BY <1>2, SetQuiet DEF PhysInv
<1>4. C = Wanted(layout', phase', i')
  BY <1>2
<1>5. PhysTyped' /\ Loops' /\ Passed'
  BY DEF PhysInv, PhysTyped, Loops, Passed, SetIdle
<1> QED
  BY <1>1, <1>3, <1>4, <1>5 DEF PhysInv

\* Every step keeps the invariant.
LEMMA NextPhysInv ==
    ASSUME LayoutsAligned, PhysInv, [PhysNext]_allVars
    PROVE  PhysInv'
<1>1. CASE InsertMemory \/ RemoveBlocked \/ RunRangeSet
  BY <1>1, InsertMemoryInv, RemoveBlockedInv, RunRangeSetInv
<1>2. CASE AddToAllocator \/ AddFails \/ InitReturns
  BY <1>2, AddToAllocatorInv, InitEndsInv
<1>3. ASSUME NEW size \in Sizes, AllocBytes(size)
      PROVE  PhysInv'
  <2>1. PICK o : AllocateTooLarge(o) \/ Allocate(o)
    BY <1>3 DEF AllocBytes
  <2>2. added' = added /\ call'.op # "add"
    BY <2>1, NothingAdded DEF PhysInv
  <2> QED
    BY <1>3, <2>1, <2>2, KernelStepInv DEF AllocBytes, BuddyStep
<1>4. ASSUME NEW x \in live, FreeBlock(x)
      PROVE  PhysInv'
  <2>1. added' = added /\ call'.op # "add"
    BY <1>4, NothingAdded DEF PhysInv, FreeBlock
  <2> QED
    BY <1>4, <2>1, KernelStepInv DEF FreeBlock, BuddyStep, physVars
<1>5. CASE RunAllocator
  <2>1. Run /\ UNCHANGED physVars
    BY <1>5 DEF RunAllocator
  <2>2. added' = added
    BY <2>1 DEF Run, AddSingleRegion, SearchUp, Pop, Split, HandOut, PutBack, Merge, PutBackBoth
  <2>3. phase = "up" => call'.op # "add"
    <3>1. phase = "up" => ~ AddSingleRegion
      BY DEF PhysInv, Passed, AddSingleRegion
    <3> QED
      BY <2>1, <3>1, NothingAdded DEF PhysInv, Run
  <2> QED
    BY <2>1, <2>2, <2>3, KernelStepInv DEF BuddyStep, physVars
<1>6. CASE UNCHANGED allVars
  <2>1. UNCHANGED <<vars, layout, phase, i, rs, work>> /\ added' = added /\ call' = call
    BY <1>6 DEF allVars, physVars, vars
  <2>2. Typed' /\ Safe' /\ Seeded' /\ Inside'
    BY <2>1, AllocQuiet, InsideQuiet DEF PhysInv
  <2>3. PICK C : C = Wanted(layout, phase, i)
    OBVIOUS
  <2>4. phase # "panicked" => SetInv(C)'
    BY <2>1, <2>3, SetQuiet DEF PhysInv
  <2>5. C = Wanted(layout', phase', i')
    BY <2>1, <2>3
  <2>6. PhysTyped' /\ Loops' /\ Passed'
    BY <2>1 DEF PhysInv, PhysTyped, Loops, Passed, SetIdle
  <2> QED
    BY <2>1, <2>2, <2>4, <2>5, <2>6 DEF PhysInv
<1> QED
  BY <1>1, <1>2, <1>3, <1>4, <1>5, <1>6 DEF PhysNext

\* The invariant holds throughout.
LEMMA PhysInvariant == LayoutsAligned => (PhysSpec => []PhysInv)
<1>1. ASSUME LayoutsAligned
      PROVE  PhysSpec => []PhysInv
  <2>1. PhysInv /\ [PhysNext]_allVars => PhysInv'
    BY <1>1, NextPhysInv
  <2> QED
    BY <2>1, InitPhysInv, PTL DEF PhysSpec
<1> QED
  BY <1>1

-----------------------------------------------------------------------------
(* What the invariant gives *)

\* Every page that the allocator knows is usable memory.
LEMMA KnownUsable ==
    ASSUME PhysInv, NEW p \in KnownPages
    PROVE  Bytes(p) \subseteq UsableBytes
<1>1. PICK x \in AllBlocks : p \in Pages(x)
  BY DEF KnownPages, AllPages
<1>2. p \in AddedPages
  BY <1>1 DEF PhysInv, Safe, BlocksValid
<1>3. PICK r \in added : p \in RegionPages(r)
  BY <1>2 DEF AddedPages
<1>4. r \in RangeType /\ Covered(r) \subseteq UsableBytes
  BY DEF PhysInv, Inside
<1> QED
  BY <1>3, <1>4, PageInside

\* BlockedStaysBlocked: no page of the firmware or of the kernel is ever free,
\* handed out or in hand, for every memory map whose usable stretches do not
\* start one page behind a multiple of four pages.
THEOREM BlockedNeverAllocated == LayoutsAligned => (PhysSpec => []BlockedStaysBlocked)
<1>1. PhysInv => BlockedStaysBlocked
  <2> SUFFICES ASSUME PhysInv, NEW p \in KnownPages
               PROVE  Bytes(p) \cap BlockedBytes = {}
    BY DEF BlockedStaysBlocked
  <2>1. UsableBytes \cap BlockedBytes = {}
    BY DEF UsableBytes, BlockedBytes, Usable
  <2> QED
    BY <2>1, KnownUsable
<1> QED
  BY <1>1, PhysInvariant, PTL

\* InsideTree: nor is one that the device tree does not list.
THEOREM OnlyTreeMemory == LayoutsAligned => (PhysSpec => []InsideTree)
<1>1. PhysInv => InsideTree
  <2> SUFFICES ASSUME PhysInv, NEW p \in KnownPages
               PROVE  Bytes(p) \subseteq TreeBytes
    BY DEF InsideTree
  <2>1. UsableBytes \subseteq TreeBytes
    BY DEF UsableBytes, TreeBytes, Usable
  <2> QED
    BY <2>1, KnownUsable
<1> QED
  BY <1>1, PhysInvariant, PTL

\* The composed system keeps the allocator's main invariant: what init() adds
\* fulfils the contract of add_region, and no page is in two places.
THEOREM NoPageTwiceAfterInit == LayoutsAligned => (PhysSpec => []NoOverlap)
<1>1. PhysInv => NoOverlap
  BY DEF PhysInv, Safe
<1> QED
  BY <1>1, PhysInvariant, PTL

\* A page that is usable with the byte behind it lies in one entry, since there
\* are gaps between the entries.
LEMMA PageInEntry ==
    ASSUME NEW l \in Layouts, SetInv(Usable(l)), SetIdle, NEW p \in Nat,
           Bytes(p) \subseteq Usable(l), (p + 1) * PAGE_SIZE \in Usable(l)
    PROVE  \E j \in 0 .. rs.idx - 1 : p \in RegionPages(rs.ranges[j])
<1>1. SetTyped /\ Separated /\ Content(Usable(l)) /\ work.op = "idle"
  BY DEF SetInv, SetIdle, Panicked
<1>2. rs.idx \in Nat /\ \A k \in 0 .. rs.idx - 1 : rs.ranges[k] \in RangeType
  BY <1>1, SetParts, RangeSetAssumption DEF Slots
<1>3. \A a \in Usable(l) : \E k \in 0 .. rs.idx - 1 : a \in Covered(rs.ranges[k])
  BY <1>1, UsableAbove DEF Content, InEntry
<1>4. PICK x \in Int : x = p * PAGE_SIZE /\ (p + 1) * PAGE_SIZE = x + PAGE_SIZE
  BY PageBytes
<1>5. \A a \in x .. x + PAGE_SIZE : a \in Usable(l)
  <2> SUFFICES ASSUME NEW a \in x .. x + PAGE_SIZE PROVE a \in Usable(l)
    OBVIOUS
  <2>1. a \in x .. x + PAGE_SIZE - 1 \/ a = x + PAGE_SIZE
    BY OrderAssumption
  <2>2. Bytes(p) = x .. x + PAGE_SIZE - 1
    BY <1>4, OrderAssumption DEF Bytes
  <2> QED
    BY <1>4, <2>1, <2>2
<1>6. x \in x .. x + PAGE_SIZE
  BY OrderAssumption
<1>7. PICK j \in 0 .. rs.idx - 1 : x \in Covered(rs.ranges[j])
  BY <1>3, <1>5, <1>6
<1>8. PICK r \in RangeType : r = rs.ranges[j]
  BY <1>2
<1>9. r.start \in Nat /\ r.end \in Nat /\ r.start <= r.end /\ r.start <= x /\ x <= r.end
  BY <1>1, <1>7, <1>8, RangeParts DEF Separated, Covered
<1>10. x + PAGE_SIZE <= r.end
  <2> SUFFICES ASSUME r.end < x + PAGE_SIZE PROVE FALSE
    BY <1>9, OrderAssumption
  <2>1. r.end + 1 \in x .. x + PAGE_SIZE
    BY <1>9, OrderAssumption
  <2>2. PICK k \in 0 .. rs.idx - 1 : r.end + 1 \in Covered(rs.ranges[k])
    BY <1>3, <1>5, <2>1
  <2>3. rs.ranges[k].start \in Nat /\ rs.ranges[k].end \in Nat
    BY <1>2, RangeParts
  <2>4. k # j
    BY <1>8, <1>9, <2>2 DEF Covered
  <2>5. Gap(r, rs.ranges[k])
    BY <1>1, <1>8, <2>4 DEF Separated
  <2> QED
    BY <1>9, <2>2, <2>3, <2>5 DEF Gap, Covered
<1>11. p \in RegionPages(r)
  BY <1>4, <1>9, <1>10, RangePages
<1> QED
  BY <1>8, <1>11

\* OnlyLastPagesMissing: init() adds whole usable pages only, and the ones it
\* loses are the last of their stretch, on every machine whose stretches are
\* aligned.
THEOREM InitLosesLastPagesOnly == LayoutsAligned => (PhysSpec => []OnlyLastPagesMissing)
<1>1. PhysInv => OnlyLastPagesMissing
  <2> SUFFICES ASSUME PhysInv, phase = "up"
               PROVE  /\ AllPages(seeds) \subseteq UsablePages
                      /\ \A p \in UsablePages \ AllPages(seeds) :
                            (p + 1) * PAGE_SIZE \notin UsableBytes
    BY DEF OnlyLastPagesMissing
  <2>1. PICK l \in Layouts : l = layout
    BY DEF PhysInv, PhysTyped
  <2>2. /\ UsableBytes = Usable(l) /\ Usable(l) \subseteq TreeBytes
    BY <2>1 DEF UsableBytes, TreeBytes, Usable
  <2>3. SetInv(Usable(l)) /\ SetIdle
    BY <2>1, WantedIs DEF PhysInv, Passed
  <2>4. AllPages(seeds) = AddedPages
    BY DEF PhysInv, Passed, Seeded, Pending, SeedPages
  <2>5. added = {rs.ranges[h] : h \in 0 .. rs.idx - 1}
    <3>1. i \in Nat /\ i - 1 = rs.idx /\ added = {rs.ranges[h] : h \in 0 .. i - 2}
      BY DEF PhysInv, PhysTyped, Passed
    <3>2. i - 2 = rs.idx - 1
      BY <3>1
    <3> QED
      BY <3>1, <3>2
  <2>6. ASSUME NEW p \in AddedPages
        PROVE  /\ p \in {b \div PAGE_SIZE : b \in TreeBytes}
               /\ Bytes(p) \cup {(p + 1) * PAGE_SIZE} \subseteq UsableBytes
    <3>1. PICK r \in added : p \in RegionPages(r)
      BY DEF AddedPages
    <3>2. r \in RangeType /\ Covered(r) \subseteq UsableBytes
      BY DEF PhysInv, Inside
    <3>3. p \in Nat /\ Bytes(p) \subseteq Covered(r) /\ (p + 1) * PAGE_SIZE \in Covered(r)
      BY <3>1, <3>2, PageInside
    <3>4. p * PAGE_SIZE \in TreeBytes
      BY <2>2, <3>2, <3>3, PageBytes
    <3>5. (p * PAGE_SIZE) \div PAGE_SIZE = p
      <4>1. (PAGE_SIZE * p) \div PAGE_SIZE = p /\ PAGE_SIZE * p = p * PAGE_SIZE
        BY <3>3, OrderAssumption, DivMul
      <4> QED
        BY <4>1
    <3> QED
      BY <3>2, <3>3, <3>4, <3>5
  <2>7. ASSUME NEW p \in {b \div PAGE_SIZE : b \in TreeBytes},
               Bytes(p) \cup {(p + 1) * PAGE_SIZE} \subseteq UsableBytes
        PROVE  p \in AddedPages
    <3>1. PICK b \in TreeBytes : p = b \div PAGE_SIZE
      OBVIOUS
    <3>2. b \in Nat
      <4>1. PICK k \in 1 .. Len(l.memory) : b \in l.memory[k].start .. l.memory[k].end - 1
        BY <2>1 DEF TreeBytes, Inserted
      <4> QED
        BY <4>1, LayoutTypes, RangeSetAssumption DEF Usize
    <3>3. p \in Nat
      BY <3>1, <3>2, OrderAssumption, DivBound
    <3>4. Bytes(p) \subseteq Usable(l) /\ (p + 1) * PAGE_SIZE \in Usable(l)
      BY <2>2, <2>7
    <3>5. PICK j \in 0 .. rs.idx - 1 : p \in RegionPages(rs.ranges[j])
      BY <2>3, <3>3, <3>4, PageInEntry
    <3> QED
      BY <2>5, <3>5 DEF AddedPages
  <2>8. AllPages(seeds) \subseteq UsablePages
    BY <2>4, <2>6 DEF UsablePages
  <2>9. ASSUME NEW p \in UsablePages \ AllPages(seeds)
        PROVE  (p + 1) * PAGE_SIZE \notin UsableBytes
    BY <2>4, <2>7 DEF UsablePages
  <2> QED
    BY <2>8, <2>9
<1> QED
  BY <1>1, PhysInvariant, PTL

-----------------------------------------------------------------------------
(* The order for a size *)

\* Arithmetic: how powers of two are computed, which the provers do not know.
PowersDouble == 2^0 = 1 /\ \A k \in Nat : 2^k \in Nat /\ 2^(k + 1) = 2 * 2^k

\* A property of 0 that passes on to the next number holds for all numbers.
LEMMA AllNumbers ==
    ASSUME NEW T, 0 \notin T, T \subseteq Nat, \A k \in Nat : k \notin T => k + 1 \notin T
    PROVE  T = {}
<1> SUFFICES ASSUME T # {} PROVE FALSE
  OBVIOUS
<1>1. PICK m \in T : \A n \in T : m <= n
  BY NatMin
<1>2. m \in Nat /\ m # 0
  OBVIOUS
<1>3. PICK k \in Nat : k + 1 = m
  BY <1>2
<1>4. k \notin T
  BY <1>1, <1>2, <1>3
<1> QED
  BY <1>3, <1>4

LEMMA PowerAbove ==
    ASSUME PowersDouble, NEW n \in Nat
    PROVE  2^n \in Nat /\ 2^n > n
<1> DEFINE T == {k \in Nat : ~ (2^k > k)}
<1>1. 0 \notin T /\ T \subseteq Nat
  BY DEF PowersDouble
<1>2. ASSUME NEW k \in Nat, k \notin T PROVE k + 1 \notin T
  <2>1. 2^k > k /\ 2^k \in Nat /\ 2^(k + 1) = 2 * 2^k
    BY <1>2 DEF PowersDouble
  <2> QED
    BY <2>1
<1>3. T = {}
  <2> HIDE DEF T
  <2> QED
    BY <1>1, <1>2, AllNumbers
<1> QED
  BY <1>3 DEF PowersDouble

LEMMA PowerOfSum ==
    ASSUME PowersDouble, NEW a \in Nat, NEW b \in Nat
    PROVE  2^(a + b) = 2^a * 2^b
<1> DEFINE T == {k \in Nat : 2^(a + k) # 2^a * 2^k}
<1>0. PICK x \in Nat : x = 2^a
  BY DEF PowersDouble
<1>1. 0 \notin T /\ T \subseteq Nat
  BY <1>0 DEF PowersDouble
<1>2. ASSUME NEW k \in Nat, k \notin T PROVE k + 1 \notin T
  <2>1. PICK y \in Nat : y = 2^k
    BY DEF PowersDouble
  <2>2. PICK j \in Nat : j = a + k
    OBVIOUS
  <2>3. 2^j = x * y /\ a + (k + 1) = j + 1
    BY <1>0, <1>2, <2>1, <2>2
  <2>4. 2^(j + 1) = 2 * 2^j /\ 2^(k + 1) = 2 * y
    BY <2>1 DEF PowersDouble
  <2>5. x * (2 * y) = 2 * (x * y)
    BY <1>0, <2>1
  <2> QED
    BY <1>0, <2>3, <2>4, <2>5
<1>3. T = {}
  <2> HIDE DEF T
  <2> QED
    BY <1>1, <1>2, AllNumbers
<1> QED
  BY <1>3

\* A larger exponent gives a multiple.
LEMMA PowerMultiple ==
    ASSUME PowersDouble, NEW a \in Nat, NEW b \in Nat, a <= b
    PROVE  /\ 2^b = 2^a * 2^(b - a)
           /\ 2^a \in Nat \ {0} /\ 2^(b - a) \in Nat \ {0} /\ 2^b >= 2^a
<1>1. PICK d \in Nat : d = b - a /\ a + d = b
  OBVIOUS
<1>2. 2^b = 2^a * 2^d
  BY <1>1, PowerOfSum
<1>3. PICK x \in Nat, y \in Nat : x = 2^a /\ y = 2^d
  BY DEF PowersDouble
<1>4. x > 0 /\ y > 0
  BY <1>3, PowerAbove
<1>5. x * y >= x
  BY <1>4
<1> QED
  BY <1>1, <1>2, <1>3, <1>4, <1>5

LEMMA ZerosOfPower ==
    ASSUME PowersDouble, NEW m \in Nat
    PROVE  trailing_zeros(2^m) = m
<1> DEFINE Zeros(k) == 2^m % 2^k = 0 /\ 2^m % 2^(k + 1) # 0
<1>1. PICK x \in Nat \ {0} : x = 2^m /\ m \in 0 .. x /\ 2^(m + 1) = 2 * x
  BY PowerAbove DEF PowersDouble
<1>2. Zeros(m)
  <2>1. x % x = 0 /\ x % (2 * x) # 0
    BY <1>1
  <2> QED
    BY <1>1, <2>1
<1>3. ASSUME NEW k \in 0 .. x, Zeros(k)
      PROVE  k = m
  <2>1. CASE k < m
    <3>1. PICK j \in Nat : j = k + 1 /\ j <= m
      BY <2>1
    <3>a. 2^m = 2^j * 2^(m - j) /\ 2^j \in Nat \ {0} /\ 2^(m - j) \in Nat \ {0}
      BY <3>1, PowerMultiple
    <3>2. PICK s \in Nat \ {0}, q \in Nat : s = 2^(k + 1) /\ x = s * q
      BY <1>1, <3>1, <3>a, Zenon
    <3>3. x % s = 0
      BY <3>2, DivMul
    <3> QED
      BY <1>1, <1>3, <3>2, <3>3
  <2>2. CASE m < k
    <3>1. m + 1 \in Nat /\ m + 1 <= k /\ k \in Nat
      BY <2>2
    <3>2. PICK s \in Nat : s = 2^k /\ s >= 2 * x
      BY <1>1, <3>1, PowerMultiple
    <3>3. x % s = x
      BY <3>2
    <3> QED
      BY <1>1, <1>3, <3>2, <3>3
  <2> QED
    BY <2>1, <2>2
<1>4. trailing_zeros(2^m) = CHOOSE k \in 0 .. x : Zeros(k)
  BY <1>1 DEF trailing_zeros
<1> HIDE DEF Zeros
<1> QED
  BY <1>1, <1>2, <1>3, <1>4

\* The exponent that next_power_of_two looks for.
LEMMA NextPower ==
    ASSUME PowersDouble, NEW n \in Nat
    PROVE  \E k \in 0 .. n : /\ next_power_of_two(n) = 2^k
                             /\ 2^k >= n /\ \A j \in 0 .. k - 1 : 2^j < n
<1> DEFINE T == {k \in 0 .. n : 2^k >= n}
           Least(k) == 2^k >= n /\ \A j \in 0 .. k - 1 : 2^j < n
<1>1. n \in T /\ T \subseteq Nat
  BY PowerAbove
<1>2. PICK m \in T : \A k \in T : m <= k
  <2> HIDE DEF T
  <2> QED
    BY <1>1, NatMin
<1>3. ASSUME NEW j \in 0 .. m - 1 PROVE 2^j < n
  <2>1. j \in 0 .. n /\ j < m /\ j \in Nat
    BY <1>3
  <2>2. j \notin T
    BY <1>2, <2>1
  <2> QED
    BY <2>1, <2>2 DEF PowersDouble
<1>4. m \in 0 .. n /\ Least(m)
  BY <1>2, <1>3
<1>5. next_power_of_two(n) = 2^(CHOOSE k \in 0 .. n : Least(k))
  BY DEF next_power_of_two
<1>6. /\ (CHOOSE k \in 0 .. n : Least(k)) \in 0 .. n
      /\ Least(CHOOSE k \in 0 .. n : Least(k))
  <2> HIDE DEF Least
  <2> QED
    BY <1>4
<1> QED
  BY <1>5, <1>6

\* The order for a size is the least one whose blocks are large enough.
LEMMA OrderIsLeast ==
    ASSUME PowersDouble, NEW size \in Sizes
    PROVE  /\ order_for_size(size) \in Nat
           /\ 2^order_for_size(size) * PAGE_SIZE >= size
           /\ \A o \in Nat : o < order_for_size(size) => 2^o * PAGE_SIZE < size
<1>1. size \in Nat
  BY SizesAssumption
<1>2. PICK p \in Nat : PAGE_SIZE = 2^p
  BY SizesAssumption, OrderAssumption
<1>3. PICK n \in Nat : n = Greater(size, PAGE_SIZE) /\ n >= size /\ n >= PAGE_SIZE
                       /\ n \in {size, PAGE_SIZE}
  BY <1>1, OrderAssumption DEF Greater
<1>4. PICK k \in 0 .. n : /\ next_power_of_two(n) = 2^k
                          /\ 2^k >= n /\ \A j \in 0 .. k - 1 : 2^j < n
  BY <1>3, NextPower
<1>5. k \in Nat /\ 2^k \in Nat
  BY <1>4 DEF PowersDouble
<1>6. p <= k
  <2> SUFFICES ASSUME k < p PROVE FALSE
    BY <1>2, <1>5
  <2>1. p - 1 \in Nat /\ k <= p - 1 /\ (p - 1) + 1 = p
    BY <1>5
  <2>2. PICK y \in Nat : y = 2^(p - 1) /\ y >= 2^k /\ y > 0 /\ 2^p = 2 * y
    BY <1>5, <2>1, PowerMultiple DEF PowersDouble
  <2> QED
    BY <1>2, <1>3, <1>4, <1>5, <2>2
<1>7. PICK m \in Nat : m = k - p /\ k = p + m
  BY <1>5, <1>6
<1>8. 2^k = PAGE_SIZE * 2^m /\ 2^m \in Nat
  BY <1>2, <1>7, PowerOfSum DEF PowersDouble
<1>9. 2^k \div PAGE_SIZE = 2^m
  BY <1>8, OrderAssumption, DivMul
<1>10. order_for_size(size) = m
  BY <1>3, <1>4, <1>9, ZerosOfPower DEF order_for_size
<1>11. 2^m * PAGE_SIZE >= size
  <2>1. 2^m * PAGE_SIZE = PAGE_SIZE * 2^m
    BY <1>8, OrderAssumption
  <2> QED
    BY <1>1, <1>3, <1>4, <1>5, <1>8, <2>1
<1>12. ASSUME NEW o \in Nat, o < m PROVE 2^o * PAGE_SIZE < size
  <2>1. p + o \in 0 .. k - 1
    BY <1>7, <1>12
  <2>2. 2^(p + o) < n
    BY <1>4, <2>1
  <2>3. PICK y \in Nat \ {0} : y = 2^o
    BY PowerAbove
  <2>4. 2^(p + o) = PAGE_SIZE * y
    BY <1>2, <2>3, PowerOfSum
  <2>5. PAGE_SIZE * y = y * PAGE_SIZE /\ y * PAGE_SIZE >= PAGE_SIZE
        /\ y * PAGE_SIZE \in Nat
    BY <2>3, OrderAssumption
  <2>6. n = size
    BY <1>3, <2>2, <2>4, <2>5, OrderAssumption
  <2> QED
    BY <2>2, <2>3, <2>4, <2>5, <2>6
<1> QED
  BY <1>10, <1>11, <1>12

\* A call in progress has the four fields, the allocation that is in progress is
\* for the order of the request, and so was the one that was refused.
Shaped == \E op, block, cur, arg :
    call = [op |-> op, block |-> block, cur |-> cur, arg |-> arg]

FitInv ==
    /\ Shaped
    /\ call.op \in {"search", "split"} =>
          request \in Sizes /\ call.arg = order_for_size(request)
    /\ ret = "OrderTooLarge" =>
          request \in Sizes /\ order_for_size(request) >= MAX_ORDER

\* Steps of a call pass its argument on.
LEMMA RunKeepsArg ==
    ASSUME Shaped, Run
    PROVE  /\ Shaped'
           /\ call'.op \in {"search", "split"} =>
                 call.op \in {"search", "split"} /\ call'.arg = call.arg
           /\ ret' = "OrderTooLarge" => ret = "OrderTooLarge"
<1>1. PICK op, block, cur, arg : call = [op |-> op, block |-> block, cur |-> cur, arg |-> arg]
  BY DEF Shaped
<1>2. CASE AddSingleRegion
  BY <1>1, <1>2 DEF AddSingleRegion, Return, NoCall, Shaped
<1>3. CASE SearchUp
  BY <1>1, <1>3 DEF SearchUp, Return, NoCall, Shaped
<1>4. CASE Pop
  BY <1>1, <1>4 DEF Pop, Shaped
<1>5. CASE Split
  BY <1>1, <1>5 DEF Split, Return, NoCall, Shaped
<1>6. CASE HandOut
  BY <1>1, <1>6 DEF HandOut, Return, NoCall, Shaped
<1>7. CASE PutBack
  BY <1>1, <1>7 DEF PutBack, Return, NoCall, Shaped
<1>8. CASE Merge
  BY <1>1, <1>8 DEF Merge, Shaped
<1>9. CASE PutBackBoth
  BY <1>1, <1>9 DEF PutBackBoth, Return, NoCall, Shaped
<1> QED
  BY <1>2, <1>3, <1>4, <1>5, <1>6, <1>7, <1>8, <1>9 DEF Run

LEMMA FitQuiet ==
    ASSUME FitInv, request' = request, Shaped',
           call'.op \in {"search", "split"} =>
                 call.op \in {"search", "split"} /\ call'.arg = call.arg,
           ret' = "OrderTooLarge" => ret = "OrderTooLarge"
    PROVE  FitInv'
  BY DEF FitInv, order_for_size, next_power_of_two, trailing_zeros, Greater

LEMMA NextFitInv == FitInv /\ [PhysNext]_allVars => FitInv'
<1> SUFFICES ASSUME FitInv, [PhysNext]_allVars PROVE FitInv'
  OBVIOUS
<1>0. Shaped
  BY DEF FitInv
<1>1. ASSUME UNCHANGED <<vars, request>> PROVE FitInv'
  BY <1>1, <1>0, FitQuiet DEF vars, Shaped
<1>2. CASE InsertMemory
  BY <1>1, <1>2 DEF InsertMemory
<1>3. CASE RemoveBlocked
  BY <1>1, <1>3 DEF RemoveBlocked
<1>4. CASE RunRangeSet
  BY <1>1, <1>4 DEF RunRangeSet
<1>5. CASE AddToAllocator
  <2>1. call'.op = "add" /\ Shaped' /\ ret' = "none" /\ request' = request
    BY <1>5 DEF AddToAllocator, AddRegion, Shaped
  <2> QED
    BY <2>1, FitQuiet
<1>6. CASE AddFails \/ InitReturns
  BY <1>1, <1>6 DEF AddFails, InitReturns
<1>7. ASSUME NEW size \in Sizes, AllocBytes(size) PROVE FitInv'
  <2>0. PICK o : o = order_for_size(size)
    OBVIOUS
  <2>1. request' = size /\ (Allocate(o) \/ AllocateTooLarge(o))
    BY <1>7, <2>0 DEF AllocBytes
  <2>2. order_for_size(request)' = o
    BY <2>0, <2>1 DEF order_for_size, next_power_of_two, trailing_zeros, Greater
  <2>3. CASE Allocate(o)
    BY <2>1, <2>2, <2>3 DEF Allocate, FitInv, Shaped
  <2>4. CASE AllocateTooLarge(o)
    BY <1>0, <2>1, <2>2, <2>4 DEF AllocateTooLarge, FitInv, Shaped, Idle
  <2> QED
    BY <2>1, <2>3, <2>4
<1>8. ASSUME NEW x \in live, FreeBlock(x) PROVE FitInv'
  <2>1. call'.op = "merge" /\ Shaped' /\ ret' = "none" /\ request' = request
    BY <1>8 DEF FreeBlock, Deallocate, Shaped, physVars
  <2> QED
    BY <2>1, FitQuiet
<1>9. CASE RunAllocator
  <2>1. Run /\ request' = request
    BY <1>9 DEF RunAllocator, physVars
  <2> QED
    BY <1>0, <2>1, RunKeepsArg, FitQuiet
<1>10. CASE UNCHANGED allVars
  BY <1>1, <1>10 DEF allVars, physVars
<1> QED
  BY <1>2, <1>3, <1>4, <1>5, <1>6, <1>7, <1>8, <1>9, <1>10 DEF PhysNext

\* OrderFits: the blocks that a request gets hold it, blocks of the order below
\* would not, and a request that the largest block could hold is not refused as
\* too large.  PowersDouble is arithmetic that the provers do not know.
THEOREM OrderForSizeFits == PowersDouble => (PhysSpec => []OrderFits)
<1> SUFFICES ASSUME PowersDouble PROVE PhysSpec => []OrderFits
  OBVIOUS
<1>1. PhysInit => FitInv
  <2> SUFFICES ASSUME PhysInit PROVE FitInv
    OBVIOUS
  <2>1. call = NoCall /\ ret = "none"
    BY DEF PhysInit, Init
  <2>2. Shaped /\ call.op = "idle"
    BY <2>1 DEF Shaped, NoCall
  <2> QED
    BY <2>1, <2>2 DEF FitInv
<1>2. FitInv => OrderFits
  <2> SUFFICES ASSUME FitInv PROVE OrderFits
    OBVIOUS
  <2>1. ASSUME call.op \in {"search", "split"}
        PROVE  /\ size_for_order(call.arg) * PAGE_SIZE >= request
               /\ call.arg = 0 \/ size_for_order(call.arg - 1) * PAGE_SIZE < request
    <3>1. PICK size \in Sizes, o \in Nat :
              /\ request = size /\ call.arg = o /\ 2^o * PAGE_SIZE >= size
              /\ \A j \in Nat : j < o => 2^j * PAGE_SIZE < size
      BY <2>1, OrderIsLeast DEF FitInv
    <3>2. o = 0 \/ (o - 1 \in Nat /\ o - 1 < o)
      OBVIOUS
    <3> QED
      BY <3>1, <3>2 DEF size_for_order
  <2>2. ASSUME ret = "OrderTooLarge"
        PROVE  size_for_order(MAX_ORDER - 1) * PAGE_SIZE < request
    <3>1. PICK size \in Sizes, o \in Nat :
              /\ request = size /\ o >= MAX_ORDER
              /\ \A j \in Nat : j < o => 2^j * PAGE_SIZE < size
      BY <2>2, OrderIsLeast DEF FitInv
    <3>2. MAX_ORDER - 1 \in Nat /\ MAX_ORDER - 1 < o
      BY <3>1, OrderAssumption
    <3> QED
      BY <3>1, <3>2 DEF size_for_order
  <2> QED
    BY <2>1, <2>2 DEF OrderFits
<1> QED
  BY <1>1, <1>2, NextFitInv, PTL DEF PhysSpec
=============================================================================
