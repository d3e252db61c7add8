--------------------------- MODULE RangeSetProofs ---------------------------
(***************************************************************************)
(* Proofs about RangeSet and its use, for every RANGE_COUNT, UsizeMax and  *)
(* set of addresses.  The invariant of a running call says which addresses *)
(* the entries and the range in hand stand for together, and how far the   *)
(* innermost loop has come: what it has passed needs no more work, or the  *)
(* work is done and the frames that are left run through idle turns.       *)
(***************************************************************************)
EXTENDS RangeSetUse, SequenceTheorems, TLAPS

Usize == 0 .. UsizeMax

RangeType == [start : Usize, end : Usize]

Frames == [i : 0 .. RANGE_COUNT, bound : 0 .. RANGE_COUNT]

SetType == [ranges : [Slots -> RangeType], idx : 0 .. RANGE_COUNT]

WorkType == [op : {"idle", "panicked", "merge", "cut"}, range : RangeType,
             i : 0 .. RANGE_COUNT, bound : 0 .. RANGE_COUNT, callers : Seq(Frames)]

\* The set, and the range that a running call was given or has collected.
SetTyped == /\ rs \in SetType
            /\ work \in WorkType
            /\ work.op \in {"merge", "cut"} => work.range.start <= work.range.end

\* The address a is in an entry, or in the range of the running call.
InEntry(a) == \E j \in 0 .. rs.idx - 1 : a \in Covered(rs.ranges[j])

InRange(a) == a \in Covered(work.range)

\* What the set stands for while it is changed: C is its content after the call.
Content(C) ==
    \A a \in Usize :
        a \in C <=> CASE work.op = "merge" -> InEntry(a) \/ InRange(a)
                      [] work.op = "cut"   -> InEntry(a) /\ ~ InRange(a)
                      [] OTHER             -> InEntry(a)

\* merge_blocks: the slots that the innermost loop has passed do not touch the
\* range; after its end no entry does.
MergeProgress ==
    LET Done(n) == \A j \in 0 .. n - 1 : Gap(work.range, rs.ranges[j])
    IN  work.op = "merge" => \/ Done(rs.idx)
                             \/ work.bound = rs.idx /\ Done(work.i)

\* remove_inner: the same for overlapping.
CutProgress ==
    LET Done(n) == \A j \in 0 .. n - 1 : ~ overlaps(work.range, rs.ranges[j])
    IN  work.op = "cut" => \/ Done(rs.idx)
                           \/ work.bound = rs.idx /\ Done(work.i)

\* remove_inner never removes an entry below the bound of a waiting loop: in a
\* recursive call only the start of an entry is left to be cut.
CutNesting ==
    work.op = "cut" =>
        /\ work.bound <= rs.idx
        /\ \A n \in DOMAIN work.callers : work.callers[n].bound <= rs.idx
        /\ work.callers # <<>> =>
              \A j \in 0 .. rs.idx - 1 :
                  overlaps(work.range, rs.ranges[j])
                      => /\ rs.ranges[j].end > work.range.end
                         /\ rs.ranges[j].start >= work.range.start

SetInv(C) == /\ SetTyped
             /\ Separated
             /\ ~ Panicked => Content(C)
             /\ MergeProgress /\ CutProgress /\ CutNesting

\* After w writes, and without clear: the slots between the entries and the
\* entries that were removed are the zeros of the fresh array, and no loop
\* reaches further than the number of writes.
Fresh(w) ==
    /\ rs.idx <= w
    /\ \A j \in Slots : rs.idx <= j /\ j < RANGE_COUNT - (w - rs.idx)
                            => rs.ranges[j].end = 0
    /\ \A j \in 0 .. rs.idx - 1 : rs.ranges[j].start >= 2

Bounded(w) ==
    /\ work.bound <= w
    /\ \A n \in DOMAIN work.callers : work.callers[n].bound <= w

Roomy(w) ==
    /\ Fresh(w)
    /\ Bounded(w)
    /\ work.op \in {"merge", "cut"} => work.range.start >= 2
    /\ Panicked => 2 * w > RANGE_COUNT

-----------------------------------------------------------------------------
(* The operators *)

\* What the types say of the parts.
LEMMA SetParts ==
    ASSUME SetTyped
    PROVE  /\ rs.idx \in 0 .. RANGE_COUNT
           /\ \A j \in Slots : rs.ranges[j] \in RangeType
           /\ rs.ranges \in [Slots -> RangeType]
           /\ work.range \in RangeType
           /\ work.i \in 0 .. RANGE_COUNT /\ work.bound \in 0 .. RANGE_COUNT
           /\ work.callers \in Seq(Frames)
           /\ work.op \in {"idle", "panicked", "merge", "cut"}
  BY DEF SetTyped, SetType, WorkType

\* The parts of a range.
LEMMA RangeParts ==
    ASSUME NEW r \in RangeType
    PROVE  /\ r.start \in Nat /\ r.start <= UsizeMax
           /\ r.end \in Nat /\ r.end <= UsizeMax
           /\ r = Range_new(r.start, r.end)
  BY RangeSetAssumption DEF RangeType, Usize, Range_new

\* A range is made of two usize.
LEMMA RangeTyped ==
    ASSUME NEW s \in Usize, NEW e \in Usize
    PROVE  /\ Range_new(s, e) \in RangeType
           /\ Range_new(s, e).start = s /\ Range_new(s, e).end = e
  BY DEF RangeType, Range_new

\* Saturating arithmetic stays in usize, and is exact away from the borders.
LEMMA Saturating ==
    ASSUME NEW x \in Usize
    PROVE  /\ saturating_add_1(x) \in Usize
           /\ x < UsizeMax => saturating_add_1(x) = x + 1
           /\ saturating_add_1(x) <= x + 1
           /\ saturating_sub_1(x) \in Usize
           /\ x > 0 => saturating_sub_1(x) = x - 1
  BY RangeSetAssumption DEF saturating_add_1, saturating_sub_1, Lesser, Greater, Usize

\* touches is the opposite of a gap: saturation at usize::MAX is harmless.
LEMMA TouchesExact ==
    ASSUME NEW a \in RangeType, NEW b \in RangeType
    PROVE  touches(a, b) <=> ~ Gap(a, b)
  BY RangeParts, RangeSetAssumption
     DEF touches, Gap, saturating_add_1, Lesser, Usize

\* Collapsing ranges that touch gives exactly the addresses of both.
LEMMA CollapsedExact ==
    ASSUME NEW a \in RangeType, NEW b \in RangeType,
           a.start <= a.end, b.start <= b.end, ~ Gap(a, b)
    PROVE  /\ Collapsed(a, b) \in RangeType
           /\ Collapsed(a, b).start <= Collapsed(a, b).end
           /\ \A x \in Usize : x \in Covered(Collapsed(a, b))
                                <=> x \in Covered(a) \/ x \in Covered(b)
           /\ \A c \in RangeType : Gap(c, a) /\ Gap(c, b)
                                        /\ c.start <= c.end => Gap(c, Collapsed(a, b))
<1> DEFINE s == Lesser(a.start, b.start)
           e == Greater(a.end, b.end)
<1>1. s \in Usize /\ e \in Usize
  BY RangeParts, RangeSetAssumption DEF Lesser, Greater, Usize
<1>2. Collapsed(a, b) \in RangeType /\ Collapsed(a, b).start = s /\ Collapsed(a, b).end = e
  BY <1>1, RangeTyped DEF Collapsed
<1>3. /\ s <= a.start /\ s <= b.start /\ (s = a.start \/ s = b.start)
      /\ a.end <= e /\ b.end <= e /\ (e = a.end \/ e = b.end)
  BY RangeParts DEF Lesser, Greater
<1> HIDE DEF s, e
<1>4. /\ a.start \in Nat /\ a.end \in Nat /\ b.start \in Nat /\ b.end \in Nat
      /\ s \in Nat /\ e \in Nat
  BY <1>1, RangeParts DEF Usize
<1>5. s <= e
  BY <1>3, <1>4
<1>6. ASSUME NEW x \in Usize
      PROVE  x \in Covered(Collapsed(a, b)) <=> x \in Covered(a) \/ x \in Covered(b)
  BY <1>2, <1>3, <1>4 DEF Covered, Gap, Usize
<1>7. ASSUME NEW c \in RangeType, Gap(c, a), Gap(c, b), c.start <= c.end
      PROVE  Gap(c, Collapsed(a, b))
  <2>1. c.start \in Nat /\ c.end \in Nat
    BY RangeParts
  <2> QED
    BY <1>2, <1>3, <1>4, <1>7, <2>1 DEF Gap
<1> QED
  BY <1>2, <1>5, <1>6, <1>7

\* remove: the entries before the slot stay, those behind it move down by one,
\* and the removed range goes to the end of the array.
LEMMA RemoveSlots ==
    ASSUME NEW set \in SetType, NEW k \in 0 .. set.idx - 1
    PROVE  /\ remove(set, k) \in SetType
           /\ remove(set, k).idx = set.idx - 1
           /\ \A j \in Slots : remove(set, k).ranges[j] =
                  IF j < k THEN set.ranges[j]
                  ELSE IF j = RANGE_COUNT - 1 THEN set.ranges[k] ELSE set.ranges[j + 1]
<1>1. set.idx \in 0 .. RANGE_COUNT /\ set.ranges \in [Slots -> RangeType]
  BY DEF SetType
<1>2. k \in Slots /\ set.idx - 1 \in 0 .. RANGE_COUNT
  BY <1>1, RangeSetAssumption DEF Slots
<1>3. \A j \in Slots : RotateLeft(set.ranges, k)[j] =
          IF j < k THEN set.ranges[j]
          ELSE IF j = RANGE_COUNT - 1 THEN set.ranges[k] ELSE set.ranges[j + 1]
  BY <1>2, RangeSetAssumption DEF RotateLeft, Slots
<1>4. \A j \in Slots : j # RANGE_COUNT - 1 => j + 1 \in Slots
  BY RangeSetAssumption DEF Slots
<1>5. RotateLeft(set.ranges, k) \in [Slots -> RangeType]
  BY <1>1, <1>2, <1>4 DEF RotateLeft
<1> QED
  BY <1>1, <1>2, <1>3, <1>5 DEF remove, SetType

-----------------------------------------------------------------------------
(* The steps that move the loop and leave the set and the range alone *)

\* The content is a matter of the set, the range and the kind of the call.
LEMMA SameContent ==
    ASSUME NEW C, rs' = rs, work'.op = work.op, work'.range = work.range
    PROVE  /\ Separated' <=> Separated
           /\ Content(C)' <=> Content(C)
  BY DEF Separated, Content, InEntry, InRange

\* The next turn of the loop.
LEMMA ContinueFields ==
    ASSUME SetTyped, work.i < work.bound, Continue
    PROVE  /\ work'.op = work.op /\ work'.range = work.range
           /\ work'.i = work.i + 1 /\ work'.bound = work.bound
           /\ work'.callers = work.callers
           /\ work' \in WorkType
<1>1. work.i + 1 \in 0 .. RANGE_COUNT
  BY SetParts, RangeSetAssumption
<1> QED
  BY <1>1 DEF SetTyped, WorkType, Continue

\* Popping a frame.
LEMMA ReturnFields ==
    ASSUME SetTyped, ReturnToCaller
    PROVE  /\ work'.op = work.op /\ work'.range = work.range
           /\ work'.i = work.callers[1].i /\ work'.bound = work.callers[1].bound
           /\ work'.callers = Tail(work.callers)
           /\ work' \in WorkType
           /\ rs' = rs
           /\ 1 \in DOMAIN work.callers
           /\ \A n \in DOMAIN work'.callers :
                  n + 1 \in DOMAIN work.callers /\ work'.callers[n] = work.callers[n + 1]
<1>1. work.callers \in Seq(Frames) /\ work.callers # <<>>
  BY SetParts DEF ReturnToCaller
<1>2. /\ Head(work.callers) = work.callers[1] /\ 1 \in DOMAIN work.callers
      /\ work.callers[1] \in Frames
      /\ Tail(work.callers) \in Seq(Frames)
      /\ \A n \in DOMAIN Tail(work.callers) :
            n + 1 \in DOMAIN work.callers /\ Tail(work.callers)[n] = work.callers[n + 1]
  BY <1>1
<1>3. work.callers[1].i \in 0 .. RANGE_COUNT /\ work.callers[1].bound \in 0 .. RANGE_COUNT
  BY <1>2 DEF Frames
<1>4. work' = [work EXCEPT !.i = work.callers[1].i, !.bound = work.callers[1].bound,
                           !.callers = Tail(work.callers)]
  BY <1>2 DEF ReturnToCaller
<1>5. /\ work'.op = work.op /\ work'.range = work.range
      /\ work'.i = work.callers[1].i /\ work'.bound = work.callers[1].bound
      /\ work'.callers = Tail(work.callers)
      /\ work' \in WorkType
  BY <1>2, <1>3, <1>4 DEF SetTyped, WorkType
<1> QED
  BY <1>2, <1>5 DEF ReturnToCaller

\* A call that panicked leaves the set as it was.
LEMMA PanicInv ==
    ASSUME NEW C, SetInv(C), Panic
    PROVE  SetInv(C)'
<1>1. work'.op = "panicked" /\ work' \in WorkType /\ rs' = rs
  BY DEF Panic, SetInv, SetTyped, WorkType
<1> QED
  BY <1>1 DEF SetInv, SetTyped, Separated, MergeProgress, CutProgress, CutNesting, Panicked

\* merge_blocks passes an entry with a gap to the range.
LEMMA MergeSkipInv ==
    ASSUME NEW C, SetInv(C), MergeSkip
    PROVE  SetInv(C)'
<1>1. SetTyped /\ work.op = "merge" /\ work.i < work.bound /\ Continue /\ rs' = rs
  BY DEF SetInv, MergeSkip, Turn
<1>2. /\ work'.op = "merge" /\ work'.range = work.range
      /\ work'.i = work.i + 1 /\ work'.bound = work.bound
      /\ work' \in WorkType
  BY <1>1, ContinueFields
<1>3. SetTyped'
  BY <1>1, <1>2 DEF SetTyped
<1>4. Separated' /\ (~ Panicked => Content(C))'
  BY <1>1, <1>2, SameContent DEF SetInv, Panicked
<1>5. MergeProgress'
  <2>1. work.i \in Nat /\ work.i \in Slots /\ rs.idx \in Nat
    BY <1>1, SetParts, RangeSetAssumption DEF Slots
  <2>2. Gap(work.range, rs.ranges[work.i])
    BY <1>1, <2>1, SetParts, TouchesExact DEF MergeSkip, Other
  <2>3. \A j \in 0 .. (work.i + 1) - 1 : j \in 0 .. work.i - 1 \/ j = work.i
    BY <2>1
  <2>4. MergeProgress
    BY DEF SetInv
  <2>5. CASE \A j \in 0 .. rs.idx - 1 : Gap(work.range, rs.ranges[j])
    BY <1>1, <1>2, <2>5 DEF MergeProgress
  <2>6. CASE work.bound = rs.idx
             /\ \A j \in 0 .. work.i - 1 : Gap(work.range, rs.ranges[j])
    <3>1. \A j \in 0 .. (work.i + 1) - 1 : Gap(work.range, rs.ranges[j])
      BY <2>2, <2>3, <2>6
    <3> QED
      BY <1>1, <1>2, <2>6, <3>1 DEF MergeProgress
  <2> QED
    BY <1>1, <2>4, <2>5, <2>6 DEF MergeProgress
<1>6. CutProgress' /\ CutNesting'
  BY <1>2 DEF CutProgress, CutNesting
<1> QED
  BY <1>3, <1>4, <1>5, <1>6 DEF SetInv

\* The end of a loop means that the work is done, in every frame.
LEMMA LoopDone ==
    ASSUME SetTyped, work.i >= work.bound
    PROVE  /\ MergeProgress /\ work.op = "merge"
                 => \A j \in 0 .. rs.idx - 1 : Gap(work.range, rs.ranges[j])
           /\ CutProgress /\ work.op = "cut"
                 => \A j \in 0 .. rs.idx - 1 : ~ overlaps(work.range, rs.ranges[j])
  BY SetParts DEF MergeProgress, CutProgress

\* merge_blocks returns to merge_blocks.
LEMMA MergeReturnsInv ==
    ASSUME NEW C, SetInv(C), MergeReturns
    PROVE  SetInv(C)'
<1>1. SetTyped /\ work.op = "merge" /\ work.i >= work.bound /\ ReturnToCaller
  BY DEF SetInv, MergeReturns, LoopEnds
<1>2. /\ work'.op = "merge" /\ work'.range = work.range
      /\ work' \in WorkType /\ rs' = rs
  BY <1>1, ReturnFields
<1>3. SetTyped'
  BY <1>1, <1>2 DEF SetTyped
<1>4. Separated' /\ (~ Panicked => Content(C))'
  BY <1>1, <1>2, SameContent DEF SetInv, Panicked
<1>5. MergeProgress'
  BY <1>1, <1>2, LoopDone DEF SetInv, MergeProgress
<1>6. CutProgress' /\ CutNesting'
  BY <1>2 DEF CutProgress, CutNesting
<1> QED
  BY <1>3, <1>4, <1>5, <1>6 DEF SetInv

-----------------------------------------------------------------------------
(* insert *)

\* A recursive call, with another range in hand.
LEMMA RecurseFields ==
    ASSUME NEW w \in WorkType, w.i < w.bound, NEW n \in 0 .. RANGE_COUNT
    PROVE  /\ Recurse(w, n) \in WorkType
           /\ Recurse(w, n).op = w.op /\ Recurse(w, n).range = w.range
           /\ Recurse(w, n).i = 0 /\ Recurse(w, n).bound = n
           /\ Recurse(w, n).callers # <<>>
           /\ Recurse(w, n).callers = <<[i |-> w.i + 1, bound |-> w.bound]>> \o w.callers
<1> DEFINE f == [i |-> w.i + 1, bound |-> w.bound]
<1>1. w.i + 1 \in 0 .. RANGE_COUNT /\ w.bound \in 0 .. RANGE_COUNT /\ w.callers \in Seq(Frames)
  BY RangeSetAssumption DEF WorkType
<1>2. f \in Frames
  BY <1>1 DEF Frames
<1> HIDE DEF f
<1>3. <<f>> \o w.callers \in Seq(Frames) /\ <<f>> \o w.callers # <<>>
  BY <1>1, <1>2
<1>4. Recurse(w, n) = [[w EXCEPT !.callers = <<f>> \o w.callers] EXCEPT !.i = 0, !.bound = n]
  BY DEF Recurse, Enter, f
<1>5. 0 \in 0 .. RANGE_COUNT
  BY RangeSetAssumption
<1> QED
  BY <1>3, <1>4, <1>5 DEF WorkType, f

\* The bounds of the waiting frames after a recursive call.
LEMMA PushedBounds ==
    ASSUME NEW s \in Seq(Frames), NEW f \in Frames, NEW m \in Nat, f.bound <= m,
           \A n \in DOMAIN s : s[n].bound <= m
    PROVE  \A n \in DOMAIN (<<f>> \o s) : (<<f>> \o s)[n].bound <= m
<1>1. \A n \in DOMAIN (<<f>> \o s) :
          (<<f>> \o s)[n] = f \/ (n - 1 \in DOMAIN s /\ (<<f>> \o s)[n] = s[n - 1])
  OBVIOUS
<1> QED
  BY <1>1

\* Removing an entry: the others stay entries, and nothing else changes.
LEMMA RemovedEntries ==
    ASSUME SetTyped, Separated, NEW k \in 0 .. rs.idx - 1, rs' = remove(rs, k)
    PROVE  /\ rs' \in SetType /\ rs'.idx = rs.idx - 1
           /\ Separated'
           /\ \A j \in 0 .. rs'.idx - 1 : \E h \in 0 .. rs.idx - 1 :
                  h # k /\ rs'.ranges[j] = rs.ranges[h]
           /\ \A a \in Usize : InEntry(a) <=> InEntry(a)' \/ a \in Covered(rs.ranges[k])
<1>1. /\ rs.idx \in 0 .. RANGE_COUNT /\ rs.idx \in Nat /\ k \in Nat
      /\ \A j \in 0 .. rs.idx - 1 : j \in Slots
  BY SetParts, RangeSetAssumption DEF Slots
<1>2. /\ rs' \in SetType /\ rs'.idx = rs.idx - 1
      /\ \A j \in 0 .. rs.idx - 2 :
            rs'.ranges[j] = IF j < k THEN rs.ranges[j] ELSE rs.ranges[j + 1]
  <2>1. rs \in SetType
    BY DEF SetTyped
  <2>2. \A j \in 0 .. rs.idx - 2 : j \in Slots /\ j # RANGE_COUNT - 1
    BY <1>1, RangeSetAssumption DEF Slots
  <2> QED
    BY <1>1, <2>1, <2>2, RemoveSlots
<1>3. Separated'
  <2> SUFFICES ASSUME NEW j \in 0 .. rs.idx - 2, NEW l \in 0 .. rs.idx - 2
               PROVE  /\ rs'.ranges[j].start <= rs'.ranges[j].end
                      /\ j # l => Gap(rs'.ranges[j], rs'.ranges[l])
    BY <1>1, <1>2 DEF Separated
  <2> DEFINE jj == IF j < k THEN j ELSE j + 1
             ll == IF l < k THEN l ELSE l + 1
  <2>1. jj \in 0 .. rs.idx - 1 /\ ll \in 0 .. rs.idx - 1 /\ (j # l => jj # ll)
    BY <1>1
  <2>2. rs'.ranges[j] = rs.ranges[jj] /\ rs'.ranges[l] = rs.ranges[ll]
    BY <1>2
  <2> HIDE DEF jj, ll
  <2> QED
    BY <2>1, <2>2 DEF Separated
<1>4. ASSUME NEW j \in 0 .. rs'.idx - 1
      PROVE  \E h \in 0 .. rs.idx - 1 : h # k /\ rs'.ranges[j] = rs.ranges[h]
  <2> DEFINE h == IF j < k THEN j ELSE j + 1
  <2>1. h \in 0 .. rs.idx - 1 /\ h # k /\ rs'.ranges[j] = rs.ranges[h]
    BY <1>1, <1>2
  <2> QED
    BY <2>1
<1>5. ASSUME NEW a \in Usize
      PROVE  InEntry(a) <=> InEntry(a)' \/ a \in Covered(rs.ranges[k])
  <2>1. InEntry(a)' => InEntry(a)
    BY <1>2, <1>4 DEF InEntry
  <2>2. InEntry(a) => InEntry(a)' \/ a \in Covered(rs.ranges[k])
    <3> SUFFICES ASSUME NEW j \in 0 .. rs.idx - 1, a \in Covered(rs.ranges[j]), j # k
                 PROVE  \E h \in 0 .. rs.idx - 2 : a \in Covered(rs'.ranges[h])
      BY <1>1, <1>2 DEF InEntry
    <3>1. CASE j < k
      <4>1. j \in 0 .. rs.idx - 2
        BY <1>1, <3>1
      <4> QED
        BY <1>2, <3>1, <4>1
    <3>2. CASE j > k
      <4>1. j - 1 \in 0 .. rs.idx - 2 /\ ~ j - 1 < k /\ (j - 1) + 1 = j
        BY <1>1, <3>2
      <4>2. rs'.ranges[j - 1] = rs.ranges[j]
        BY <1>2, <4>1
      <4> QED
        BY <4>1, <4>2
    <3> QED
      BY <1>1, <3>1, <3>2
  <2>3. a \in Covered(rs.ranges[k]) => InEntry(a)
    BY DEF InEntry
  <2> QED
    BY <2>1, <2>2, <2>3
<1> QED
  BY <1>2, <1>3, <1>4, <1>5

\* merge_blocks takes an entry that touches the range into it.
LEMMA MergeBlockInv ==
    ASSUME NEW C, SetInv(C), MergeBlock, work.i < rs.idx
    PROVE  SetInv(C)'
<1> DEFINE x == rs.ranges[work.i]
           r == Collapsed(work.range, x)
<1>1. /\ SetTyped /\ work.op = "merge" /\ work.i < work.bound
      /\ touches(work.range, x)
      /\ Separated /\ Content(C)
  BY DEF SetInv, MergeBlock, Turn, Other, Panicked
<1>2. /\ rs' = remove(rs, work.i)
      /\ work' = Recurse([work EXCEPT !.range = r], rs.idx - 1)
  BY SetParts, <1>1 DEF MergeBlock, RemoveSlot, Other
<1>3. /\ work.i \in 0 .. rs.idx - 1 /\ rs.idx \in 0 .. RANGE_COUNT /\ rs.idx \in Nat
      /\ rs.idx - 1 \in 0 .. RANGE_COUNT
      /\ work.i \in Slots /\ work.i \in Nat
      /\ \A j \in 0 .. rs.idx - 1 : j \in Slots
  BY <1>1, SetParts, RangeSetAssumption DEF Slots
<1>4. x \in RangeType /\ work.range \in RangeType /\ \A j \in Slots : rs.ranges[j] \in RangeType
  BY <1>1, <1>3, SetParts
<1>5. ~ Gap(work.range, x) /\ x.start <= x.end /\ work.range.start <= work.range.end
  BY <1>1, <1>3, <1>4, TouchesExact DEF Separated, SetTyped
<1>6. /\ r \in RangeType /\ r.start <= r.end
      /\ \A a \in Usize : a \in Covered(r) <=> a \in Covered(work.range) \/ a \in Covered(x)
  BY <1>4, <1>5, CollapsedExact
<1> HIDE DEF r
<1>7. /\ work' \in WorkType /\ work'.op = "merge" /\ work'.range = r
      /\ work'.i = 0 /\ work'.bound = rs.idx - 1
  <2> DEFINE w == [work EXCEPT !.range = r]
  <2>1. w \in WorkType /\ w.i < w.bound /\ w.op = "merge" /\ w.range = r
    BY <1>1, <1>6 DEF SetTyped, WorkType
  <2> HIDE DEF w
  <2>2. work' = Recurse(w, rs.idx - 1)
    BY <1>2 DEF w
  <2> QED
    BY <1>3, <2>1, <2>2, RecurseFields
<1>8. /\ rs' \in SetType /\ rs'.idx = rs.idx - 1 /\ Separated'
      /\ \A a \in Usize : InEntry(a) <=> InEntry(a)' \/ a \in Covered(x)
  BY <1>1, <1>2, <1>3, RemovedEntries
<1>9. SetTyped'
  BY <1>6, <1>7, <1>8 DEF SetTyped
<1>11. Content(C)'
  <2> SUFFICES ASSUME NEW a \in Usize
               PROVE  (InEntry(a) \/ InRange(a))' <=> (InEntry(a) \/ InRange(a))
    BY <1>1, <1>7 DEF Content
  <2>1. InRange(a)' <=> InRange(a) \/ a \in Covered(x)
    BY <1>6, <1>7 DEF InRange
  <2> QED
    BY <1>8, <2>1
<1>12. MergeProgress'
  BY <1>7, <1>8 DEF MergeProgress
<1>13. CutProgress' /\ CutNesting'
  BY <1>7 DEF CutProgress, CutNesting
<1> QED
  BY <1>8, <1>9, <1>11, <1>12, <1>13 DEF SetInv

\* The fields of the idle record.
LEMMA NoWorkFields ==
    /\ NoWork \in WorkType /\ NoWork.op = "idle" /\ NoWork.callers = <<>>
    /\ NoWork.i = 0 /\ NoWork.bound = 0
<1>1. 0 \in Usize /\ 0 \in 0 .. RANGE_COUNT
  BY RangeSetAssumption DEF Usize
<1>2. Range_new(0, 0) \in RangeType
  BY <1>1, RangeTyped
<1>3. <<>> \in Seq(Frames)
  OBVIOUS
<1> QED
  BY <1>1, <1>2, <1>3 DEF NoWork, WorkType

\* The outermost loop has ended and the range is written behind the entries.
LEMMA InsertReturnsInv ==
    ASSUME NEW C, SetInv(C), InsertReturns, rs.idx # RANGE_COUNT
    PROVE  SetInv(C)'
<1>1. /\ SetTyped /\ work.op = "merge" /\ work.i >= work.bound
      /\ Separated /\ Content(C)
      /\ work.range.start <= work.range.end
  BY DEF SetInv, InsertReturns, LoopEnds, Panicked, SetTyped
<1>2. \A j \in 0 .. rs.idx - 1 : Gap(work.range, rs.ranges[j])
  BY <1>1, LoopDone DEF SetInv
<1>3. /\ rs.idx \in Nat /\ rs.idx \in Slots /\ rs.idx + 1 \in 0 .. RANGE_COUNT
      /\ \A j \in 0 .. rs.idx - 1 : j \in Slots /\ j # rs.idx
      /\ \A j \in 0 .. (rs.idx + 1) - 1 : j \in 0 .. rs.idx - 1 \/ j = rs.idx
      /\ 0 .. rs.idx - 1 \subseteq 0 .. (rs.idx + 1) - 1
      /\ rs.idx \in 0 .. (rs.idx + 1) - 1
  BY <1>1, SetParts, RangeSetAssumption DEF Slots
<1>4. /\ rs' = [rs EXCEPT !.ranges[rs.idx] = work.range, !.idx = rs.idx + 1]
      /\ work' = NoWork
  BY DEF InsertReturns
<1>5. /\ rs' \in SetType /\ rs'.idx = rs.idx + 1
      /\ rs'.ranges = [rs.ranges EXCEPT ![rs.idx] = work.range]
  BY <1>1, <1>3, <1>4, SetParts DEF SetTyped, SetType
<1>6. /\ rs'.ranges[rs.idx] = work.range
      /\ \A j \in 0 .. rs.idx - 1 : rs'.ranges[j] = rs.ranges[j]
  BY <1>1, <1>3, <1>5, SetParts
<1>7. SetTyped'
  BY <1>4, <1>5, NoWorkFields DEF SetTyped
<1>8. Separated'
  <2> SUFFICES ASSUME NEW j \in 0 .. (rs.idx + 1) - 1, NEW k \in 0 .. (rs.idx + 1) - 1
               PROVE  /\ rs'.ranges[j].start <= rs'.ranges[j].end
                      /\ j # k => Gap(rs'.ranges[j], rs'.ranges[k])
    BY <1>5 DEF Separated
  <2>1. rs'.ranges[j].start <= rs'.ranges[j].end
    BY <1>1, <1>3, <1>6 DEF Separated
  <2>2. CASE j = rs.idx /\ k \in 0 .. rs.idx - 1
    BY <1>2, <1>6, <2>1, <2>2
  <2>3. CASE k = rs.idx /\ j \in 0 .. rs.idx - 1
    BY <1>2, <1>6, <2>1, <2>3 DEF Gap
  <2>4. CASE j \in 0 .. rs.idx - 1 /\ k \in 0 .. rs.idx - 1
    BY <1>1, <1>6, <2>4 DEF Separated
  <2> QED
    BY <1>3, <2>1, <2>2, <2>3, <2>4
<1>9. Content(C)'
  <2> SUFFICES ASSUME NEW a \in Usize
               PROVE  InEntry(a)' <=> (InEntry(a) \/ InRange(a))
    BY <1>1, <1>4, NoWorkFields DEF Content
  <2>1. InEntry(a)' <=> \E j \in 0 .. (rs.idx + 1) - 1 : a \in Covered(rs'.ranges[j])
    BY <1>5 DEF InEntry
  <2>2. InEntry(a) => InEntry(a)'
    BY <1>3, <1>6, <2>1 DEF InEntry
  <2>3. InRange(a) => InEntry(a)'
    BY <1>3, <1>6, <2>1 DEF InRange
  <2>4. InEntry(a)' => InEntry(a) \/ InRange(a)
    BY <1>3, <1>6, <2>1 DEF InRange, InEntry
  <2> QED
    BY <2>2, <2>3, <2>4
<1>10. MergeProgress' /\ CutProgress' /\ CutNesting'
  BY <1>4, NoWorkFields DEF MergeProgress, CutProgress, CutNesting
<1> QED
  BY <1>7, <1>8, <1>9, <1>10 DEF SetInv
-----------------------------------------------------------------------------
(* remove_range *)

\* A turn of remove_inner finds an entry below idx, and its work is not done
\* when that entry overlaps the range.
LEMMA CutTurn ==
    ASSUME NEW C, SetInv(C), Turn("cut")
    PROVE  /\ SetTyped /\ work.op = "cut" /\ work.i < work.bound
           /\ Separated /\ Content(C)
           /\ work.i \in 0 .. rs.idx - 1 /\ work.i \in Slots
           /\ rs.idx \in Nat
           /\ \A j \in 0 .. rs.idx - 1 : j \in Slots /\ rs.ranges[j] \in RangeType
           /\ work.range \in RangeType /\ work.range.start <= work.range.end
           /\ Other = rs.ranges[work.i] /\ Other \in RangeType /\ Other.start <= Other.end
           /\ overlaps(work.range, Other)
                 => /\ work.bound = rs.idx
                    /\ \A j \in 0 .. work.i - 1 : ~ overlaps(work.range, rs.ranges[j])
<1>1. /\ SetTyped /\ work.op = "cut" /\ work.i < work.bound
      /\ Separated /\ Content(C) /\ work.bound <= rs.idx
      /\ work.range.start <= work.range.end
  BY DEF SetInv, Turn, Panicked, CutNesting, SetTyped
<1>2. /\ work.i \in 0 .. rs.idx - 1 /\ work.i \in Slots /\ rs.idx \in Nat
      /\ \A j \in 0 .. rs.idx - 1 : j \in Slots
  BY <1>1, SetParts, RangeSetAssumption DEF Slots
<1>3. /\ work.range \in RangeType
      /\ \A j \in 0 .. rs.idx - 1 : rs.ranges[j] \in RangeType
  BY <1>1, <1>2, SetParts
<1>4. Other = rs.ranges[work.i] /\ Other \in RangeType /\ Other.start <= Other.end
  BY <1>1, <1>2, <1>3 DEF Other, Separated
<1>5. ASSUME overlaps(work.range, Other)
      PROVE  /\ work.bound = rs.idx
             /\ \A j \in 0 .. work.i - 1 : ~ overlaps(work.range, rs.ranges[j])
  BY <1>1, <1>2, <1>4, <1>5 DEF SetInv, CutProgress
<1> QED
  BY <1>1, <1>2, <1>3, <1>4, <1>5

\* remove_inner passes an entry that does not overlap the range.
LEMMA CutSkipInv ==
    ASSUME NEW C, SetInv(C), CutSkip
    PROVE  SetInv(C)'
<1>1. /\ SetTyped /\ work.op = "cut" /\ work.i < work.bound /\ rs' = rs /\ Continue
      /\ work.i \in 0 .. rs.idx - 1 /\ ~ overlaps(work.range, rs.ranges[work.i])
      /\ work.i \in Nat
  BY CutTurn DEF CutSkip, Slots
<1>2. /\ work'.op = "cut" /\ work'.range = work.range
      /\ work'.i = work.i + 1 /\ work'.bound = work.bound
      /\ work'.callers = work.callers
      /\ work' \in WorkType
  BY <1>1, ContinueFields
<1>3. SetTyped'
  BY <1>1, <1>2 DEF SetTyped, SetInv
<1>4. Separated' /\ (~ Panicked => Content(C))'
  BY <1>1, <1>2, SameContent DEF SetInv, Panicked
<1>5. CutProgress'
  <2>1. \A j \in 0 .. (work.i + 1) - 1 : j \in 0 .. work.i - 1 \/ j = work.i
    BY <1>1
  <2>2. CASE \A j \in 0 .. rs.idx - 1 : ~ overlaps(work.range, rs.ranges[j])
    BY <1>1, <1>2, <2>2 DEF CutProgress
  <2>3. CASE work.bound = rs.idx
             /\ \A j \in 0 .. work.i - 1 : ~ overlaps(work.range, rs.ranges[j])
    <3>1. \A j \in 0 .. (work.i + 1) - 1 : ~ overlaps(work.range, rs.ranges[j])
      BY <1>1, <2>1, <2>3
    <3> QED
      BY <1>1, <1>2, <2>3, <3>1 DEF CutProgress
  <2> QED
    BY <1>1, <2>2, <2>3 DEF CutProgress, SetInv
<1>6. CutNesting'
  BY <1>1, <1>2 DEF CutNesting, SetInv
<1>7. MergeProgress'
  BY <1>2 DEF MergeProgress
<1> QED
  BY <1>3, <1>4, <1>5, <1>6, <1>7 DEF SetInv

\* remove_inner returns to remove_inner.
LEMMA CutReturnsInv ==
    ASSUME NEW C, SetInv(C), CutReturns
    PROVE  SetInv(C)'
<1>1. SetTyped /\ work.op = "cut" /\ work.i >= work.bound /\ ReturnToCaller
  BY DEF SetInv, CutReturns, LoopEnds
<1>2. /\ work'.op = "cut" /\ work'.range = work.range
      /\ work' \in WorkType /\ rs' = rs
      /\ work'.bound = work.callers[1].bound /\ 1 \in DOMAIN work.callers
      /\ \A n \in DOMAIN work'.callers :
            n + 1 \in DOMAIN work.callers /\ work'.callers[n] = work.callers[n + 1]
  BY <1>1, ReturnFields
<1>3. SetTyped'
  BY <1>1, <1>2 DEF SetTyped, SetInv
<1>4. Separated' /\ (~ Panicked => Content(C))'
  BY <1>1, <1>2, SameContent DEF SetInv, Panicked
<1>5. \A j \in 0 .. rs.idx - 1 : ~ overlaps(work.range, rs.ranges[j])
  BY <1>1, LoopDone DEF SetInv
<1>6. CutProgress'
  BY <1>2, <1>5 DEF CutProgress
<1>7. CutNesting'
  <2>1. \A n \in DOMAIN work.callers : work.callers[n].bound <= rs.idx
    BY <1>1 DEF SetInv, CutNesting
  <2>2. work'.bound <= rs'.idx
    BY <1>2, <2>1
  <2>3. \A n \in DOMAIN work'.callers : work'.callers[n].bound <= rs'.idx
    BY <1>2, <2>1
  <2> QED
    BY <1>2, <1>5, <2>2, <2>3 DEF CutNesting
<1>8. MergeProgress'
  BY <1>2 DEF MergeProgress
<1> QED
  BY <1>3, <1>4, <1>6, <1>7, <1>8 DEF SetInv

\* The outermost loop has ended: no entry overlaps what was to be cut out.
LEMMA RemoveReturnsInv ==
    ASSUME NEW C, SetInv(C), RemoveReturns
    PROVE  SetInv(C)'
<1>1. /\ SetTyped /\ work.op = "cut" /\ work.i >= work.bound /\ work' = NoWork /\ rs' = rs
      /\ Separated /\ Content(C)
  BY DEF SetInv, RemoveReturns, LoopEnds, Panicked
<1>2. \A j \in 0 .. rs.idx - 1 : ~ overlaps(work.range, rs.ranges[j])
  BY <1>1, LoopDone DEF SetInv
<1>3. \A a \in Usize : ~ (InEntry(a) /\ InRange(a))
  <2> SUFFICES ASSUME NEW a \in Usize, NEW j \in 0 .. rs.idx - 1,
                      a \in Covered(rs.ranges[j]), InRange(a)
               PROVE  FALSE
    BY DEF InEntry
  <2>1. j \in Slots
    BY <1>1, SetParts, RangeSetAssumption DEF Slots
  <2>2. /\ rs.ranges[j].start \in Nat /\ rs.ranges[j].end \in Nat
        /\ work.range.start \in Nat /\ work.range.end \in Nat
    BY <1>1, <2>1, SetParts, RangeParts
  <2> QED
    BY <1>2, <2>2 DEF overlaps, Covered, InRange
<1>4. Content(C)'
  BY <1>1, <1>3, NoWorkFields DEF Content, InEntry
<1>5. SetTyped' /\ Separated'
  BY <1>1, NoWorkFields DEF SetTyped, Separated
<1>6. MergeProgress' /\ CutProgress' /\ CutNesting'
  BY <1>1, NoWorkFields DEF MergeProgress, CutProgress, CutNesting
<1> QED
  BY <1>4, <1>5, <1>6 DEF SetInv
\* An entry that lies in the range goes as a whole.
LEMMA CutRemoveInv ==
    ASSUME NEW C, SetInv(C), CutRemove
    PROVE  SetInv(C)'
<1>1. /\ SetTyped /\ work.op = "cut" /\ work.i < work.bound
      /\ Separated /\ Content(C)
      /\ work.i \in 0 .. rs.idx - 1
      /\ rs.idx \in Nat
      /\ work.range \in RangeType /\ work.range.start <= work.range.end
      /\ Other = rs.ranges[work.i] /\ Other \in RangeType /\ Other.start <= Other.end
      /\ overlaps(work.range, Other) /\ contains(Other, work.range)
  BY CutTurn DEF CutRemove
<1>2. rs' = remove(rs, work.i) /\ work' = Enter(work, rs.idx - 1)
  BY <1>1 DEF CutRemove, RemoveSlot
<1>3. /\ Other.start \in Nat /\ Other.end \in Nat
      /\ work.range.start \in Nat /\ work.range.end \in Nat
  BY <1>1, RangeParts
<1>4. work.callers = <<>>
  BY <1>1, <1>3 DEF SetInv, CutNesting, contains
<1>5. /\ rs' \in SetType /\ rs'.idx = rs.idx - 1 /\ Separated'
      /\ \A a \in Usize : InEntry(a) <=> InEntry(a)' \/ a \in Covered(Other)
  BY <1>1, <1>2, RemovedEntries
<1>6. /\ work' \in WorkType /\ work'.op = "cut" /\ work'.range = work.range
      /\ work'.i = 0 /\ work'.bound = rs.idx - 1 /\ work'.callers = <<>>
  <2>1. rs.idx - 1 \in 0 .. RANGE_COUNT /\ 0 \in 0 .. RANGE_COUNT
    BY <1>1, SetParts, RangeSetAssumption
  <2> QED
    BY <1>1, <1>2, <1>4, <2>1 DEF Enter, WorkType, SetTyped
<1>7. SetTyped'
  BY <1>1, <1>5, <1>6 DEF SetTyped
<1>8. Content(C)'
  <2> SUFFICES ASSUME NEW a \in Usize
               PROVE  (InEntry(a) /\ ~ InRange(a))' <=> (InEntry(a) /\ ~ InRange(a))
    BY <1>1, <1>6 DEF Content
  <2>1. a \in Covered(Other) => InRange(a)
    BY <1>1, <1>3 DEF contains, Covered, InRange, Usize
  <2>2. InRange(a)' <=> InRange(a)
    BY <1>6 DEF InRange
  <2> QED
    BY <1>5, <2>1, <2>2
<1>9. CutProgress' /\ MergeProgress'
  BY <1>1, <1>5, <1>6 DEF CutProgress, MergeProgress
<1>10. CutNesting'
  BY <1>1, <1>5, <1>6 DEF CutNesting
<1> QED
  BY <1>5, <1>7, <1>8, <1>9, <1>10 DEF SetInv

\* An entry shrinks to a part that is not cut out.
LEMMA ShrunkEntry ==
    ASSUME NEW C, SetInv(C), Turn("cut"), overlaps(work.range, Other),
           NEW y \in RangeType, y.start <= y.end,
           Other.start <= y.start, y.end <= Other.end,
           ~ overlaps(work.range, y),
           \A a \in Usize : a \in Covered(Other) => a \in Covered(y) \/ InRange(a),
           rs' = [rs EXCEPT !.ranges = [rs.ranges EXCEPT ![work.i] = y]], Continue
    PROVE  SetInv(C)'
<1>1. /\ SetTyped /\ work.op = "cut" /\ work.i < work.bound
      /\ Separated /\ Content(C)
      /\ work.i \in 0 .. rs.idx - 1 /\ work.i \in Slots
      /\ rs.idx \in Nat
      /\ \A j \in 0 .. rs.idx - 1 : j \in Slots /\ rs.ranges[j] \in RangeType
      /\ work.range \in RangeType
      /\ Other = rs.ranges[work.i] /\ Other \in RangeType
      /\ work.bound = rs.idx
      /\ \A j \in 0 .. work.i - 1 : ~ overlaps(work.range, rs.ranges[j])
  BY CutTurn
<1>2. /\ work'.op = "cut" /\ work'.range = work.range
      /\ work'.i = work.i + 1 /\ work'.bound = work.bound
      /\ work'.callers = work.callers
      /\ work' \in WorkType
  BY <1>1, ContinueFields
<1>3. /\ rs' \in SetType /\ rs'.idx = rs.idx
      /\ rs'.ranges = [rs.ranges EXCEPT ![work.i] = y]
  BY <1>1 DEF SetTyped, SetType
<1>4. \A j \in 0 .. rs.idx - 1 : rs'.ranges[j] = IF j = work.i THEN y ELSE rs.ranges[j]
  BY <1>1, <1>3, SetParts
<1>5. /\ Other.start \in Nat /\ Other.end \in Nat /\ y.start \in Nat /\ y.end \in Nat
      /\ work.range.start \in Nat /\ work.range.end \in Nat
  BY <1>1, RangeParts
<1>6. SetTyped'
  BY <1>1, <1>2, <1>3 DEF SetTyped
<1>7. Separated'
  <2> SUFFICES ASSUME NEW j \in 0 .. rs.idx - 1, NEW k \in 0 .. rs.idx - 1
               PROVE  /\ rs'.ranges[j].start <= rs'.ranges[j].end
                      /\ j # k => Gap(rs'.ranges[j], rs'.ranges[k])
    BY <1>3 DEF Separated
  <2>1. rs'.ranges[j].start <= rs'.ranges[j].end
    BY <1>1, <1>4 DEF Separated
  <2>2. ASSUME j # k PROVE Gap(rs'.ranges[j], rs'.ranges[k])
    <3>1. Gap(rs.ranges[j], rs.ranges[k])
      BY <1>1, <2>2 DEF Separated
    <3>2. /\ rs.ranges[j].start \in Nat /\ rs.ranges[j].end \in Nat
          /\ rs.ranges[k].start \in Nat /\ rs.ranges[k].end \in Nat
      BY <1>1, RangeParts
    <3>3. CASE j = work.i
      BY <1>1, <1>4, <1>5, <2>2, <3>1, <3>2, <3>3 DEF Gap
    <3>4. CASE k = work.i
      BY <1>1, <1>4, <1>5, <2>2, <3>1, <3>2, <3>4 DEF Gap
    <3>5. CASE j # work.i /\ k # work.i
      BY <1>4, <3>1, <3>5
    <3> QED
      BY <3>3, <3>4, <3>5
  <2> QED
    BY <2>1, <2>2
<1>8. Content(C)'
  <2> SUFFICES ASSUME NEW a \in Usize
               PROVE  (InEntry(a) /\ ~ InRange(a))' <=> (InEntry(a) /\ ~ InRange(a))
    BY <1>1, <1>2 DEF Content
  <2>1. InRange(a)' <=> InRange(a)
    BY <1>2 DEF InRange
  <2>2. a \in Covered(y) => a \in Covered(Other)
    BY <1>5 DEF Covered, Usize
  <2>3. InEntry(a)' => InEntry(a)
    BY <1>1, <1>3, <1>4, <2>2 DEF InEntry
  <2>4. InEntry(a) /\ ~ InRange(a) => InEntry(a)'
    BY <1>1, <1>3, <1>4 DEF InEntry
  <2> QED
    BY <2>1, <2>3, <2>4
<1>9. CutProgress'
  <2>1. \A j \in 0 .. (work.i + 1) - 1 :
            j \in 0 .. rs.idx - 1 /\ (j \in 0 .. work.i - 1 \/ j = work.i)
    BY <1>1
  <2>2. \A j \in 0 .. (work.i + 1) - 1 : ~ overlaps(work.range, rs'.ranges[j])
    BY <1>1, <1>4, <2>1
  <2> QED
    BY <1>1, <1>2, <1>3, <2>2 DEF CutProgress
<1>10. CutNesting'
  <2>1. work'.bound <= rs'.idx /\ \A n \in DOMAIN work'.callers : work'.callers[n].bound <= rs'.idx
    BY <1>1, <1>2, <1>3 DEF SetInv, CutNesting
  <2>2. ASSUME work'.callers # <<>>, NEW j \in 0 .. rs'.idx - 1,
               overlaps(work'.range, rs'.ranges[j])
        PROVE  rs'.ranges[j].end > work'.range.end /\ rs'.ranges[j].start >= work'.range.start
    <3>1. j # work.i /\ rs'.ranges[j] = rs.ranges[j]
      BY <1>2, <1>3, <1>4, <2>2
    <3> QED
      BY <1>1, <1>2, <1>3, <2>2, <3>1 DEF SetInv, CutNesting
  <2> QED
    BY <2>1, <2>2 DEF CutNesting
<1>11. MergeProgress'
  BY <1>2 DEF MergeProgress
<1> QED
  BY <1>6, <1>7, <1>8, <1>9, <1>10, <1>11 DEF SetInv

\* The range covers the start of an entry.
LEMMA CutStartInv ==
    ASSUME NEW C, SetInv(C), CutStart
    PROVE  SetInv(C)'
<1> DEFINE y == Range_new(saturating_add_1(work.range.end), Other.end)
<1>1. /\ SetTyped /\ Turn("cut") /\ overlaps(work.range, Other) /\ Continue
      /\ ~ contains(Other, work.range) /\ work.range.start <= Other.start
      /\ work.i \in Slots
      /\ work.range \in RangeType
      /\ Other = rs.ranges[work.i] /\ Other \in RangeType
  BY CutTurn DEF CutStart, CutsPart
<1>2. /\ Other.start \in Nat /\ Other.end \in Nat /\ Other.end <= UsizeMax
      /\ work.range.start \in Nat /\ work.range.end \in Nat
      /\ work.range.end \in Usize /\ Other.end \in Usize
      /\ Other = Range_new(Other.start, Other.end)
  BY <1>1, RangeParts, RangeSetAssumption DEF Usize
<1>3. work.range.end < Other.end
  BY <1>1, <1>2 DEF contains
<1>4. saturating_add_1(work.range.end) = work.range.end + 1
      /\ saturating_add_1(work.range.end) \in Usize
  BY <1>2, <1>3, Saturating, RangeSetAssumption
<1>5. y \in RangeType /\ y.start = work.range.end + 1 /\ y.end = Other.end
  BY <1>2, <1>4, RangeTyped
<1>6. rs' = [rs EXCEPT !.ranges = [rs.ranges EXCEPT ![work.i] = y]]
  <2>1. [Other EXCEPT !.start = saturating_add_1(work.range.end)] = y
    BY <1>1 DEF Range_new, RangeType
  <2>2. rs' = [rs EXCEPT !.ranges = [rs.ranges EXCEPT ![work.i] =
                  [rs.ranges[work.i] EXCEPT !.start = saturating_add_1(work.range.end)]]]
    BY DEF CutStart
  <2> QED
    BY <1>1, <2>1, <2>2
<1> HIDE DEF y
<1>7. \A a \in Usize : a \in Covered(Other) => a \in Covered(y) \/ InRange(a)
  BY <1>1, <1>2, <1>5 DEF Covered, InRange, Usize
<1>8. ~ overlaps(work.range, y) /\ y.start <= y.end /\ Other.start <= y.start /\ y.end <= Other.end
  BY <1>1, <1>2, <1>3, <1>5 DEF overlaps
<1> QED
  BY <1>1, <1>5, <1>6, <1>7, <1>8, ShrunkEntry

\* The range covers the end of an entry.
LEMMA CutEndInv ==
    ASSUME NEW C, SetInv(C), CutEnd
    PROVE  SetInv(C)'
<1> DEFINE y == Range_new(Other.start, saturating_sub_1(work.range.start))
<1>1. /\ SetTyped /\ Turn("cut") /\ overlaps(work.range, Other) /\ Continue
      /\ work.range.start > Other.start /\ work.range.end >= Other.end
      /\ work.i \in Slots
      /\ work.range \in RangeType
      /\ Other = rs.ranges[work.i] /\ Other \in RangeType
  BY CutTurn DEF CutEnd, CutsPart
<1>2. /\ Other.start \in Nat /\ Other.end \in Nat /\ Other.start \in Usize
      /\ work.range.start \in Nat /\ work.range.end \in Nat
      /\ work.range.start \in Usize
  BY <1>1, RangeParts, RangeSetAssumption DEF Usize
<1>3. saturating_sub_1(work.range.start) = work.range.start - 1
      /\ saturating_sub_1(work.range.start) \in Usize
  BY <1>1, <1>2, Saturating
<1>4. y \in RangeType /\ y.start = Other.start /\ y.end = work.range.start - 1
  BY <1>2, <1>3, RangeTyped
<1>5. rs' = [rs EXCEPT !.ranges = [rs.ranges EXCEPT ![work.i] = y]]
  <2>1. [Other EXCEPT !.end = saturating_sub_1(work.range.start)] = y
    BY <1>1 DEF Range_new, RangeType
  <2>2. rs' = [rs EXCEPT !.ranges = [rs.ranges EXCEPT ![work.i] =
                  [rs.ranges[work.i] EXCEPT !.end = saturating_sub_1(work.range.start)]]]
    BY DEF CutEnd
  <2> QED
    BY <1>1, <2>1, <2>2
<1> HIDE DEF y
<1>6. \A a \in Usize : a \in Covered(Other) => a \in Covered(y) \/ InRange(a)
  BY <1>1, <1>2, <1>4 DEF Covered, InRange, Usize
<1>7. ~ overlaps(work.range, y) /\ y.start <= y.end /\ Other.start <= y.start /\ y.end <= Other.end
  BY <1>1, <1>2, <1>4 DEF overlaps
<1> QED
  BY <1>1, <1>4, <1>5, <1>6, <1>7, ShrunkEntry
\* The array after a split: the lower part in the slot of the entry, the upper
\* part, one address of the range too long at its start, behind the entries.
LEMMA SplitSlots ==
    ASSUME NEW C, SetInv(C), CutMiddle, rs.idx # RANGE_COUNT
    PROVE  /\ rs' \in SetType /\ rs'.idx = rs.idx + 1
           /\ rs.idx \in Slots
           /\ \A j \in Slots : j # work.i /\ j # rs.idx => rs'.ranges[j] = rs.ranges[j]
           /\ rs'.ranges[work.i] = Range_new(Other.start, work.range.start - 1)
           /\ rs'.ranges[rs.idx] = Range_new(work.range.start + 1, Other.end)
           /\ work.range.start - 1 \in Usize /\ work.range.start + 1 \in Usize
           /\ Other.start \in Usize /\ Other.end \in Usize
           /\ work.range.start \in Usize /\ work.range.end \in Usize
           /\ work.range.start > Other.start /\ work.range.end < Other.end
           /\ work.range.start <= work.range.end
<1>1. /\ SetTyped /\ Turn("cut")
      /\ work.range.start > Other.start /\ work.range.end < Other.end
      /\ work.i \in Slots /\ work.i \in 0 .. rs.idx - 1
      /\ work.range \in RangeType /\ work.range.start <= work.range.end
      /\ Other = rs.ranges[work.i] /\ Other \in RangeType
  BY CutTurn DEF CutMiddle, CutsPart
<1>2. /\ Other.start \in Nat /\ Other.end \in Nat /\ Other.end <= UsizeMax
      /\ Other.end \in Usize /\ Other.start \in Usize
      /\ work.range.start \in Nat /\ work.range.end \in Nat
      /\ work.range.start \in Usize /\ work.range.end \in Usize
  BY <1>1, RangeParts, RangeSetAssumption DEF Usize
<1>3. /\ saturating_add_1(work.range.start) = work.range.start + 1
      /\ saturating_sub_1(work.range.start) = work.range.start - 1
      /\ work.range.start + 1 \in Usize /\ work.range.start - 1 \in Usize
  <2>1. work.range.start > 0 /\ work.range.start < UsizeMax
    BY <1>1, <1>2, RangeSetAssumption
  <2> QED
    BY <1>2, <2>1, Saturating
<1>4. rs.idx \in Slots /\ rs.idx # work.i /\ rs.idx + 1 \in 0 .. RANGE_COUNT
  BY <1>1, SetParts, RangeSetAssumption DEF Slots
<1> DEFINE up == Range_new(work.range.start + 1, Other.end)
           low == Range_new(Other.start, work.range.start - 1)
           mid == [rs.ranges EXCEPT ![rs.idx] = up]
<1>5. up \in RangeType /\ low \in RangeType
  BY <1>2, <1>3, RangeTyped
<1>6. rs' = [ranges |-> SplitUp(rs.ranges), idx |-> rs.idx + 1]
  BY DEF CutMiddle
<1>7. SplitUp(rs.ranges) = [mid EXCEPT ![work.i] = low]
  <2>1. mid[work.i] = Other
    BY <1>1, <1>4, SetParts
  <2>2. [Other EXCEPT !.end = work.range.start - 1] = low
    BY <1>1 DEF Range_new, RangeType
  <2>3. SplitUp(rs.ranges) = [mid EXCEPT ![work.i] = [mid[work.i] EXCEPT !.end = work.range.start - 1]]
    BY <1>3 DEF SplitUp
  <2> HIDE DEF mid, low
  <2> QED
    BY <2>1, <2>2, <2>3
<1> HIDE DEF up, low
<1>8. /\ [mid EXCEPT ![work.i] = low] \in [Slots -> RangeType]
      /\ [mid EXCEPT ![work.i] = low][work.i] = low
      /\ [mid EXCEPT ![work.i] = low][rs.idx] = up
      /\ \A j \in Slots : j # work.i /\ j # rs.idx
            => [mid EXCEPT ![work.i] = low][j] = rs.ranges[j]
  BY <1>1, <1>4, <1>5, SetParts
<1>9. /\ rs'.ranges = [mid EXCEPT ![work.i] = low] /\ rs'.idx = rs.idx + 1
      /\ rs' \in SetType
  <2> HIDE DEF mid
  <2> QED
    BY <1>4, <1>6, <1>7, <1>8 DEF SetType
<1> HIDE DEF mid
<1> QED
  BY <1>1, <1>2, <1>3, <1>4, <1>8, <1>9 DEF up, low

\* The range is in the middle of an entry.
LEMMA CutMiddleInv ==
    ASSUME NEW C, SetInv(C), CutMiddle, rs.idx # RANGE_COUNT
    PROVE  SetInv(C)'
<1>1. /\ SetTyped /\ work.op = "cut" /\ work.i < work.bound
      /\ Separated /\ Content(C)
      /\ work.i \in 0 .. rs.idx - 1 /\ work.i \in Slots
      /\ rs.idx \in Nat
      /\ \A j \in 0 .. rs.idx - 1 : j \in Slots /\ rs.ranges[j] \in RangeType
      /\ work.range \in RangeType
      /\ Other = rs.ranges[work.i]
      /\ overlaps(work.range, Other)
  BY CutTurn DEF CutMiddle, CutsPart
<1> DEFINE rS == work.range.start
           rE == work.range.end
           oS == Other.start
           oE == Other.end
<1>2. /\ rs' \in SetType /\ rs'.idx = rs.idx + 1 /\ rs.idx \in Slots
      /\ \A j \in 0 .. rs.idx - 1 : j # work.i => rs'.ranges[j] = rs.ranges[j]
      /\ rs'.ranges[work.i].start = oS /\ rs'.ranges[work.i].end = rS - 1
      /\ rs'.ranges[rs.idx].start = rS + 1 /\ rs'.ranges[rs.idx].end = oE
      /\ rS > oS /\ rE < oE /\ rS <= rE
      /\ rS \in Nat /\ rE \in Nat /\ oS \in Nat /\ oE \in Nat
  BY <1>1, SplitSlots, RangeTyped DEF Usize
<1>3. \A j \in 0 .. rs.idx - 1 : rs.ranges[j].start \in Nat /\ rs.ranges[j].end \in Nat
  BY <1>1, RangeParts
<1>4. \A j \in 0 .. rs.idx - 1 : j # work.i => Gap(rs.ranges[j], Other)
  BY <1>1 DEF Separated
<1>5. \A j \in 0 .. (rs.idx + 1) - 1 : j \in 0 .. rs.idx - 1 \/ j = rs.idx
  BY <1>1
<1>6. work.callers = <<>>
  BY <1>1, <1>2 DEF SetInv, CutNesting
<1>7. /\ work' \in WorkType /\ work'.op = "cut" /\ work'.range = work.range
      /\ work'.i = 0 /\ work'.bound = rs.idx + 1
      /\ work'.callers = <<[i |-> work.i + 1, bound |-> work.bound]>>
  <2>1. work' = Recurse(work, rs.idx + 1) /\ work \in WorkType
    BY <1>1 DEF CutMiddle, SetTyped
  <2>2. rs.idx + 1 \in 0 .. RANGE_COUNT
    BY <1>2 DEF SetType
  <2> DEFINE f == [i |-> work.i + 1, bound |-> work.bound]
  <2>3. /\ work' \in WorkType /\ work'.op = "cut" /\ work'.range = work.range
        /\ work'.i = 0 /\ work'.bound = rs.idx + 1
        /\ work'.callers = <<f>> \o work.callers
    BY <1>1, <2>1, <2>2, RecurseFields
  <2> HIDE DEF f
  <2>4. <<f>> \o work.callers = <<f>>
    BY <1>6
  <2> QED
    BY <2>3, <2>4 DEF f
<1>8. SetTyped'
  BY <1>1, <1>2, <1>7 DEF SetTyped
<1>9. Separated'
  <2> SUFFICES ASSUME NEW j \in 0 .. (rs.idx + 1) - 1, NEW k \in 0 .. (rs.idx + 1) - 1
               PROVE  /\ rs'.ranges[j].start <= rs'.ranges[j].end
                      /\ j # k => Gap(rs'.ranges[j], rs'.ranges[k])
    BY <1>2 DEF Separated
  <2> DEFINE old(n) == n # work.i /\ n # rs.idx
  <2>1. \A n \in 0 .. (rs.idx + 1) - 1 : old(n) =>
            /\ n \in 0 .. rs.idx - 1
            /\ rs'.ranges[n] = rs.ranges[n]
            /\ Gap(rs.ranges[n], Other)
            /\ rs.ranges[n].start <= rs.ranges[n].end
            /\ rs.ranges[n].start \in Nat /\ rs.ranges[n].end \in Nat
    BY <1>1, <1>2, <1>3, <1>4, <1>5 DEF Separated
  <2>2. rs'.ranges[j].start <= rs'.ranges[j].end
    BY <1>2, <2>1
  <2>3. ASSUME j # k PROVE Gap(rs'.ranges[j], rs'.ranges[k])
    <3>1. CASE old(j) /\ old(k)
      BY <1>1, <2>1, <2>3, <3>1 DEF Separated
    <3>2. CASE old(j) /\ k = work.i
      BY <1>2, <2>1, <3>2 DEF Gap
    <3>3. CASE old(j) /\ k = rs.idx
      BY <1>2, <2>1, <3>3 DEF Gap
    <3>4. CASE j = work.i /\ old(k)
      BY <1>2, <2>1, <3>4 DEF Gap
    <3>5. CASE j = rs.idx /\ old(k)
      BY <1>2, <2>1, <3>5 DEF Gap
    <3>6. CASE j = work.i /\ k = rs.idx
      BY <1>2, <3>6 DEF Gap
    <3>7. CASE j = rs.idx /\ k = work.i
      BY <1>2, <3>7 DEF Gap
    <3> QED
      BY <2>3, <3>1, <3>2, <3>3, <3>4, <3>5, <3>6, <3>7
  <2> QED
    BY <2>2, <2>3
<1>10. Content(C)'
  <2> SUFFICES ASSUME NEW a \in Usize
               PROVE  (InEntry(a) /\ ~ InRange(a))' <=> (InEntry(a) /\ ~ InRange(a))
    BY <1>1, <1>7 DEF Content
  <2>1. InRange(a)' <=> InRange(a)
    BY <1>7 DEF InRange
  <2>2. /\ a \in Covered(rs'.ranges[work.i]) => a \in Covered(Other)
        /\ a \in Covered(rs'.ranges[rs.idx]) => a \in Covered(Other)
        /\ a \in Covered(Other) => \/ a \in Covered(rs'.ranges[work.i])
                                   \/ a \in Covered(rs'.ranges[rs.idx])
                                   \/ InRange(a)
    BY <1>2 DEF Covered, InRange, Usize
  <2>3. InEntry(a)' <=> \E j \in 0 .. (rs.idx + 1) - 1 : a \in Covered(rs'.ranges[j])
    BY <1>2 DEF InEntry
  <2>4. InEntry(a)' => InEntry(a)
    BY <1>1, <1>2, <1>5, <2>2, <2>3 DEF InEntry
  <2>5. InEntry(a) /\ ~ InRange(a) => InEntry(a)'
    <3>1. 0 .. rs.idx - 1 \subseteq 0 .. (rs.idx + 1) - 1 /\ rs.idx \in 0 .. (rs.idx + 1) - 1
      BY <1>1
    <3> QED
      BY <1>1, <1>2, <2>2, <2>3, <3>1 DEF InEntry
  <2> QED
    BY <2>1, <2>4, <2>5
<1>11. CutProgress' /\ MergeProgress'
  BY <1>2, <1>7 DEF CutProgress, MergeProgress
<1>12. CutNesting'
  <2>1. work'.bound <= rs'.idx
    BY <1>1, <1>2, <1>7
  <2>2. \A n \in DOMAIN work'.callers : work'.callers[n].bound <= rs'.idx
    <3>1. work.bound \in Nat /\ work.bound <= rs.idx
      BY <1>1, SetParts DEF SetInv, CutNesting
    <3>2. \A n \in DOMAIN work'.callers :
              work'.callers[n] = [i |-> work.i + 1, bound |-> work.bound]
      BY <1>7
    <3> QED
      BY <1>1, <1>2, <3>1, <3>2
  <2>3. ASSUME NEW j \in 0 .. rs'.idx - 1, overlaps(work'.range, rs'.ranges[j])
        PROVE  rs'.ranges[j].end > work'.range.end /\ rs'.ranges[j].start >= work'.range.start
    <3>1. CASE j = rs.idx
      BY <1>2, <1>7, <3>1
    <3>2. CASE j = work.i
      BY <1>2, <1>7, <2>3, <3>2 DEF overlaps
    <3>3. CASE j # work.i /\ j # rs.idx
      <4>1. j \in 0 .. rs.idx - 1 /\ rs'.ranges[j] = rs.ranges[j]
        BY <1>2, <1>5, <3>3
      <4> QED
        BY <1>1, <1>2, <1>3, <1>4, <1>7, <2>3, <3>3, <4>1 DEF overlaps, Gap, Separated
    <3> QED
      BY <3>1, <3>2, <3>3
  <2> QED
    BY <2>1, <2>2, <2>3 DEF CutNesting
<1> QED
  BY <1>8, <1>9, <1>10, <1>11, <1>12 DEF SetInv

-----------------------------------------------------------------------------
(* All steps, and the calls that start them *)

\* A step of a running call keeps the invariant: what the call will have made
\* of the set when it returns does not change on the way.
LEMMA RunSetInv ==
    ASSUME NEW C, SetInv(C), RunSet
    PROVE  SetInv(C)'
<1>1. CASE MergeSkip
  BY <1>1, MergeSkipInv
<1>2. CASE MergeBlock
  <2>1. CASE work.i < rs.idx
    BY <1>2, <2>1, MergeBlockInv
  <2>2. CASE ~ work.i < rs.idx
    <3>1. Panic
      BY <1>2, <2>2, SetParts DEF MergeBlock, RemoveSlot, SetInv
    <3> QED
      BY <3>1, PanicInv
  <2> QED
    BY <2>1, <2>2
<1>3. CASE MergeReturns
  BY <1>3, MergeReturnsInv
<1>4. CASE InsertReturns
  <2>1. CASE rs.idx = RANGE_COUNT
    BY <1>4, <2>1, PanicInv DEF InsertReturns
  <2> QED
    BY <1>4, <2>1, InsertReturnsInv
<1>5. CASE CutSkip
  BY <1>5, CutSkipInv
<1>6. CASE CutRemove
  BY <1>6, CutRemoveInv
<1>7. CASE CutStart
  BY <1>7, CutStartInv
<1>8. CASE CutEnd
  BY <1>8, CutEndInv
<1>9. CASE CutMiddle
  <2>1. CASE rs.idx = RANGE_COUNT
    BY <1>9, <2>1, PanicInv DEF CutMiddle
  <2> QED
    BY <1>9, <2>1, CutMiddleInv
<1>10. CASE CutReturns
  BY <1>10, CutReturnsInv
<1>11. CASE RemoveReturns
  BY <1>11, RemoveReturnsInv
<1> QED
  BY <1>1, <1>2, <1>3, <1>4, <1>5, <1>6, <1>7, <1>8, <1>9, <1>10, <1>11 DEF RunSet

\* The call record of a started call.
LEMMA StartFields ==
    ASSUME SetTyped, NEW op \in {"merge", "cut"}, NEW r \in RangeType, StartCall(op, r)
    PROVE  /\ SetTyped' /\ rs' = rs /\ work.op = "idle"
           /\ work'.op = op /\ work'.range = r
           /\ work'.i = 0 /\ work'.bound = rs.idx /\ work'.callers = <<>>
<1>1. rs' = rs /\ work.op = "idle" /\ r.start <= r.end
      /\ work' = Enter([NoWork EXCEPT !.op = op, !.range = r], rs.idx)
  BY DEF StartCall, SetIdle
<1>2. 0 \in 0 .. RANGE_COUNT /\ rs.idx \in 0 .. RANGE_COUNT
  BY SetParts, RangeSetAssumption
<1> DEFINE w == [NoWork EXCEPT !.op = op, !.range = r]
<1>3. w \in WorkType /\ w.op = op /\ w.range = r /\ w.callers = <<>>
  BY NoWorkFields DEF WorkType
<1> HIDE DEF w
<1>4. work' = [w EXCEPT !.i = 0, !.bound = rs.idx]
  BY <1>1 DEF Enter, w
<1>5. /\ work' \in WorkType /\ work'.op = op /\ work'.range = r
      /\ work'.i = 0 /\ work'.bound = rs.idx /\ work'.callers = <<>>
  BY <1>2, <1>3, <1>4 DEF WorkType
<1> QED
  BY <1>1, <1>5 DEF SetTyped

\* insert adds the addresses of its range.
LEMMA StartInsertInv ==
    ASSUME NEW C, SetInv(C), NEW r \in RangeType, StartInsert(r)
    PROVE  SetInv(C \cup Covered(r))'
<1>1. /\ SetTyped' /\ rs' = rs /\ work.op = "idle"
      /\ work'.op = "merge" /\ work'.range = r
      /\ work'.i = 0 /\ work'.bound = rs.idx /\ work'.callers = <<>>
  BY StartFields DEF SetInv, StartInsert
<1>2. Separated /\ Content(C)
  BY <1>1 DEF SetInv, Panicked
<1>3. Separated' /\ MergeProgress' /\ CutProgress' /\ CutNesting'
  BY <1>1, <1>2 DEF Separated, MergeProgress, CutProgress, CutNesting
<1>4. Content(C \cup Covered(r))'
  BY <1>1, <1>2 DEF Content, InEntry, InRange
<1> QED
  BY <1>1, <1>3, <1>4 DEF SetInv

\* remove_range takes them away.
LEMMA StartRemoveInv ==
    ASSUME NEW C, SetInv(C), NEW r \in RangeType, StartRemove(r)
    PROVE  SetInv(C \ Covered(r))'
<1>1. /\ SetTyped' /\ rs' = rs /\ work.op = "idle"
      /\ work'.op = "cut" /\ work'.range = r
      /\ work'.i = 0 /\ work'.bound = rs.idx /\ work'.callers = <<>>
  BY StartFields DEF SetInv, StartRemove
<1>2. Separated /\ Content(C) /\ rs.idx \in Nat
  BY <1>1, SetParts DEF SetInv, Panicked
<1>3. Separated' /\ MergeProgress' /\ CutProgress'
  BY <1>1, <1>2 DEF Separated, MergeProgress, CutProgress
<1>4. CutNesting'
  BY <1>1, <1>2 DEF CutNesting
<1>5. Content(C \ Covered(r))'
  BY <1>1, <1>2 DEF Content, InEntry, InRange
<1> QED
  BY <1>1, <1>3, <1>4, <1>5 DEF SetInv
\* remove takes away the addresses of one entry, which are in no other.
LEMMA RemoveAtInv ==
    ASSUME NEW C, SetInv(C), NEW k \in Slots, RemoveAt(k), NEW x, x = rs.ranges[k]
    PROVE  SetInv(C \ Covered(x))'
<1>1. /\ SetTyped /\ work.op = "idle" /\ Separated /\ Content(C)
      /\ rs' = remove(rs, k) /\ work' = work
      /\ k \in 0 .. rs.idx - 1
  BY SetParts DEF SetInv, RemoveAt, SetIdle, Panicked, Slots
<1>2. /\ rs' \in SetType /\ rs'.idx = rs.idx - 1 /\ Separated'
      /\ \A j \in 0 .. rs'.idx - 1 : \E h \in 0 .. rs.idx - 1 :
             h # k /\ rs'.ranges[j] = rs.ranges[h]
      /\ \A a \in Usize : InEntry(a) <=> InEntry(a)' \/ a \in Covered(x)
  BY <1>1, RemovedEntries
<1>3. ASSUME NEW a \in Usize, InEntry(a)' PROVE a \notin Covered(x)
  <2>1. PICK j \in 0 .. rs'.idx - 1 : a \in Covered(rs'.ranges[j])
    BY <1>3 DEF InEntry
  <2>2. PICK h \in 0 .. rs.idx - 1 : h # k /\ rs'.ranges[j] = rs.ranges[h]
    BY <1>2
  <2>3. Gap(rs.ranges[h], x)
    BY <1>1, <2>2 DEF Separated
  <2>4. rs.ranges[h] \in RangeType /\ x \in RangeType
    BY <1>1, SetParts, RangeSetAssumption DEF Slots
  <2>5. /\ rs.ranges[h].start \in Nat /\ rs.ranges[h].end \in Nat
        /\ x.start \in Nat /\ x.end \in Nat
    BY <2>4, RangeParts
  <2> QED
    BY <2>1, <2>2, <2>3, <2>5 DEF Covered, Gap, Usize
<1>4. Content(C \ Covered(x))'
  BY <1>1, <1>2, <1>3 DEF Content
<1>5. SetTyped' /\ MergeProgress' /\ CutProgress' /\ CutNesting'
  BY <1>1, <1>2 DEF SetTyped, MergeProgress, CutProgress, CutNesting
<1> QED
  BY <1>2, <1>4, <1>5 DEF SetInv

\* clear leaves nothing.
LEMMA ClearInv ==
    ASSUME NEW C, SetInv(C), Clear
    PROVE  SetInv({})'
<1>1. SetTyped /\ work.op = "idle" /\ rs' = [rs EXCEPT !.idx = 0] /\ work' = work
  BY DEF SetInv, Clear, SetIdle
<1>2. rs' \in SetType /\ rs'.idx = 0
  BY <1>1, RangeSetAssumption DEF SetTyped, SetType
<1>3. SetTyped' /\ MergeProgress' /\ CutProgress' /\ CutNesting'
  BY <1>1, <1>2 DEF SetTyped, MergeProgress, CutProgress, CutNesting
<1>4. Separated' /\ Content({})'
  BY <1>1, <1>2 DEF Separated, Content, InEntry
<1> QED
  BY <1>3, <1>4 DEF SetInv

\* The fresh set is empty.
LEMMA SetInitInv ==
    ASSUME SetInit
    PROVE  SetInv({}) /\ Roomy(0)
<1>1. rs.idx = 0 /\ work = NoWork /\ \A j \in Slots : rs.ranges[j] = Range_new(0, 0)
  BY DEF SetInit, EmptySet
<1>2. 0 \in Usize /\ 0 \in 0 .. RANGE_COUNT
  BY RangeSetAssumption DEF Usize
<1>3. Range_new(0, 0) \in RangeType /\ Range_new(0, 0).end = 0
  BY <1>2, RangeTyped
<1>4. rs \in SetType
  BY <1>2, <1>3 DEF SetInit, EmptySet, SetType
<1>5. SetTyped /\ MergeProgress /\ CutProgress /\ CutNesting
  BY <1>1, <1>4, NoWorkFields DEF SetTyped, MergeProgress, CutProgress, CutNesting
<1>6. Separated /\ Content({})
  BY <1>1, NoWorkFields DEF Separated, Content, InEntry
<1>7. Roomy(0)
  BY <1>1, <1>3, NoWorkFields DEF Roomy, Fresh, Bounded, Panicked
<1> QED
  BY <1>5, <1>6, <1>7 DEF SetInv

-----------------------------------------------------------------------------
(* The room that is left *)

\* remove pushes the zeros down and keeps the number of writes.
LEMMA RemovedFresh ==
    ASSUME SetTyped, NEW k \in 0 .. rs.idx - 1, rs' = remove(rs, k), NEW n \in Nat, Fresh(n)
    PROVE  Fresh(n)' /\ rs'.idx = rs.idx - 1
<1>1. rs.idx \in Nat /\ rs.idx <= RANGE_COUNT /\ k \in Nat /\ RANGE_COUNT \in Nat
  BY SetParts, RangeSetAssumption
<1>2. /\ rs'.idx = rs.idx - 1
      /\ \A j \in Slots : rs'.ranges[j] =
            IF j < k THEN rs.ranges[j]
            ELSE IF j = RANGE_COUNT - 1 THEN rs.ranges[k] ELSE rs.ranges[j + 1]
  <2>1. rs \in SetType
    BY DEF SetTyped
  <2> QED
    BY <2>1, RemoveSlots
<1>3. \A j \in 0 .. rs.idx - 2 : rs'.ranges[j].start >= 2
  <2> TAKE j \in 0 .. rs.idx - 2
  <2>1. j \in Slots /\ j # RANGE_COUNT - 1 /\ j \in 0 .. rs.idx - 1 /\ j + 1 \in 0 .. rs.idx - 1
    BY <1>1 DEF Slots
  <2> QED
    BY <1>2, <2>1 DEF Fresh
<1>4. ASSUME NEW j \in Slots, rs.idx - 1 <= j, j < RANGE_COUNT - (n - (rs.idx - 1))
      PROVE  rs'.ranges[j].end = 0
  <2>1. j \in Nat /\ ~ j < k /\ j # RANGE_COUNT - 1 /\ j + 1 \in Slots
        /\ rs.idx <= j + 1 /\ j + 1 < RANGE_COUNT - (n - rs.idx)
    BY <1>1, <1>4 DEF Slots, Fresh
  <2> QED
    BY <1>2, <2>1 DEF Fresh
<1>5. rs'.idx <= n
  BY <1>1, <1>2 DEF Fresh
<1> QED
  BY <1>1, <1>2, <1>3, <1>4, <1>5 DEF Fresh

\* Cutting the start or the end of an entry keeps its slot, and its start does
\* not go down.
LEMMA TrimmedFresh ==
    ASSUME SetTyped, NEW k \in 0 .. rs.idx - 1, NEW n \in Nat, Fresh(n),
           rs'.idx = rs.idx, rs'.ranges[k].start >= 2,
           \A j \in Slots : j # k => rs'.ranges[j] = rs.ranges[j]
    PROVE  Fresh(n)'
<1>1. rs.idx \in Nat /\ \A j \in 0 .. rs.idx - 1 : j \in Slots
  BY SetParts, RangeSetAssumption DEF Slots
<1>2. \A j \in Slots : rs.idx <= j => j # k
  BY <1>1 DEF Slots
<1> QED
  BY <1>1, <1>2 DEF Fresh

\* A step of a running call, when n writes were made before it: it writes at
\* most one range, and panics only in a crowded array.
LEMMA RunSetRoomy ==
    ASSUME NEW C, SetInv(C), RunSet, NEW n \in Nat, Roomy(n),
           NEW m \in Nat, m = n + (IF rs'.idx > rs.idx THEN 1 ELSE 0)
    PROVE  Roomy(m)'
<1>1. /\ SetTyped /\ rs.idx \in 0 .. RANGE_COUNT /\ work.i \in 0 .. RANGE_COUNT
      /\ rs.idx \in Nat /\ work.i \in Nat /\ work.bound \in Nat
      /\ RANGE_COUNT \in Nat /\ RANGE_COUNT > 0
      /\ rs.ranges \in [Slots -> RangeType]
      /\ work.range \in RangeType
      /\ work.callers \in Seq(Frames)
      /\ ~ Panicked
  <2>1. ~ Panicked
    BY DEF RunSet, MergeSkip, MergeBlock, MergeReturns, InsertReturns, CutSkip, CutRemove,
           CutStart, CutEnd, CutMiddle, CutReturns, RemoveReturns, CutsPart, Turn, LoopEnds,
           Panicked
  <2> QED
    BY <2>1, SetParts, RangeSetAssumption DEF SetInv
<1>2. ASSUME Panic, 2 * n > RANGE_COUNT PROVE Roomy(m)'
  <2>1. rs' = rs /\ m = n
    BY <1>1, <1>2 DEF Panic
  <2>2. /\ work'.op = "panicked" /\ work'.bound = work.bound /\ work'.callers = work.callers
    BY <1>1, <1>2 DEF Panic, SetTyped, WorkType
  <2> QED
    BY <1>2, <2>1, <2>2 DEF Roomy, Fresh, Bounded
<1>3. ASSUME rs' = rs, work'.op = work.op, work'.range = work.range,
             work'.bound <= n,
             \A h \in DOMAIN work'.callers : work'.callers[h].bound <= n
      PROVE  Roomy(m)'
  <2>1. m = n
    BY <1>1, <1>3
  <2> QED
    BY <1>1, <1>3, <2>1 DEF Roomy, Fresh, Bounded, Panicked
<1>4. ASSUME Continue, rs' = rs, work.i < work.bound PROVE Roomy(m)'
  BY <1>1, <1>3, <1>4, ContinueFields DEF Roomy, Bounded
<1>5. ASSUME ReturnToCaller PROVE Roomy(m)'
  <2>1. /\ work'.op = work.op /\ work'.range = work.range /\ rs' = rs
        /\ work'.bound = work.callers[1].bound
        /\ 1 \in DOMAIN work.callers
        /\ \A h \in DOMAIN work'.callers :
              h + 1 \in DOMAIN work.callers /\ work'.callers[h] = work.callers[h + 1]
    BY <1>1, <1>5, ReturnFields
  <2>2. \A h \in DOMAIN work.callers : work.callers[h].bound <= n
    BY DEF Roomy, Bounded
  <2> QED
    BY <1>3, <2>1, <2>2
<1>6. CASE MergeSkip
  BY <1>4, <1>6 DEF MergeSkip, Turn
<1>7. CASE MergeReturns
  BY <1>5, <1>7 DEF MergeReturns
<1>8. CASE CutSkip
  BY <1>4, <1>8 DEF CutSkip, Turn
<1>9. CASE CutReturns
  BY <1>5, <1>9 DEF CutReturns
<1>10. CASE MergeBlock
  <2>1. /\ work.op = "merge" /\ work.i < work.bound /\ touches(work.range, Other)
        /\ work.i \in Slots /\ Other = rs.ranges[work.i] /\ Other \in RangeType
        /\ work.range.start >= 2 /\ Fresh(n) /\ Bounded(n)
    <3>1. work.op = "merge" /\ work.i < work.bound /\ touches(work.range, Other)
          /\ Other = rs.ranges[work.i]
      BY <1>10 DEF MergeBlock, Turn, Other
    <3>2. work.i \in Slots
      BY <1>1, <3>1, SetParts DEF Slots
    <3> QED
      BY <1>1, <3>1, <3>2 DEF Roomy
  <2>2. CASE work.i >= rs.idx
    <3>1. Panic
      BY <1>10, <2>2 DEF MergeBlock, RemoveSlot
    <3>2. Other.end # 0
      <4>1. SUFFICES ASSUME Other.end = 0 PROVE FALSE
        OBVIOUS
      <4>2. 0 \in Usize /\ saturating_add_1(0) <= 0 + 1 /\ saturating_add_1(0) \in Int
        BY RangeSetAssumption, Saturating DEF Usize
      <4>3. work.range.start \in Nat
        BY <1>1, RangeParts
      <4> QED
        BY <2>1, <4>1, <4>2, <4>3 DEF touches
    <3>3. ~ work.i < RANGE_COUNT - (n - rs.idx)
      BY <2>1, <2>2, <3>2 DEF Fresh
    <3>4. 2 * n > RANGE_COUNT
      BY <1>1, <2>1, <3>3 DEF Bounded
    <3> QED
      BY <1>2, <3>1, <3>4
  <2>3. CASE work.i < rs.idx
    <3> DEFINE r == Collapsed(work.range, Other)
               w == [work EXCEPT !.range = r]
    <3>1. rs' = remove(rs, work.i) /\ work' = Recurse(w, rs.idx - 1)
      BY <1>1, <1>10, <2>3 DEF MergeBlock, RemoveSlot
    <3>2. work.i \in 0 .. rs.idx - 1
      BY <1>1, <2>3
    <3>3. Fresh(n)' /\ rs'.idx = rs.idx - 1
      BY <1>1, <2>1, <3>1, <3>2, RemovedFresh
    <3>4. m = n
      BY <1>1, <3>3
    <3>5. r \in RangeType /\ r.start >= 2
      <4>1. Other.start >= 2 /\ Other.start <= Other.end /\ ~ Gap(work.range, Other)
            /\ work.range.start <= work.range.end
        BY <1>1, <2>1, <3>2, TouchesExact DEF Fresh, SetInv, Separated, SetTyped
      <4>2. r \in RangeType
        BY <1>1, <2>1, <4>1, CollapsedExact
      <4>3. r.start = work.range.start \/ r.start = Other.start
        BY DEF Collapsed, Range_new, Lesser
      <4> QED
        BY <2>1, <4>1, <4>2, <4>3
    <3> HIDE DEF r
    <3>6. w \in WorkType /\ w.op = "merge" /\ w.range = r
          /\ w.i = work.i /\ w.bound = work.bound /\ w.callers = work.callers
      BY <1>1, <2>1, <3>5 DEF SetTyped, WorkType
    <3> HIDE DEF w
    <3>7. rs.idx - 1 \in 0 .. RANGE_COUNT
      BY <1>1, <3>2
    <3>8. /\ work'.op = "merge" /\ work'.range = r /\ work'.bound = rs.idx - 1
          /\ work'.callers = <<[i |-> work.i + 1, bound |-> work.bound]>> \o work.callers
      BY <2>1, <3>1, <3>6, <3>7, RecurseFields, SMTT(30)
    <3>9. Bounded(n)'
      <4> DEFINE f == [i |-> work.i + 1, bound |-> work.bound]
      <4>1. f \in Frames /\ f.bound <= n
        BY <1>1, <2>1, SetParts DEF Frames, Bounded
      <4> HIDE DEF f
      <4>2. work'.callers = <<f>> \o work.callers
        BY <3>8 DEF f
      <4>3. \A h \in DOMAIN work.callers : work.callers[h].bound <= n
        BY <2>1 DEF Bounded
      <4>4. \A h \in DOMAIN work'.callers : work'.callers[h].bound <= n
        BY <1>1, <4>1, <4>2, <4>3, PushedBounds
      <4>5. work'.bound <= n
        BY <1>1, <2>1, <3>8 DEF Fresh
      <4> QED
        BY <4>4, <4>5 DEF Bounded
    <3> QED
      BY <3>3, <3>4, <3>5, <3>8, <3>9 DEF Roomy, Panicked
  <2> QED
    BY <1>1, <2>2, <2>3
<1>11. CASE InsertReturns
  <2>1. CASE rs.idx = RANGE_COUNT
    BY <1>1, <1>2, <1>11, <2>1 DEF InsertReturns, Roomy, Fresh
  <2>2. CASE rs.idx # RANGE_COUNT
    <3>1. /\ rs' = [rs EXCEPT !.ranges[rs.idx] = work.range, !.idx = rs.idx + 1]
          /\ work' = NoWork /\ work.op = "merge"
      BY <1>11, <2>2 DEF InsertReturns, LoopEnds
    <3>2. rs.idx \in Slots
      BY <1>1, <2>2 DEF Slots
    <3>3. /\ rs'.idx = rs.idx + 1
          /\ \A j \in Slots : rs'.ranges[j] = IF j = rs.idx THEN work.range ELSE rs.ranges[j]
      BY <1>1, <3>1, <3>2 DEF SetTyped, SetType
    <3>4. m = n + 1
      BY <1>1, <3>3
    <3>5. Fresh(n + 1)'
      <4>1. rs.idx <= n /\ work.range.start >= 2
        BY <3>1 DEF Roomy, Fresh
      <4>2. \A j \in 0 .. (rs.idx + 1) - 1 : j \in Slots /\ (j = rs.idx \/ j \in 0 .. rs.idx - 1)
        BY <1>1, <3>2 DEF Slots
      <4>3. \A j \in 0 .. (rs.idx + 1) - 1 : rs'.ranges[j].start >= 2
        BY <3>3, <4>1, <4>2 DEF Roomy, Fresh
      <4>4. \A j \in Slots : rs.idx + 1 <= j /\ j < RANGE_COUNT - ((n + 1) - (rs.idx + 1))
                => j # rs.idx /\ rs.idx <= j /\ j < RANGE_COUNT - (n - rs.idx)
        BY <1>1 DEF Slots
      <4>5. \A j \in Slots : rs.idx + 1 <= j /\ j < RANGE_COUNT - ((n + 1) - (rs.idx + 1))
                => rs'.ranges[j].end = 0
        BY <3>3, <4>4 DEF Roomy, Fresh
      <4>6. rs.idx + 1 <= n + 1
        BY <1>1, <4>1
      <4> QED
        BY <3>3, <4>3, <4>5, <4>6 DEF Fresh
    <3>6. Bounded(n + 1)'
      BY <3>1, NoWorkFields DEF Bounded
    <3> QED
      BY <3>1, <3>4, <3>5, <3>6, NoWorkFields DEF Roomy, Panicked
  <2> QED
    BY <2>1, <2>2
<1>12. CASE RemoveReturns
  <2>1. rs' = rs /\ work' = NoWork /\ m = n
    BY <1>1, <1>12 DEF RemoveReturns
  <2> QED
    BY <2>1, NoWorkFields DEF Roomy, Fresh, Bounded, Panicked
<1>13. CASE CutRemove
  <2>1. /\ work.op = "cut" /\ work.i \in 0 .. rs.idx - 1 /\ work.i < work.bound
    BY <1>13, CutTurn DEF CutRemove
  <2>2. rs' = remove(rs, work.i) /\ work' = Enter(work, rs.idx - 1)
    BY <1>1, <1>13, <2>1 DEF CutRemove, RemoveSlot
  <2>3. Fresh(n)' /\ rs'.idx = rs.idx - 1 /\ m = n
    <3>1. Fresh(n)
      BY DEF Roomy
    <3>2. Fresh(n)' /\ rs'.idx = rs.idx - 1
      BY <1>1, <2>1, <2>2, <3>1, RemovedFresh
    <3> QED
      BY <1>1, <3>2
  <2>4. /\ work'.op = "cut" /\ work'.range = work.range
        /\ work'.bound = rs.idx - 1 /\ work'.callers = work.callers
    BY <1>1, <2>1, <2>2 DEF Enter, SetTyped, WorkType
  <2>5. rs.idx - 1 <= n
    BY <1>1 DEF Roomy, Fresh
  <2> QED
    BY <2>1, <2>3, <2>4, <2>5 DEF Roomy, Bounded, Panicked
<1>14. ASSUME CutStart \/ CutEnd PROVE Roomy(m)'
  <2>1. /\ work.op = "cut" /\ work.i \in 0 .. rs.idx - 1 /\ work.i < work.bound /\ Continue
        /\ work.i \in Slots /\ Other = rs.ranges[work.i] /\ Other \in RangeType
        /\ overlaps(work.range, Other) /\ Other.start >= 2 /\ work.range.start >= 2
        /\ work.range.start <= work.range.end /\ Fresh(n) /\ Bounded(n)
    BY <1>14, CutTurn DEF CutStart, CutEnd, CutsPart, Roomy, Fresh
  <2>2. /\ work'.op = "cut" /\ work'.range = work.range
        /\ work'.bound = work.bound /\ work'.callers = work.callers
    BY <1>1, <2>1, ContinueFields
  <2>3. /\ rs'.idx = rs.idx /\ m = n
        /\ \A j \in Slots : j # work.i => rs'.ranges[j] = rs.ranges[j]
    BY <1>1, <1>14, <2>1, SMTT(30) DEF CutStart, CutEnd, SetTyped, SetType
  <2>4. rs'.ranges[work.i].start >= 2
    <3>1. CASE CutStart
      <4>1. rs'.ranges[work.i].start = saturating_add_1(work.range.end)
        BY <1>1, <2>1, <3>1 DEF CutStart, SetTyped, SetType, RangeType
      <4>2. /\ work.range.start \in Nat /\ work.range.end \in Nat /\ work.range.end \in Usize
            /\ work.range.end <= UsizeMax
        BY <1>1, RangeParts, RangeSetAssumption DEF Usize
      <4>3. saturating_add_1(work.range.end) >= work.range.end
        BY <4>2, RangeSetAssumption DEF saturating_add_1, Lesser
      <4> QED
        BY <2>1, <4>1, <4>2, <4>3, Saturating DEF Usize
    <3>2. CASE CutEnd
      <4>1. rs'.ranges[work.i].start = Other.start
        BY <1>1, <2>1, <3>2 DEF CutEnd, SetTyped, SetType, RangeType
      <4> QED
        BY <2>1, <4>1
    <3> QED
      BY <1>14, <3>1, <3>2
  <2>5. Fresh(n)'
    BY <1>1, <2>1, <2>3, <2>4, TrimmedFresh
  <2> QED
    BY <2>1, <2>2, <2>3, <2>5 DEF Roomy, Bounded, Panicked
<1>15. CASE CutMiddle
  <2>1. CASE rs.idx = RANGE_COUNT
    BY <1>1, <1>2, <1>15, <2>1 DEF CutMiddle, Roomy, Fresh
  <2>2. CASE rs.idx # RANGE_COUNT
    <3>1. /\ work.op = "cut" /\ work.i \in 0 .. rs.idx - 1 /\ work.i < work.bound
          /\ Other = rs.ranges[work.i] /\ work.i \in Slots
      BY <1>15, CutTurn DEF CutMiddle, CutsPart
    <3>2. Other.start >= 2 /\ work.range.start >= 2 /\ rs.idx <= n
      BY <3>1 DEF Roomy, Fresh
    <3>3. /\ rs'.idx = rs.idx + 1 /\ rs.idx \in Slots
          /\ \A j \in Slots : j # work.i /\ j # rs.idx => rs'.ranges[j] = rs.ranges[j]
          /\ rs'.ranges[work.i].start = Other.start
          /\ rs'.ranges[rs.idx].start = work.range.start + 1
          /\ work.range.start \in Nat
      BY <1>15, <2>2, SplitSlots, RangeTyped DEF Usize
    <3>4. m = n + 1
      BY <1>1, <3>3
    <3>5. Fresh(n + 1)'
      <4>1. \A j \in 0 .. (rs.idx + 1) - 1 : j \in Slots /\ (j = rs.idx \/ j \in 0 .. rs.idx - 1)
        BY <1>1, <3>3 DEF Slots
      <4>2. rs'.ranges[rs.idx].start >= 2
        BY <3>2, <3>3
      <4>3. \A j \in 0 .. (rs.idx + 1) - 1 : rs'.ranges[j].start >= 2
        BY <3>2, <3>3, <4>1, <4>2 DEF Roomy, Fresh
      <4>4. \A j \in Slots : rs.idx + 1 <= j /\ j < RANGE_COUNT - ((n + 1) - (rs.idx + 1))
                => j # rs.idx /\ j # work.i /\ rs.idx <= j /\ j < RANGE_COUNT - (n - rs.idx)
        <5>1. PICK x \in Nat, c \in Nat, y \in Nat : x = rs.idx /\ c = RANGE_COUNT /\ y = work.i
          BY <1>1, <3>1, RangeSetAssumption
        <5>2. y < x /\ \A j \in Nat : x + 1 <= j /\ j < c - ((n + 1) - (x + 1))
                => j # x /\ j # y /\ x <= j /\ j < c - (n - x)
          BY <3>1, <5>1
        <5> QED
          BY <5>1, <5>2, RangeSetAssumption DEF Slots
      <4>5. \A j \in Slots : rs.idx + 1 <= j /\ j < RANGE_COUNT - ((n + 1) - (rs.idx + 1))
                => rs'.ranges[j].end = 0
        BY <3>3, <4>4 DEF Roomy, Fresh
      <4>6. rs.idx + 1 <= n + 1
        BY <1>1, <3>2
      <4> QED
        BY <3>3, <4>3, <4>5, <4>6 DEF Fresh
    <3>6. rs.idx + 1 \in 0 .. RANGE_COUNT /\ work \in WorkType
          /\ work' = Recurse(work, rs.idx + 1)
      BY <1>1, <1>15, <2>2 DEF CutMiddle, SetTyped
    <3>7. /\ work'.op = "cut" /\ work'.range = work.range /\ work'.bound = rs.idx + 1
          /\ work'.callers = <<[i |-> work.i + 1, bound |-> work.bound]>> \o work.callers
      BY <3>1, <3>6, RecurseFields
    <3>8. Bounded(n + 1)'
      <4> DEFINE f == [i |-> work.i + 1, bound |-> work.bound]
      <4>1. f \in Frames /\ f.bound <= n + 1
        BY <1>1, <3>1, SetParts DEF Frames, Bounded, Roomy
      <4> HIDE DEF f
      <4>2. work'.callers = <<f>> \o work.callers
        BY <3>7 DEF f
      <4>3. \A h \in DOMAIN work.callers : work.callers[h].bound <= n + 1
        <5>1. \A h \in DOMAIN work.callers : work.callers[h] \in Frames
          BY <1>1
        <5>2. \A h \in DOMAIN work.callers : work.callers[h].bound \in 0 .. RANGE_COUNT
          BY <5>1 DEF Frames
        <5>3. \A h \in DOMAIN work.callers : work.callers[h].bound <= n
          BY DEF Bounded, Roomy
        <5> QED
          BY <5>2, <5>3
      <4>4. \A h \in DOMAIN work'.callers : work'.callers[h].bound <= n + 1
        <5>1. n + 1 \in Nat
          OBVIOUS
        <5> QED
          BY <1>1, <4>1, <4>2, <4>3, <5>1, PushedBounds
      <4>5. work'.bound <= n + 1
        BY <1>1, <3>2, <3>7
      <4> QED
        BY <4>4, <4>5 DEF Bounded
    <3> QED
      BY <3>2, <3>4, <3>5, <3>7, <3>8 DEF Roomy, Panicked
  <2> QED
    BY <2>1, <2>2
<1> QED
  BY <1>6, <1>7, <1>8, <1>9, <1>10, <1>11, <1>12, <1>13, <1>14, <1>15 DEF RunSet
\* Starting a call needs no room.
LEMMA StartRoomy ==
    ASSUME SetTyped, NEW op \in {"merge", "cut"}, NEW r \in RangeType, r.start >= 2,
           StartCall(op, r), NEW n \in Nat, Roomy(n)
    PROVE  Roomy(n)'
  BY StartFields DEF Roomy, Fresh, Bounded, Panicked

\* Neither does remove.
LEMMA RemoveAtRoomy ==
    ASSUME SetTyped, NEW k \in Slots, RemoveAt(k), NEW n \in Nat, Roomy(n)
    PROVE  Roomy(n)'
<1>1. /\ k \in 0 .. rs.idx - 1 /\ rs' = remove(rs, k) /\ work' = work /\ Fresh(n)
  BY SetParts DEF RemoveAt, Slots, Roomy
<1>2. Fresh(n)'
  BY <1>1, RemovedFresh
<1> QED
  BY <1>1, <1>2 DEF Roomy, Bounded, Panicked

-----------------------------------------------------------------------------
(* Theorems *)

\* The inductive invariant of the use of a RangeSet.
UseInv == /\ SetInv(cover)
          /\ writes \in Nat
          /\ cover \subseteq Usize

\* It holds at the start.
LEMMA UseInitInv == UseInit => UseInv
  BY SetInitInv DEF UseInit, UseInv

\* What ranges are made of.
LEMMA RangesTyped == Ranges \subseteq RangeType
  BY UseAssumption DEF Ranges, RangeType, Usize

\* Every call and every step keeps it.
LEMMA UseNextInv == UseInv /\ [UseNext]_useVars => UseInv'
<1> SUFFICES ASSUME UseInv, [UseNext]_useVars PROVE UseInv'
  OBVIOUS
<1>1. PICK C : C = cover
  OBVIOUS
<1>2. SetInv(C) /\ SetTyped
  BY <1>1 DEF UseInv, SetInv
<1>3. ASSUME NEW r \in Ranges, InsertCall(r) PROVE UseInv'
  <2>1. r \in RangeType /\ StartInsert(r) /\ cover' = C \cup Covered(r)
        /\ writes' = writes
    BY <1>1, <1>3, RangesTyped DEF InsertCall
  <2>2. SetInv(C \cup Covered(r))'
    BY <1>2, <2>1, StartInsertInv
  <2>3. Covered(r) \subseteq Usize
    <3>1. /\ r.start \in Nat /\ r.end \in Nat /\ r.end <= UsizeMax
      BY <2>1, RangeParts
    <3> QED
      BY <3>1, RangeSetAssumption DEF Covered, Usize
  <2> QED
    BY <1>1, <2>1, <2>2, <2>3 DEF UseInv
<1>4. ASSUME NEW r \in Ranges, RemoveRangeCall(r) PROVE UseInv'
  <2>1. r \in RangeType /\ StartRemove(r) /\ cover' = C \ Covered(r) /\ writes' = writes
    BY <1>1, <1>4, RangesTyped DEF RemoveRangeCall
  <2>2. SetInv(C \ Covered(r))'
    BY <1>2, <2>1, StartRemoveInv
  <2> QED
    BY <1>1, <2>1, <2>2 DEF UseInv
<1>5. ASSUME NEW k \in Slots, RemoveCall(k) PROVE UseInv'
  <2>1. PICK x : x = rs.ranges[k]
    OBVIOUS
  <2>2. RemoveAt(k) /\ cover' = C \ Covered(x) /\ writes' = writes
    BY <1>1, <1>5, <2>1 DEF RemoveCall
  <2>3. SetInv(C \ Covered(x))'
    BY <1>2, <2>1, <2>2, RemoveAtInv
  <2> QED
    BY <1>1, <2>2, <2>3 DEF UseInv
<1>6. CASE ClearCall
  <2>1. Clear /\ cover' = {} /\ writes' = writes
    BY <1>6 DEF ClearCall
  <2>2. SetInv({})'
    BY <1>2, <2>1, ClearInv
  <2> QED
    BY <2>1, <2>2 DEF UseInv
<1>7. CASE Step
  <2>1. RunSet /\ cover' = C /\ writes' \in Nat
    BY <1>1, <1>7 DEF Step, UseInv
  <2>2. SetInv(C)'
    BY <1>2, <2>1, RunSetInv
  <2> QED
    BY <1>1, <2>1, <2>2 DEF UseInv
<1>8. CASE UNCHANGED useVars
  BY <1>8 DEF useVars, UseInv, SetInv, SetTyped, Panicked, Separated, Content, InEntry, InRange,
              MergeProgress, CutProgress, CutNesting
<1> QED
  BY <1>3, <1>4, <1>5, <1>6, <1>7, <1>8 DEF UseNext

\* The invariant holds throughout.
LEMMA UseInvariant == UseSpec => []UseInv
  BY UseInitInv, UseNextInv, PTL DEF UseSpec
\* Separated holds at every state: whatever was inserted, removed and cut, the
\* entries are proper ranges with a gap between any two of them.
THEOREM SetStaysSeparated == UseSpec => []Separated
<1>1. UseInv => Separated
  BY DEF UseInv, SetInv
<1> QED
  BY <1>1, UseInvariant, PTL

\* ExactCover holds between calls: the merging and cutting recursions lose no
\* address and invent none, for any number of slots and any addresses.
THEOREM SetIsExact == UseSpec => []ExactCover
<1>1. UseInv => ExactCover
  <2> SUFFICES ASSUME UseInv, SetIdle
               PROVE  UNION {Covered(x) : x \in Entries} = cover
    BY DEF ExactCover
  <2>1. SetTyped /\ Content(cover) /\ cover \subseteq Usize
    BY DEF UseInv, SetInv, SetIdle, Panicked
  <2>2. \A a \in Usize : a \in cover <=> InEntry(a)
    BY <2>1 DEF Content, SetIdle
  <2>3. \A a : a \in UNION {Covered(x) : x \in Entries} <=> InEntry(a)
    BY DEF Entries, InEntry
  <2>4. \A a : InEntry(a) => a \in Usize
    <3> SUFFICES ASSUME NEW a, NEW j \in 0 .. rs.idx - 1, a \in Covered(rs.ranges[j])
                 PROVE  a \in Usize
      BY DEF InEntry
    <3>1. j \in Slots
      BY <2>1, SetParts, RangeSetAssumption DEF Slots
    <3>2. /\ rs.ranges[j].start \in Nat /\ rs.ranges[j].end \in Nat
          /\ rs.ranges[j].end <= UsizeMax
      BY <2>1, <3>1, SetParts, RangeParts
    <3> QED
      BY <3>2, RangeSetAssumption DEF Covered, Usize
  <2> QED
    BY <2>1, <2>2, <2>3, <2>4
<1> QED
  BY <1>1, UseInvariant, PTL

\* The room invariant, for addresses that the zeros of a fresh array do not touch.
RoomInv == cleared \in BOOLEAN /\ (~ cleared => Roomy(writes))

\* NoPanicWhileRoomy: when no address is below 2, a set that was never cleared
\* panics only after more ranges were written than half of its slots.
THEOREM RoomySetNeverPanics ==
    ASSUME \A a \in Addresses : a >= 2
    PROVE  UseSpec => []NoPanicWhileRoomy
<1>1. UseInit => RoomInv
  BY SetInitInv DEF UseInit, RoomInv
<1>2. UseInv /\ RoomInv /\ [UseNext]_useVars => RoomInv'
  <2> SUFFICES ASSUME UseInv, RoomInv, [UseNext]_useVars PROVE RoomInv'
    OBVIOUS
  <2>1. SetTyped /\ SetInv(cover) /\ writes \in Nat
    BY DEF UseInv, SetInv
  <2>2. PICK n \in Nat : n = writes
    BY <2>1
  <2>3. ~ cleared => Roomy(n)
    BY <2>2 DEF RoomInv
  <2>4. Ranges \subseteq RangeType /\ \A r \in Ranges : r.start >= 2
    BY RangesTyped DEF Ranges
  <2>5. ASSUME NEW r \in Ranges, InsertCall(r) \/ RemoveRangeCall(r) PROVE RoomInv'
    <3>1. PICK op \in {"merge", "cut"} : StartCall(op, r)
      BY <2>5 DEF InsertCall, RemoveRangeCall, StartInsert, StartRemove
    <3>2. writes' = n /\ cleared' = cleared
      BY <2>2, <2>5 DEF InsertCall, RemoveRangeCall
    <3>3. ~ cleared => Roomy(n)'
      BY <2>1, <2>3, <2>4, <3>1, StartRoomy
    <3> QED
      BY <3>2, <3>3 DEF RoomInv
  <2>6. ASSUME NEW k \in Slots, RemoveCall(k) PROVE RoomInv'
    <3>1. RemoveAt(k) /\ writes' = n /\ cleared' = cleared
      BY <2>2, <2>6 DEF RemoveCall
    <3>2. ~ cleared => Roomy(n)'
      BY <2>1, <2>3, <3>1, RemoveAtRoomy
    <3> QED
      BY <3>1, <3>2 DEF RoomInv
  <2>7. CASE ClearCall
    BY <2>7 DEF ClearCall, RoomInv
  <2>8. CASE Step
    <3>1. RunSet /\ writes' = n + (IF rs'.idx > rs.idx THEN 1 ELSE 0) /\ cleared' = cleared
      BY <2>2, <2>8 DEF Step
    <3>2. PICK m \in Nat : m = n + (IF rs'.idx > rs.idx THEN 1 ELSE 0)
      OBVIOUS
    <3>3. PICK C : C = cover
      OBVIOUS
    <3>4. SetInv(C)
      BY <2>1, <3>3
    <3>5. ~ cleared => Roomy(m)'
      BY <2>3, <3>1, <3>2, <3>4, RunSetRoomy
    <3> QED
      BY <3>1, <3>2, <3>5 DEF RoomInv
  <2>9. CASE UNCHANGED useVars
    BY <2>9 DEF useVars, RoomInv, Roomy, Fresh, Bounded, Panicked
  <2> QED
    BY <2>5, <2>6, <2>7, <2>8, <2>9 DEF UseNext
<1>3. RoomInv => NoPanicWhileRoomy
  BY DEF RoomInv, Roomy, NoPanicWhileRoomy
<1> QED
  BY <1>1, <1>2, <1>3, UseInvariant, PTL DEF UseSpec
=============================================================================
