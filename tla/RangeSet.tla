------------------------------ MODULE RangeSet ------------------------------
(***************************************************************************)
(* `RangeSet` of crates/kernel/src/allocator/rangeset.rs.  The array keeps *)
(* entries behind `idx`: zeros from `new`, and removed ranges that         *)
(* rotate_left moved to its end.  insert and remove_range run a recursive  *)
(* loop (merge_blocks, remove_inner); each turn of the loop and each       *)
(* return is one step, with the locals of the running frame and the stack  *)
(* of its callers in `work`.  A loop runs to the bound it read when it     *)
(* started, also when a recursive call removed entries in between.  After  *)
(* a failed unwrap or an index out of the array nothing goes on.           *)
(***************************************************************************)
EXTENDS Integers, Sequences

CONSTANTS RANGE_COUNT,  \* slots of the array
          UsizeMax      \* usize::MAX

ASSUME RangeSetAssumption == RANGE_COUNT \in Nat \ {0} /\ UsizeMax \in Nat

VARIABLES rs,    \* the RangeSet: ranges, idx
          work   \* the running call: op, range, i and bound of its loop, callers

setVars == <<rs, work>>

Slots == 0 .. RANGE_COUNT - 1

Range_new(start, end) == [start |-> start, end |-> end]

Lesser(a, b) == IF a < b THEN a ELSE b
Greater(a, b) == IF a > b THEN a ELSE b

saturating_add_1(x) == Lesser(x + 1, UsizeMax)
saturating_sub_1(x) == Greater(x - 1, 0)

\* RangeSet::new
EmptySet == [ranges |-> [j \in Slots |-> Range_new(0, 0)], idx |-> 0]

NoWork == [op |-> "idle", range |-> Range_new(0, 0), i |-> 0, bound |-> 0, callers |-> <<>>]

SetInit == rs = EmptySet /\ work = NoWork

SetIdle == work.op = "idle"
Panicked == work.op = "panicked"

\* as_slice: the ranges that belong to the set.
Entries == {rs.ranges[j] : j \in 0 .. rs.idx - 1}

overlaps(a, b) == a.start <= b.end /\ b.start <= a.end

contains(a, b) == a.start >= b.start /\ a.end <= b.end

\* Mutant of touches: only overlapping ranges are merged.
touches_overlapping(a, b) == overlaps(a, b)

\* Overlapping or adjacent, for merge_blocks.
touches(a, b) == /\ a.start <= saturating_add_1(b.end)
                 /\ b.start <= saturating_add_1(a.end)

Collapsed(a, b) == Range_new(Lesser(a.start, b.start), Greater(a.end, b.end))

\* self.ranges[idx..].rotate_left(1)
RotateLeft(ranges, k) ==
    [j \in Slots |-> CASE j < k               -> ranges[j]
                       [] j = RANGE_COUNT - 1 -> ranges[k]
                       [] OTHER               -> ranges[j + 1]]

\* remove, of an index below idx.
remove(set, k) == [ranges |-> RotateLeft(set.ranges, k), idx |-> set.idx - 1]

-----------------------------------------------------------------------------
(* Frames and the steps that both recursions share *)

\* Mutant of Enter: the loop runs one slot too far.
EnterPast(w, n) == [w EXCEPT !.i = 0, !.bound = n + 1]

\* for idx in 0..self.idx
Enter(w, n) == [w EXCEPT !.i = 0, !.bound = n]

\* A recursive call; its caller goes on with the next slot.
Recurse(w, n) ==
    Enter([w EXCEPT !.callers = <<[i |-> w.i + 1, bound |-> w.bound]>> \o @], n)

Other == rs.ranges[work.i]

Turn(op) == work.op = op /\ work.i < work.bound

LoopEnds(op) == work.op = op /\ work.i >= work.bound

Continue == work' = [work EXCEPT !.i = @ + 1]

Panic == work' = [work EXCEPT !.op = "panicked"] /\ rs' = rs

\* self.remove(idx).unwrap(), after which the call goes on as w.
RemoveSlot(w) ==
    IF work.i >= rs.idx THEN Panic
                        ELSE rs' = remove(rs, work.i) /\ work' = w

\* A recursive call returns to the frame that made it.
ReturnToCaller ==
    /\ work.callers # <<>>
    /\ work' = [work EXCEPT !.i = Head(work.callers).i,
                            !.bound = Head(work.callers).bound,
                            !.callers = Tail(@)]
    /\ rs' = rs

\* A call with a range: an invalid one is an error, which changes nothing.
StartCall(op, r) ==
    /\ SetIdle
    /\ r.start <= r.end
    /\ work' = Enter([NoWork EXCEPT !.op = op, !.range = r], rs.idx)
    /\ rs' = rs

-----------------------------------------------------------------------------
(* insert: merge_blocks collects in `range` all it touches; then it is added *)

StartInsert(r) == StartCall("merge", r)

MergeSkip ==
    /\ Turn("merge")
    /\ ~ touches(work.range, Other)
    /\ Continue
    /\ rs' = rs

MergeBlock ==
    /\ Turn("merge")
    /\ touches(work.range, Other)
    /\ RemoveSlot(Recurse([work EXCEPT !.range = Collapsed(@, Other)], rs.idx - 1))

MergeReturns == LoopEnds("merge") /\ ReturnToCaller

\* self.ranges[self.idx] = range; self.idx += 1
InsertReturns ==
    /\ LoopEnds("merge")
    /\ work.callers = <<>>
    /\ IF rs.idx = RANGE_COUNT
       THEN Panic
       ELSE /\ rs' = [rs EXCEPT !.ranges[rs.idx] = work.range, !.idx = @ + 1]
            /\ work' = NoWork

-----------------------------------------------------------------------------
(* remove_range: remove_inner cuts `range` out of every entry *)

StartRemove(r) == StartCall("cut", r)

CutSkip ==
    /\ Turn("cut")
    /\ ~ overlaps(work.range, Other)
    /\ Continue
    /\ rs' = rs

\* The entry goes as a whole; remove_inner starts again and then returns, so
\* that the new loop takes the place of this one.
CutRemove ==
    /\ Turn("cut")
    /\ overlaps(work.range, Other)
    /\ contains(Other, work.range)
    /\ RemoveSlot(Enter(work, rs.idx - 1))

\* The range is cut out of an entry that keeps a part below or above it.
CutsPart == /\ Turn("cut")
            /\ overlaps(work.range, Other)
            /\ ~ contains(Other, work.range)

CutStart ==
    /\ CutsPart
    /\ work.range.start <= Other.start
    /\ rs' = [rs EXCEPT !.ranges[work.i].start = saturating_add_1(work.range.end)]
    /\ Continue

CutEnd ==
    /\ CutsPart
    /\ work.range.start > Other.start
    /\ work.range.end >= Other.end
    /\ rs' = [rs EXCEPT !.ranges[work.i].end = saturating_sub_1(work.range.start)]
    /\ Continue

\* The upper part starts one behind the *start* of the range that is cut out;
\* the recursive call that follows trims it to the end of it.
SplitUp(ranges) ==
    [ranges EXCEPT ![rs.idx] = Range_new(saturating_add_1(work.range.start), Other.end),
                   ![work.i].end = saturating_sub_1(work.range.start)]

\* Mutant of CutMiddle: no recursive call.
CutMiddleOnce ==
    /\ CutsPart
    /\ work.range.start > Other.start
    /\ work.range.end < Other.end
    /\ IF rs.idx = RANGE_COUNT
       THEN Panic
       ELSE /\ rs' = [ranges |-> SplitUp(rs.ranges), idx |-> rs.idx + 1]
            /\ Continue

CutMiddle ==
    /\ CutsPart
    /\ work.range.start > Other.start
    /\ work.range.end < Other.end
    /\ IF rs.idx = RANGE_COUNT
       THEN Panic
       ELSE /\ rs' = [ranges |-> SplitUp(rs.ranges), idx |-> rs.idx + 1]
            /\ work' = Recurse(work, rs.idx + 1)

CutReturns == LoopEnds("cut") /\ ReturnToCaller

RemoveReturns ==
    /\ LoopEnds("cut")
    /\ work.callers = <<>>
    /\ work' = NoWork
    /\ rs' = rs

-----------------------------------------------------------------------------
(* The methods without a loop *)

\* remove(idx), called from outside: OutOfBounds is returned, nothing changes.
RemoveAt(k) == /\ SetIdle
               /\ k < rs.idx
               /\ rs' = remove(rs, k)
               /\ work' = work

\* clear only forgets the number of entries.
Clear == /\ SetIdle
         /\ rs' = [rs EXCEPT !.idx = 0]
         /\ work' = work

\* The steps of a running call.
RunSet == \/ MergeSkip \/ MergeBlock \/ MergeReturns \/ InsertReturns
          \/ CutSkip \/ CutRemove \/ CutStart \/ CutEnd \/ CutMiddle
          \/ CutReturns \/ RemoveReturns

-----------------------------------------------------------------------------
(* Properties *)

Covered(r) == r.start .. r.end

\* At least one address lies between the two.
Gap(a, b) == a.end + 1 < b.start \/ b.end + 1 < a.start

\* The entries of the set are proper ranges that neither overlap nor touch,
\* in the middle of a call too: insert merges everything that does before it
\* adds a range, remove_range cuts gaps and never makes neighbours.
Separated ==
    \A j, k \in 0 .. rs.idx - 1 :
        /\ rs.ranges[j].start <= rs.ranges[j].end
        /\ j # k => Gap(rs.ranges[j], rs.ranges[k])
=============================================================================
