---------------------------- MODULE RangeSetUse ----------------------------
(***************************************************************************)
(* A RangeSet under any sequence of method calls, compared with the set of *)
(* addresses it stands for.                                                *)
(***************************************************************************)
EXTENDS RangeSet

CONSTANTS Addresses,  \* the addresses that ranges are made of
          MaxWrites   \* bound: ranges written into the array

ASSUME UseAssumption == Addresses \subseteq 0 .. UsizeMax /\ MaxWrites \in Nat

VARIABLES cover,    \* the addresses the set should contain
          writes,   \* how often a range was written into the array
          overlap,  \* the last call was an insert that overlaps an entry
          cleared   \* clear was called

useVars == <<rs, work, cover, writes, overlap, cleared>>

Ranges == [start : Addresses, end : Addresses]

UseInit == /\ SetInit
           /\ cover = {}
           /\ writes = 0
           /\ overlap = FALSE
           /\ cleared = FALSE

InsertCall(r) == /\ writes < MaxWrites
                 /\ StartInsert(r)
                 /\ cover' = cover \cup Covered(r)
                 /\ overlap' = \E x \in Entries : overlaps(x, r)
                 /\ UNCHANGED <<writes, cleared>>

RemoveRangeCall(r) == /\ writes < MaxWrites
                      /\ StartRemove(r)
                      /\ cover' = cover \ Covered(r)
                      /\ overlap' = FALSE
                      /\ UNCHANGED <<writes, cleared>>

RemoveCall(k) == /\ RemoveAt(k)
                 /\ cover' = cover \ Covered(rs.ranges[k])
                 /\ overlap' = FALSE
                 /\ UNCHANGED <<writes, cleared>>

ClearCall == /\ Clear
             /\ cover' = {}
             /\ overlap' = FALSE
             /\ cleared' = TRUE
             /\ UNCHANGED writes

\* The array gains an entry exactly when one is written.
Step == /\ RunSet
        /\ writes' = writes + (IF rs'.idx > rs.idx THEN 1 ELSE 0)
        /\ UNCHANGED <<cover, overlap, cleared>>

UseNext == \/ \E r \in Ranges : InsertCall(r) \/ RemoveRangeCall(r)
           \/ \E k \in Slots : RemoveCall(k)
           \/ ClearCall
           \/ Step

UseSpec == UseInit /\ [][UseNext]_useVars

-----------------------------------------------------------------------------
(* Properties *)

\* Between calls the set holds exactly the addresses that were inserted and
\* not removed since; entries left behind `idx` never come back.
ExactCover ==
    SetIdle => UNION {Covered(x) : x \in Entries} = cover

\* A panic needs a crowded array: as long as at most half of the slots were
\* ever written, every insert and remove_range completes.  (clear, which the
\* kernel never calls, leaves its entries where a later loop meets them.)
NoPanicWhileRoomy == Panicked /\ ~ cleared => 2 * writes > RANGE_COUNT

\* "If the range overlaps with another range inside this set, both ranges will
\* be collapsed into a single range": an insert that needs no further slot
\* completes.
OverlapIsCollapsed == ~ (Panicked /\ overlap)
=============================================================================
