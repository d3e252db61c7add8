---------------------------- MODULE RwLockProofs ----------------------------
(***************************************************************************)
(* Proofs about RwLock for every finite set of harts: the atomic word      *)
(* always agrees with the guards that exist, and a writer is alone.        *)
(***************************************************************************)
EXTENDS RwLock, FiniteSetTheorems, TLAPS

\* The harts whose increment is in the word are finitely many.
LEMMA CountedFinite == IsFiniteSet(Counted) /\ Cardinality(Counted) \in Nat
<1>1. Counted \subseteq Users
  BY DEF Counted
<1> QED
  BY <1>1, UsersFinite, FS_Subset, FS_CardinalityType

\* The writer bit of the word tells whether a write guard exists, and a zero
\* word tells that there is no guard and no reader about to undo.
LEMMA WordMeaning ==
    ASSUME RwIInv
    PROVE  /\ WriterBit(lock) = IF Writers = {} THEN 0 ELSE WRITER
           /\ lock = 0 => Counted = {} /\ Writers = {}
<1>1. WriterBit(lock) = IF Writers = {} THEN 0 ELSE WRITER
  BY CountedFinite DEF RwIInv, WordInv, WriterBit, READER, WRITER
<1>2. ASSUME lock = 0 PROVE Cardinality(Counted) = 0 /\ Writers = {}
  BY <1>2, CountedFinite DEF RwIInv, WordInv, READER, WRITER
<1> QED
  BY <1>1, <1>2, CountedFinite, FS_EmptySet

\* The lock is created free.
LEMMA InitIInv == RwInit => RwIInv
<1> SUFFICES ASSUME RwInit PROVE RwIInv
  OBVIOUS
<1>1. Counted = {} /\ Writers = {}
  BY DEF RwInit, Counted, Writers
<1> QED
  BY <1>1, FS_EmptySet DEF RwInit, RwIInv, RwTypeOK, Exclusion, WordInv, READER

\* Adding a reader adds READER to the word.
LEMMA FetchAddIInv == ASSUME RwIInv, NEW h \in Users, FetchAdd(h) PROVE RwIInv'
<1>1. /\ Counted' = Counted \cup {h}
      /\ h \notin Counted
      /\ Writers' = Writers
      /\ Readers' = IF WriterBit(lock) # 0 THEN Readers ELSE Readers \cup {h}
  BY DEF RwIInv, RwTypeOK, FetchAdd, Goto, Counted, Writers, Readers
<1>2. Cardinality(Counted') = Cardinality(Counted) + 1
  BY <1>1, CountedFinite, FS_AddElement
<1>3. RwTypeOK'
  BY DEF RwIInv, RwTypeOK, FetchAdd, Goto, READER
<1>4. WordInv'
  BY <1>1, <1>2, CountedFinite DEF RwIInv, WordInv, FetchAdd, READER, WRITER
<1>5. Exclusion'
  BY <1>1, WordMeaning DEF RwIInv, Exclusion, WRITER
<1> QED
  BY <1>3, <1>4, <1>5 DEF RwIInv

\* Taking the increment back, in read() or in the guard's drop.
LEMMA FetchSubIInv ==
    ASSUME RwIInv, NEW h \in Users, Undo(h) \/ DropRead(h)
    PROVE  RwIInv'
<1>1. /\ Counted' = Counted \ {h}
      /\ h \in Counted
      /\ Writers' = Writers
      /\ Readers' \subseteq Readers
      /\ lock' = lock - READER
  BY DEF RwIInv, RwTypeOK, Undo, DropRead, Goto, Counted, Writers, Readers
<1>2. Cardinality(Counted') = Cardinality(Counted) - 1
  BY <1>1, CountedFinite, FS_RemoveElement
<1>3. Cardinality(Counted) # 0
  BY <1>1, CountedFinite, FS_EmptySet
<1>4. WordInv'
  BY <1>1, <1>2, CountedFinite DEF RwIInv, WordInv, READER, WRITER
<1>5. lock' \in Nat
  BY <1>1, <1>3, CountedFinite DEF RwIInv, WordInv, READER, WRITER
<1>6. RwTypeOK'
  BY <1>5 DEF RwIInv, RwTypeOK, Undo, DropRead, Goto
<1>7. Exclusion'
  BY <1>1 DEF RwIInv, Exclusion
<1> QED
  BY <1>4, <1>6, <1>7 DEF RwIInv

\* The compare_exchange sees a zero word, so nobody has a guard.
LEMMA CompareExchangeIInv ==
    ASSUME RwIInv, NEW h \in Users, CompareExchange(h)
    PROVE  RwIInv'
<1>1. Counted = {} /\ Writers = {}
  BY WordMeaning DEF CompareExchange
<1>2. /\ Counted' = {}
      /\ Writers' = {h}
      /\ Readers' = {}
  BY <1>1 DEF RwIInv, RwTypeOK, CompareExchange, Goto, Counted, Writers, Readers
<1> QED
  BY <1>2, FS_EmptySet DEF RwIInv, RwTypeOK, Exclusion, WordInv, CompareExchange, Goto,
     READER, WRITER

\* Dropping the write guard clears its bit and leaves the readers' counts.
LEMMA DropWriteIInv == ASSUME RwIInv, NEW h \in Users, DropWrite(h) PROVE RwIInv'
<1>1. Writers = {h}
  BY DEF RwIInv, Exclusion, DropWrite, Writers
<1>2. /\ Counted' = Counted
      /\ Writers' = {}
  BY <1>1 DEF RwIInv, RwTypeOK, DropWrite, Goto, Counted, Writers
<1>3. lock' = READER * Cardinality(Counted)
  BY <1>1, WordMeaning, CountedFinite DEF RwIInv, WordInv, DropWrite, READER, WRITER
<1>4. WordInv'
  BY <1>2, <1>3, CountedFinite DEF WordInv, READER
<1>5. RwTypeOK'
  BY <1>3, CountedFinite DEF RwIInv, RwTypeOK, DropWrite, Goto, READER
<1>6. Exclusion'
  BY <1>2 DEF Exclusion
<1> QED
  BY <1>4, <1>5, <1>6 DEF RwIInv

\* Every step keeps the word in agreement with the guards.
LEMMA NextIInv == RwIInv /\ [RwNext]_rwVars => RwIInv'
<1> SUFFICES ASSUME RwIInv, [RwNext]_rwVars PROVE RwIInv'
  OBVIOUS
<1>1. CASE UNCHANGED rwVars
  BY <1>1 DEF rwVars, RwIInv, RwTypeOK, Exclusion, WordInv, Counted, Writers, Readers
<1>2. ASSUME NEW h \in Users, Call(h) PROVE RwIInv'
  <2>1. Counted' = Counted /\ Writers' = Writers /\ Readers' = Readers
    BY <1>2 DEF RwIInv, RwTypeOK, Call, Goto, Counted, Writers, Readers
  <2> QED
    BY <1>2, <2>1 DEF RwIInv, RwTypeOK, Exclusion, WordInv, Call, Goto
<1>3. ASSUME NEW h \in Users, FetchAdd(h) PROVE RwIInv'
  BY <1>3, FetchAddIInv
<1>4. ASSUME NEW h \in Users, Undo(h) \/ DropRead(h) PROVE RwIInv'
  BY <1>4, FetchSubIInv
<1>5. ASSUME NEW h \in Users, CompareExchange(h) PROVE RwIInv'
  BY <1>5, CompareExchangeIInv
<1>6. ASSUME NEW h \in Users, DropWrite(h) PROVE RwIInv'
  BY <1>6, DropWriteIInv
<1> QED
  BY <1>1, <1>2, <1>3, <1>4, <1>5, <1>6 DEF RwNext, Step

\* The word of the lock is exact for any number of harts.
THEOREM InductiveInvariant == RwSpec => []RwIInv
BY InitIInv, NextIInv, PTL DEF RwSpec

\* The lock word never becomes negative: every fetch_sub takes back what its hart
\* added.
THEOREM TypeCorrect == RwSpec => []RwTypeOK
<1>1. RwIInv => RwTypeOK
  BY DEF RwIInv
<1> QED
  BY <1>1, InductiveInvariant, PTL

\* The lock word of RwLock always says who is in and who still has to undo.
THEOREM WordExact == RwSpec => []WordInv
<1>1. RwIInv => WordInv
  BY DEF RwIInv
<1> QED
  BY <1>1, InductiveInvariant, PTL

\* A write guard never coexists with another guard.
THEOREM RwLockSafety == RwSpec => []Exclusion
<1>1. RwIInv => Exclusion
  BY DEF RwIInv
<1> QED
  BY <1>1, InductiveInvariant, PTL
=============================================================================
