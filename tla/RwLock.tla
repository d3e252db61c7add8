------------------------------- MODULE RwLock -------------------------------
(***************************************************************************)
(* `RwLock<T>` of crates/riscv/src/sync.rs: one atomic word, bit 0 is the  *)
(* writer and the rest counts readers in units of READER.  A reader adds   *)
(* itself first and looks afterwards: when it finds a writer it takes its  *)
(* increment back and tries again, so the count also holds readers that    *)
(* never get in.  The count stays far below usize::MAX: it is bounded by   *)
(* the number of harts.                                                    *)
(***************************************************************************)
EXTENDS Integers, FiniteSets

CONSTANT Users  \* the callers of read() and write(), one guard each

ASSUME UsersFinite == IsFiniteSet(Users)

VARIABLES lock,  \* the atomic word
          at     \* where each hart is in read(), write() or with a guard

rwVars == <<lock, at>>

READER == 2
WRITER == 1

WriterBit(value) == value % READER

RwTypeOK == /\ lock \in Nat
            /\ at \in [Users -> {"idle", "read", "undo", "reading", "write", "writing"}]

RwInit == lock = 0 /\ at = [h \in Users |-> "idle"]

Goto(h, label) == at' = [at EXCEPT ![h] = label]

\* The harts that want the lock enter the loop of read() or of write().
Call(h) == /\ at[h] = "idle"
           /\ Goto(h, "read") \/ Goto(h, "write")
           /\ UNCHANGED lock

\* read(): fetch_add(READER); the old value decides.
FetchAdd(h) == /\ at[h] = "read"
               /\ lock' = lock + READER
               /\ Goto(h, IF WriterBit(lock) # 0 THEN "undo" ELSE "reading")

\* Mutant of Undo: the increment is not taken back.
UndoForgotten(h) == /\ at[h] = "undo"
                    /\ UNCHANGED lock
                    /\ Goto(h, "read")

\* read(): there is a writer, so take the increment back and loop.
Undo(h) == /\ at[h] = "undo"
           /\ lock' = lock - READER
           /\ Goto(h, "read")

\* Mutant of CompareExchange: only the writer bit is looked at.
CompareExchangeBit(h) == /\ at[h] = "write"
                         /\ WriterBit(lock) = 0
                         /\ lock' = lock + WRITER
                         /\ Goto(h, "writing")

\* write(): compare_exchange(0, WRITER) succeeds; a failure only spins.
CompareExchange(h) == /\ at[h] = "write"
                      /\ lock = 0
                      /\ lock' = WRITER
                      /\ Goto(h, "writing")

\* RwLockReadGuard::drop
DropRead(h) == /\ at[h] = "reading"
               /\ lock' = lock - READER
               /\ Goto(h, "idle")

\* Mutant of DropWrite: store(0).
DropWriteStoresZero(h) == /\ at[h] = "writing"
                          /\ lock' = 0
                          /\ Goto(h, "idle")

\* Mutant of DropWrite: fetch_and(WRITER).
DropWriteKeepsBit(h) == /\ at[h] = "writing"
                        /\ lock' = WriterBit(lock)
                        /\ Goto(h, "idle")

\* RwLockWriteGuard::drop: fetch_and(!WRITER) clears the writer bit only, the
\* increments of readers that still have to undo stay.
DropWrite(h) == /\ at[h] = "writing"
                /\ lock' = lock - WriterBit(lock)
                /\ Goto(h, "idle")

Step(h) == FetchAdd(h) \/ Undo(h) \/ CompareExchange(h) \/ DropRead(h) \/ DropWrite(h)

RwNext == \E h \in Users : Call(h) \/ Step(h)

\* A hart inside read() or write() keeps running and guards are dropped in
\* the end; nothing obliges a hart to call.
RwFairness == \A h \in Users : WF_rwVars(Step(h))

RwSpec == RwInit /\ [][RwNext]_rwVars /\ RwFairness

-----------------------------------------------------------------------------
(* Properties *)

Readers == {h \in Users : at[h] = "reading"}
Writers == {h \in Users : at[h] = "writing"}
Counted == {h \in Users : at[h] \in {"reading", "undo"}}

\* A write guard is exclusive: no other write guard and no read guard exists
\* beside it ("either one writer or many readers").
Exclusion == \A w \in Writers : Writers = {w} /\ Readers = {}

\* The word counts every increment that was not taken back, and the writer bit
\* is set exactly while a write guard exists.
WordInv == lock = READER * Cardinality(Counted)
                    + (IF Writers = {} THEN 0 ELSE WRITER)

RwIInv == RwTypeOK /\ Exclusion /\ WordInv

\* The loops of read() and write() never lock everybody out: while somebody
\* waits, a guard is given out sooner or later, although the readers that
\* still have to undo keep the word away from zero.
NoDeadlock ==
    (\E h \in Users : at[h] \in {"read", "undo", "write"})
        ~> (Readers \cup Writers # {})

\* A reader is kept waiting by writers only: without one it gets its guard.
ReaderWaitsForWriterOnly ==
    \A h \in Users : at[h] \in {"read", "undo"} ~> (at[h] = "reading" \/ Writers # {})
=============================================================================
