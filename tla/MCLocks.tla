------------------------------ MODULE MCLocks ------------------------------
(***************************************************************************)
(* Model-checking instance of the two locks of sync.rs.  They share        *)
(* nothing, so a behaviour is one of a Mutex or one of an RwLock.          *)
(*                                                                         *)
(* The Mutex has three harts and a counter that wraps after six tickets:   *)
(* next_ticket wraps while earlier tickets are outstanding, and the        *)
(* overflow in the guard's drop is reached.  The RwLock has four, so that  *)
(* a writer, another waiting writer and two readers in different stages    *)
(* meet.                                                                   *)
(***************************************************************************)
EXTENDS TicketLock, RwLock

VARIABLE subject  \* the lock that is used

LocksInit == Init /\ RwInit /\ subject \in {"mutex", "rwlock"}

LocksNext == /\ \/ subject = "mutex" /\ Next /\ UNCHANGED rwVars
                \/ subject = "rwlock" /\ RwNext /\ UNCHANGED vars
             /\ UNCHANGED subject

LocksSpec == /\ LocksInit /\ [][LocksNext]_<<vars, rwVars, subject>>
             /\ Fairness /\ RwFairness
=============================================================================
