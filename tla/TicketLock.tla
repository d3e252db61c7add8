----------------------------- MODULE TicketLock -----------------------------
(***************************************************************************)
(* `Mutex<T>` of crates/riscv/src/sync.rs: a ticket lock over two atomic   *)
(* counters.  `lock` draws a ticket with a wrapping fetch_add and spins    *)
(* until `now_serving` equals it; dropping the guard stores ticket + 1.    *)
(* The kernel is built with overflow checks, so that the addition in the   *)
(* drop panics, and never releases the lock, when the ticket is            *)
(* usize::MAX, while the fetch_add on `next_ticket` silently wraps.        *)
(***************************************************************************)
EXTENDS Integers, FiniteSets

CONSTANTS Harts,    \* the harts that share the mutex
          UsizeMax  \* usize::MAX, the last ticket before the counter wraps

ASSUME UsizeMaxAssumption == UsizeMax \in Nat

\* There are fewer harts than tickets (8 against 2^64 on the real machine).
ASSUME HartsAssumption == IsFiniteSet(Harts) /\ Cardinality(Harts) <= UsizeMax

VARIABLES next_ticket, now_serving,
          ticket,  \* ticket[h]: the local of `lock`, then the guard's field
          pc       \* "idle", "spin", "held", or "panicked" in the guard's drop

vars == <<next_ticket, now_serving, ticket, pc>>

Tickets == 0 .. UsizeMax

TypeOK == /\ next_ticket \in Tickets
          /\ now_serving \in Tickets
          /\ ticket \in [Harts -> Tickets]
          /\ pc \in [Harts -> {"idle", "spin", "held", "panicked"}]

Init == /\ next_ticket = 0
        /\ now_serving = 0
        /\ ticket = [h \in Harts |-> 0]
        /\ pc = [h \in Harts |-> "idle"]

\* AtomicUsize::fetch_add wraps at usize::MAX.
Wrapped(t) == IF t = UsizeMax THEN 0 ELSE t + 1

NoWrap(t) == t + 1

\* Mutant of TakeTicket: the counter does not wrap.
TakeTicketNoWrap(h) == /\ pc[h] = "idle"
                       /\ ticket' = [ticket EXCEPT ![h] = next_ticket]
                       /\ next_ticket' = NoWrap(next_ticket)
                       /\ pc' = [pc EXCEPT ![h] = "spin"]
                       /\ UNCHANGED now_serving

\* lock(): draw a ticket.
TakeTicket(h) == /\ pc[h] = "idle"
                 /\ ticket' = [ticket EXCEPT ![h] = next_ticket]
                 /\ next_ticket' = Wrapped(next_ticket)
                 /\ pc' = [pc EXCEPT ![h] = "spin"]
                 /\ UNCHANGED now_serving

\* Mutant of Enter: any ticket up to the one being served gets in.
EnterIfPassed(h) == /\ pc[h] = "spin"
                    /\ now_serving >= ticket[h]
                    /\ pc' = [pc EXCEPT ![h] = "held"]
                    /\ UNCHANGED <<next_ticket, now_serving, ticket>>

\* lock(): the load that sees the own ticket ends the spin loop.
Enter(h) == /\ pc[h] = "spin"
            /\ now_serving = ticket[h]
            /\ pc' = [pc EXCEPT ![h] = "held"]
            /\ UNCHANGED <<next_ticket, now_serving, ticket>>

\* Mutant of Unlock: serve whoever comes next instead of whoever waits.
UnlockToNewest(h) == /\ pc[h] = "held"
                     /\ ticket[h] # UsizeMax
                     /\ now_serving' = next_ticket
                     /\ pc' = [pc EXCEPT ![h] = "idle"]
                     /\ UNCHANGED <<next_ticket, ticket>>

\* MutexGuard::drop: hand the lock to the next ticket.
Unlock(h) == /\ pc[h] = "held"
             /\ ticket[h] # UsizeMax
             /\ now_serving' = ticket[h] + 1
             /\ pc' = [pc EXCEPT ![h] = "idle"]
             /\ UNCHANGED <<next_ticket, ticket>>

\* MutexGuard::drop with the last ticket: `self.ticket + 1` overflows and the
\* hart panics before the store.
UnlockOverflow(h) == /\ pc[h] = "held"
                     /\ ticket[h] = UsizeMax
                     /\ pc' = [pc EXCEPT ![h] = "panicked"]
                     /\ UNCHANGED <<next_ticket, now_serving, ticket>>

Next == \E h \in Harts : \/ TakeTicket(h)
                         \/ Enter(h)
                         \/ Unlock(h)
                         \/ UnlockOverflow(h)

\* A spinning hart keeps loading `now_serving`, and critical sections end.
\* Nothing obliges an idle hart to call lock().
Fairness == \A h \in Harts : /\ WF_vars(Enter(h))
                             /\ WF_vars(Unlock(h) \/ UnlockOverflow(h))

Spec == Init /\ [][Next]_vars /\ Fairness

-----------------------------------------------------------------------------
(* Properties *)

Owners == {h \in Harts : pc[h] \in {"held", "panicked"}}

\* Two harts never hold guards of the same mutex: lock() returns to one hart
\* only after the guard before it was dropped, across the wrap of next_ticket
\* too.  A hart that panicked in drop still owns the lock.
MutualExclusion == \A g, h \in Owners : g = h

\* How far ticket t is from being served.
Distance(t) == IF t >= now_serving THEN t - now_serving
                                   ELSE t + UsizeMax + 1 - now_serving

Active == {h \in Harts : pc[h] # "idle"}

\* The outstanding tickets are pairwise distinct and are exactly the ones
\* between now_serving and next_ticket, one for each hart inside lock() or
\* holding a guard; the owner's ticket is the one being served.
TicketInv ==
    /\ Cardinality(Active) = Distance(next_ticket)
    /\ \A h \in Active : Distance(ticket[h]) < Distance(next_ticket)
    /\ \A g, h \in Active : ticket[g] = ticket[h] => g = h
    /\ \A h \in Owners : ticket[h] = now_serving

IInv == TypeOK /\ TicketInv

\* The mutex implements a lock that grants in the order of the fetch_adds.
Lock == INSTANCE FairLock WITH
    owner  <- Owners,
    asking <- {h \in Harts : pc[h] = "spin"},
    ahead  <- [h \in Harts |->
                 IF pc[h] = "spin"
                 THEN {g \in Active : Distance(ticket[g]) < Distance(ticket[h])}
                 ELSE {}]

ImplementsFairLock == Lock!Spec

\* Every lock() call returns, unless the ticket counter ran out: then the
\* guard's drop has panicked and the mutex stays locked for good.
StarvationFree ==
    \A h \in Harts :
        pc[h] = "spin" ~> (pc[h] = "held" \/ \E g \in Harts : pc[g] = "panicked")
=============================================================================
