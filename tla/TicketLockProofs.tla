-------------------------- MODULE TicketLockProofs --------------------------
(***************************************************************************)
(* Proofs about TicketLock for every set of harts and every width of the   *)
(* ticket counter: the inductive invariant, mutual exclusion, and the      *)
(* implementation of FairLock (first come, first served).                  *)
(***************************************************************************)
EXTENDS TicketLock, FiniteSetTheorems, TLAPS

\* The set of harts inside lock() or holding a guard is finite and no larger
\* than the set of all harts.
LEMMA ActiveFinite == /\ IsFiniteSet(Active)
                      /\ Cardinality(Active) \in Nat
                      /\ Cardinality(Active) <= Cardinality(Harts)
                      /\ Cardinality(Harts) \in Nat
<1>1. Active \subseteq Harts
  BY DEF Active
<1> QED
  BY <1>1, HartsAssumption, FS_Subset, FS_CardinalityType

\* The initial state satisfies the inductive invariant.
LEMMA InitIInv == Init => IInv
<1> SUFFICES ASSUME Init PROVE IInv
  OBVIOUS
<1>1. TypeOK
  BY UsizeMaxAssumption DEF Init, TypeOK, Tickets
<1>2. Active = {} /\ Owners = {}
  BY DEF Init, Active, Owners
<1>3. Cardinality(Active) = 0
  BY <1>2, FS_EmptySet
<1>4. Distance(next_ticket) = 0
  BY DEF Init, Distance
<1> QED
  BY <1>1, <1>2, <1>3, <1>4 DEF IInv, TicketInv

\* Drawing a ticket keeps the outstanding tickets an interval: the number of
\* outstanding tickets stays below the counter's range, so that a wrapped
\* ticket is never one that is still outstanding.
LEMMA TakeTicketIInv == ASSUME IInv, NEW h \in Harts, TakeTicket(h) PROVE IInv'
<1> USE UsizeMaxAssumption
<1>1. TypeOK'
  BY DEF IInv, TypeOK, TakeTicket, Wrapped, Tickets
<1>2. /\ Active' = Active \cup {h}
      /\ h \notin Active
      /\ Owners' = Owners
  BY DEF IInv, TypeOK, TakeTicket, Active, Owners
<1>3. /\ Cardinality(Active') = Cardinality(Active) + 1
      /\ Cardinality(Active) + 1 <= UsizeMax
  <2>1. Cardinality(Active') = Cardinality(Active) + 1
    BY <1>2, ActiveFinite, FS_AddElement
  <2>2. Active' \subseteq Harts
    BY <1>2 DEF Active
  <2>3. Cardinality(Active') <= Cardinality(Harts)
    BY <2>2, HartsAssumption, FS_Subset
  <2> QED
    BY <2>1, <2>3, HartsAssumption, ActiveFinite
<1>4. Distance(next_ticket)' = Distance(next_ticket) + 1
  BY <1>3 DEF IInv, TicketInv, TypeOK, TakeTicket, Wrapped, Distance, Tickets
<1>5. \A g \in Active : ticket'[g] = ticket[g]
  BY <1>2 DEF IInv, TypeOK, TakeTicket, Active
<1>6. ticket'[h] = next_ticket
  BY DEF IInv, TypeOK, TakeTicket
<1>7. \A g \in Active : ticket[g] # next_ticket
  BY DEF IInv, TicketInv, TypeOK, Active, Distance, Tickets
<1>8. \A g \in Active' : Distance(ticket[g])' < Distance(next_ticket)'
  <2> SUFFICES ASSUME NEW g \in Active'
               PROVE  Distance(ticket[g])' < Distance(next_ticket)'
    OBVIOUS
  <2>1. CASE g = h
    BY <2>1, <1>3, <1>4, <1>6 DEF IInv, TypeOK, TakeTicket, Distance, Tickets
  <2>2. CASE g \in Active
    BY <2>2, <1>4, <1>5, <1>3 DEF IInv, TicketInv, TypeOK, TakeTicket, Distance, Tickets, Active
  <2> QED
    BY <2>1, <2>2, <1>2
<1>9. \A f, g \in Active' : ticket'[f] = ticket'[g] => f = g
  BY <1>2, <1>5, <1>6, <1>7 DEF IInv, TicketInv
<1>10. \A g \in Owners' : ticket'[g] = now_serving'
  BY <1>2, <1>5 DEF IInv, TicketInv, TakeTicket, Owners, Active
<1> QED
  BY <1>1, <1>3, <1>4, <1>8, <1>9, <1>10 DEF IInv, TicketInv

\* Taking or giving up for good a lock that is being served changes no ticket.
LEMMA EnterIInv ==
    ASSUME IInv, NEW h \in Harts, Enter(h) \/ UnlockOverflow(h)
    PROVE  IInv'
<1>1. TypeOK'
  BY DEF IInv, TypeOK, Enter, UnlockOverflow
<1>2. Active' = Active /\ Owners' = Owners \cup {h}
  BY DEF IInv, TypeOK, Enter, UnlockOverflow, Active, Owners
<1>3. UNCHANGED <<next_ticket, now_serving, ticket>>
  BY DEF Enter, UnlockOverflow
<1>4. ticket[h] = now_serving
  BY DEF IInv, TicketInv, Enter, UnlockOverflow, Owners
<1> QED
  BY <1>1, <1>2, <1>3, <1>4 DEF IInv, TicketInv, Distance

\* Releasing the lock moves every other outstanding ticket one step closer.
LEMMA UnlockIInv == ASSUME IInv, NEW h \in Harts, Unlock(h) PROVE IInv'
<1> USE UsizeMaxAssumption
<1>1. TypeOK'
  BY DEF IInv, TypeOK, Unlock, Tickets
<1>2. /\ Active' = Active \ {h}
      /\ h \in Active
      /\ h \in Owners
      /\ Owners' = Owners \ {h}
  BY DEF IInv, TypeOK, Unlock, Active, Owners
<1>3. ticket[h] = now_serving
  BY <1>2 DEF IInv, TicketInv
<1>4. \A g \in Active' : ticket[g] # now_serving /\ ticket[g] \in Tickets
  BY <1>2, <1>3 DEF IInv, TypeOK, TicketInv, Active
<1>5. Owners' = {}
  BY <1>2, <1>3 DEF IInv, TicketInv, Owners, Active
<1>6. Cardinality(Active') = Cardinality(Active) - 1
  BY <1>2, ActiveFinite, FS_RemoveElement
<1>7. now_serving' = now_serving + 1 /\ UNCHANGED <<next_ticket, ticket>>
  BY <1>3 DEF Unlock
<1>8. next_ticket # now_serving
  BY <1>2, <1>3 DEF IInv, TypeOK, TicketInv, Distance, Tickets
<1>9. Distance(next_ticket)' = Distance(next_ticket) - 1
  BY <1>1, <1>7, <1>8 DEF IInv, TypeOK, Distance, Tickets
<1>10. \A g \in Active' : Distance(ticket[g])' = Distance(ticket[g]) - 1
  BY <1>1, <1>4, <1>7 DEF IInv, TypeOK, Distance, Tickets
<1>11. \A g \in Active' : Distance(ticket[g]) \in Int
  BY <1>4 DEF IInv, TypeOK, Distance, Tickets
<1>12. Distance(next_ticket) \in Int
  BY DEF IInv, TypeOK, Distance, Tickets
<1>13. \A g \in Active' : Distance(ticket[g])' < Distance(next_ticket)'
  BY <1>2, <1>9, <1>10, <1>11, <1>12 DEF IInv, TicketInv
<1>14. \A f, g \in Active' : ticket'[f] = ticket'[g] => f = g
  BY <1>2, <1>7 DEF IInv, TicketInv
<1>15. Cardinality(Active') = Distance(next_ticket)'
  BY <1>6, <1>9 DEF IInv, TicketInv
<1> QED
  BY <1>1, <1>5, <1>13, <1>14, <1>15 DEF IInv, TicketInv

\* Every step of every hart preserves the inductive invariant.
LEMMA NextIInv == IInv /\ [Next]_vars => IInv'
<1> SUFFICES ASSUME IInv, [Next]_vars PROVE IInv'
  OBVIOUS
<1>1. CASE UNCHANGED vars
  BY <1>1 DEF vars, IInv, TypeOK, TicketInv, Active, Owners, Distance
<1>2. ASSUME NEW h \in Harts, TakeTicket(h) PROVE IInv'
  BY <1>2, TakeTicketIInv
<1>3. ASSUME NEW h \in Harts, Enter(h) PROVE IInv'
  BY <1>3, EnterIInv
<1>4. ASSUME NEW h \in Harts, Unlock(h) PROVE IInv'
  BY <1>4, UnlockIInv
<1>5. ASSUME NEW h \in Harts, UnlockOverflow(h) PROVE IInv'
  BY <1>5, EnterIInv
<1> QED
  BY <1>1, <1>2, <1>3, <1>4, <1>5 DEF Next

\* The counters, tickets and program counters keep their types and the
\* outstanding tickets stay distinct and contiguous, whatever lock() and drop
\* calls the harts make.
THEOREM InductiveInvariant == Spec => []IInv
BY InitIInv, NextIInv, PTL DEF Spec

\* The counters and the tickets of Mutex stay within usize.
THEOREM TypeCorrect == Spec => []TypeOK
<1>1. IInv => TypeOK
  BY DEF IInv
<1> QED
  BY <1>1, InductiveInvariant, PTL

\* The counters of Mutex and the tickets its callers hold always agree.
THEOREM TicketsConsistent == Spec => []TicketInv
<1>1. IInv => TicketInv
  BY DEF IInv
<1> QED
  BY <1>1, InductiveInvariant, PTL

\* The invariant leaves room for one owner only.
LEMMA IInvMutex == IInv => MutualExclusion
BY DEF IInv, TicketInv, MutualExclusion, Owners, Active

\* Two harts never hold a guard of the same Mutex.
THEOREM MutexSafety == Spec => []MutualExclusion
BY InductiveInvariant, IInvMutex, PTL

-----------------------------------------------------------------------------
(* Refinement: the ticket lock is a first-come-first-served lock. *)

\* The refinement mapping of TicketLock, one operator per abstract variable.
AskingBar == {h \in Harts : pc[h] = "spin"}

AheadBar(h) == IF pc[h] = "spin"
               THEN {g \in Active : Distance(ticket[g]) < Distance(ticket[h])}
               ELSE {}

\* A new ticket is behind all the others: the order among the old ones stays.
LEMMA TakeTicketRefines ==
    ASSUME IInv, NEW h \in Harts, TakeTicket(h)
    PROVE  Lock!Ask(h)
<1> USE UsizeMaxAssumption
<1>1. h \notin AskingBar \cup Owners
  BY DEF TakeTicket, AskingBar, Owners
<1>2. AskingBar' = AskingBar \cup {h} /\ Owners' = Owners
  BY DEF IInv, TypeOK, TakeTicket, AskingBar, Owners
<1>3. /\ Active' = Active \cup {h}
      /\ h \notin Active
      /\ Active = AskingBar \cup Owners
  BY DEF IInv, TypeOK, TakeTicket, Active, AskingBar, Owners
<1>4. \A g \in Active : ticket'[g] = ticket[g] /\ pc'[g] = pc[g]
  BY <1>3 DEF IInv, TypeOK, TakeTicket, Active
<1>5. pc'[h] = "spin" /\ pc[h] = "idle"
  BY DEF IInv, TypeOK, TakeTicket
<1>6. \A g \in Active : Distance(ticket[g])' = Distance(ticket[g])
  BY <1>4 DEF TakeTicket, Distance
<1>7. Distance(ticket[h])' = Distance(next_ticket)
  BY DEF IInv, TypeOK, TakeTicket, Distance
<1>8. \A g \in Active : Distance(ticket[g]) < Distance(next_ticket)
  BY DEF IInv, TicketInv
<1>9. \A g \in Active' : Distance(ticket[g]) \in Int /\ Distance(next_ticket) \in Int
  BY DEF IInv, TypeOK, Distance, Tickets, Active
<1>10. AheadBar(h)' = AskingBar \cup Owners
  <2>1. AheadBar(h)' = {g \in Active' : Distance(ticket[g])' < Distance(ticket[h])'}
    BY <1>5 DEF AheadBar
  <2>2. ~ (Distance(ticket[h])' < Distance(ticket[h])')
    BY <1>7, <1>9, <1>3
  <2>3. \A g \in Active : Distance(ticket[g])' < Distance(ticket[h])'
    BY <1>6, <1>7, <1>8
  <2> QED
    BY <2>1, <2>2, <2>3, <1>3
<1>11. ASSUME NEW g \in Harts, g # h PROVE AheadBar(g)' = AheadBar(g)
  <2>1. CASE pc[g] = "spin"
    <3>1. g \in Active /\ pc'[g] = "spin"
      BY <2>1, <1>4 DEF Active
    <3>2. ~ (Distance(ticket[h])' < Distance(ticket[g])')
      BY <3>1, <1>6, <1>7, <1>8, <1>9, <1>3
    <3>3. \A f \in Active : Distance(ticket[f])' < Distance(ticket[g])'
                              <=> Distance(ticket[f]) < Distance(ticket[g])
      BY <3>1, <1>6
    <3>4. AheadBar(g)' = {f \in Active' : Distance(ticket[f])' < Distance(ticket[g])'}
      BY <3>1 DEF AheadBar
    <3>5. AheadBar(g) = {f \in Active : Distance(ticket[f]) < Distance(ticket[g])}
      BY <2>1 DEF AheadBar
    <3> QED
      BY <3>2, <3>3, <3>4, <3>5, <1>3
  <2>2. CASE pc[g] # "spin"
    BY <2>2, <1>5, <1>11 DEF AheadBar, IInv, TypeOK, TakeTicket
  <2> QED
    BY <2>1, <2>2
<1>12. [g \in Harts |-> AheadBar(g)]'
         = [[g \in Harts |-> AheadBar(g)] EXCEPT ![h] = AskingBar \cup Owners]
  BY <1>10, <1>11
<1> QED
  BY <1>1, <1>2, <1>12 DEF Lock!Ask, AskingBar, AheadBar

\* The hart whose ticket is served has nobody ahead of it, and no one owns
\* the lock: an owner would have the same ticket.
LEMMA EnterRefines ==
    ASSUME IInv, NEW h \in Harts, Enter(h)
    PROVE  Lock!Grant(h)
<1> USE UsizeMaxAssumption
<1>1. h \in AskingBar /\ AskingBar' = AskingBar \ {h}
  BY DEF IInv, TypeOK, Enter, AskingBar
<1>2. Owners = {}
  BY DEF IInv, TicketInv, Enter, Owners, Active
<1>3. Owners' = {h}
  BY <1>2 DEF IInv, TypeOK, Enter, Owners
<1>4. AheadBar(h) = {}
  <2>1. Distance(ticket[h]) = 0
    BY DEF IInv, TypeOK, Enter, Distance, Tickets
  <2>2. \A g \in Active : ~ (Distance(ticket[g]) < 0)
    BY DEF IInv, TypeOK, Distance, Tickets, Active
  <2> QED
    BY <2>1, <2>2 DEF AheadBar
<1>5. ASSUME NEW g \in Harts PROVE AheadBar(g)' = AheadBar(g)
  <2>1. Active' = Active
    BY DEF IInv, TypeOK, Enter, Active
  <2>2. \A f \in Harts : Distance(ticket[f])' = Distance(ticket[f])
    BY DEF Enter, Distance
  <2>3. CASE g = h
    BY <2>3, <1>4 DEF AheadBar, IInv, TypeOK, Enter
  <2>4. CASE g # h
    BY <2>1, <2>2, <2>4 DEF AheadBar, IInv, TypeOK, Enter, Active
  <2> QED
    BY <2>3, <2>4
<1>6. UNCHANGED [g \in Harts |-> AheadBar(g)]
  BY <1>5
<1>7. [g \in Harts |-> AheadBar(g)][h] = {}
  BY <1>4
<1> QED
  BY <1>1, <1>2, <1>3, <1>6, <1>7 DEF Lock!Grant, AskingBar, AheadBar

\* Dropping the guard takes its hart out of everybody's way and keeps the
\* order of the rest.
LEMMA UnlockRefines ==
    ASSUME IInv, NEW h \in Harts, Unlock(h)
    PROVE  Lock!Release(h)
<1> USE UsizeMaxAssumption
<1>1. /\ Active' = Active \ {h}
      /\ h \in Active
      /\ h \in Owners
      /\ AskingBar' = AskingBar
      /\ Owners' = Owners \ {h}
  BY DEF IInv, TypeOK, Unlock, Active, Owners, AskingBar
<1>2. Owners = {h} /\ ticket[h] = now_serving
  BY <1>1 DEF IInv, TicketInv, Owners, Active
<1>3. TypeOK'
  BY DEF IInv, TypeOK, Unlock, Tickets
<1>4. \A g \in Active' : Distance(ticket[g])' = Distance(ticket[g]) - 1
  <2>1. \A g \in Active' : ticket[g] # now_serving /\ ticket[g] \in Tickets
    BY <1>1, <1>2 DEF IInv, TypeOK, TicketInv, Active
  <2>2. now_serving' = now_serving + 1 /\ UNCHANGED ticket
    BY <1>2 DEF Unlock
  <2> QED
    BY <1>3, <2>1, <2>2 DEF IInv, TypeOK, Distance, Tickets
<1>5. \A g \in Harts : Distance(ticket[g]) \in Int
  BY DEF IInv, TypeOK, Distance, Tickets
<1>6. ASSUME NEW g \in Harts PROVE AheadBar(g)' = AheadBar(g) \ {h}
  <2>1. CASE pc[g] = "spin"
    <3>1. g \in Active' /\ pc'[g] = "spin"
      BY <2>1, <1>1 DEF IInv, TypeOK, Unlock, Active
    <3>2. \A f \in Active' : Distance(ticket[f])' < Distance(ticket[g])'
                               <=> Distance(ticket[f]) < Distance(ticket[g])
      BY <3>1, <1>4, <1>5 DEF Active
    <3>3. AheadBar(g)' = {f \in Active' : Distance(ticket[f])' < Distance(ticket[g])'}
      BY <3>1 DEF AheadBar
    <3>4. AheadBar(g) = {f \in Active : Distance(ticket[f]) < Distance(ticket[g])}
      BY <2>1 DEF AheadBar
    <3> QED
      BY <3>2, <3>3, <3>4, <1>1
  <2>2. CASE pc[g] # "spin"
    BY <2>2 DEF AheadBar, IInv, TypeOK, Unlock
  <2> QED
    BY <2>1, <2>2
<1>7. [g \in Harts |-> AheadBar(g)]'
        = [g \in Harts |-> [f \in Harts |-> AheadBar(f)][g] \ {h}]
  BY <1>6
<1> QED
  BY <1>1, <1>2, <1>7 DEF Lock!Release, AskingBar, AheadBar

\* The panic in drop leaves the hart the owner: nothing changes for the others.
LEMMA UnlockOverflowRefines ==
    ASSUME IInv, NEW h \in Harts, UnlockOverflow(h)
    PROVE  UNCHANGED Lock!vars
<1>1. /\ Active' = Active
      /\ Owners' = Owners
      /\ AskingBar' = AskingBar
  BY DEF IInv, TypeOK, UnlockOverflow, Active, Owners, AskingBar
<1>2. ASSUME NEW g \in Harts PROVE AheadBar(g)' = AheadBar(g)
  BY <1>1 DEF IInv, TypeOK, UnlockOverflow, AheadBar, Distance, Active
<1>3. UNCHANGED [g \in Harts |-> AheadBar(g)]
  BY <1>2
<1> QED
  BY <1>1, <1>3 DEF Lock!vars, AskingBar, AheadBar

\* Mutex grants the lock to one hart at a time, in the order in which lock()
\* drew the tickets, for any number of harts and any width of the counters.
THEOREM Refinement == Spec => ImplementsFairLock
<1>1. Init => Lock!Init
  BY DEF Init, Lock!Init, Owners
<1>2. IInv /\ [Next]_vars => [Lock!Next]_(Lock!vars)
  <2> SUFFICES ASSUME IInv, [Next]_vars PROVE [Lock!Next]_(Lock!vars)
    OBVIOUS
  <2>1. ASSUME NEW h \in Harts, TakeTicket(h) PROVE Lock!Next
    BY <2>1, TakeTicketRefines DEF Lock!Next
  <2>2. ASSUME NEW h \in Harts, Enter(h) PROVE Lock!Next
    BY <2>2, EnterRefines DEF Lock!Next
  <2>3. ASSUME NEW h \in Harts, Unlock(h) PROVE Lock!Next
    BY <2>3, UnlockRefines DEF Lock!Next
  <2>4. ASSUME NEW h \in Harts, UnlockOverflow(h) PROVE UNCHANGED Lock!vars
    BY <2>4, UnlockOverflowRefines
  <2>5. CASE UNCHANGED vars
    BY <2>5 DEF vars, Lock!vars, Owners, Active, Distance
  <2> QED
    BY <2>1, <2>2, <2>3, <2>4, <2>5 DEF Next
<1> QED
  BY <1>1, <1>2, InductiveInvariant, PTL DEF Spec, ImplementsFairLock, Lock!Spec
=============================================================================
