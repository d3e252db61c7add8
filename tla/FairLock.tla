------------------------------ MODULE FairLock ------------------------------
(***************************************************************************)
(* What a user of `Mutex` relies on: one owner at a time, and the lock is  *)
(* granted in the order in which it was asked for.  `ahead[h]` is the set  *)
(* of harts that asked before h did and have not released the lock since;  *)
(* h may be granted the lock only when that set has become empty.          *)
(***************************************************************************)
CONSTANT Harts

VARIABLES owner,   \* the harts that own the lock (none or one)
          asking,  \* the harts waiting for it
          ahead    \* ahead[h]: who is served before the waiting hart h

vars == <<owner, asking, ahead>>

Init == /\ owner = {}
        /\ asking = {}
        /\ ahead = [h \in Harts |-> {}]

Ask(h) == /\ h \notin asking \cup owner
          /\ asking' = asking \cup {h}
          /\ ahead' = [ahead EXCEPT ![h] = asking \cup owner]
          /\ UNCHANGED owner

Grant(h) == /\ h \in asking
            /\ owner = {}
            /\ ahead[h] = {}
            /\ owner' = {h}
            /\ asking' = asking \ {h}
            /\ UNCHANGED ahead

Release(h) == /\ owner = {h}
              /\ owner' = {}
              /\ ahead' = [g \in Harts |-> ahead[g] \ {h}]
              /\ UNCHANGED asking

Next == \E h \in Harts : Ask(h) \/ Grant(h) \/ Release(h)

Spec == Init /\ [][Next]_vars
=============================================================================
