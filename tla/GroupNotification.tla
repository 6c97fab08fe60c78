------------------------- MODULE GroupNotification -------------------------
(***************************************************************************)
(* What the life cycle registry promises of one operation: all observers   *)
(* are notified, each of them once; one of a later group only after those  *)
(* of all earlier groups have settled; in reverse order for stop; and      *)
(* nobody any more after one of them has failed                            *)
(* (packages/core/src/lifecycle-registry.ts, docs/site/Life-cycle.md).     *)
(***************************************************************************)
EXTENDS Integers

VARIABLES
  observers,  \* whom to notify
  rank,       \* the position of an observer's group
  event,      \* the operation: init, start or stop
  waiting,    \* who has not been notified yet
  active,     \* whose notification has not settled yet
  running     \* the operation is in process

vars == <<observers, rank, event, waiting, active, running>>

Init ==
  /\ waiting = observers
  /\ active = {}
  /\ running = FALSE

Begin(e) ==
  /\ ~running
  /\ active = {}
  /\ event' = e
  /\ waiting' = observers
  /\ running' = TRUE
  /\ UNCHANGED <<observers, rank, active>>

(* Whether the operation comes to group i before it comes to group j.      *)
Earlier(i, j) == IF event = "stop" THEN i > j ELSE i < j

(* Some observers of the first group that is left are notified.            *)
Notify(S) ==
  /\ running
  /\ S # {}
  /\ \A o \in S, p \in waiting : ~Earlier(rank[p], rank[o])
  /\ \A o \in S, p \in active : rank[o] = rank[p]
  /\ waiting' = waiting \ S
  /\ active' = active \cup S
  /\ UNCHANGED <<observers, rank, event, running>>

Settle(o) ==
  /\ active' = active \ {o}
  /\ UNCHANGED <<observers, rank, event, waiting, running>>

Reject(o) ==
  /\ active' = active \ {o}
  /\ running' = FALSE
  /\ UNCHANGED <<observers, rank, event, waiting>>

(* An observer cannot be created: nobody has been notified.                *)
Fail ==
  /\ running
  /\ waiting = observers
  /\ running' = FALSE
  /\ UNCHANGED <<observers, rank, event, waiting, active>>

Finish ==
  /\ running
  /\ waiting = {}
  /\ active = {}
  /\ running' = FALSE
  /\ UNCHANGED <<observers, rank, event, waiting, active>>

Next ==
  \/ \E e \in {"init", "start", "stop"} : Begin(e)
  \/ \E S \in SUBSET waiting : Notify(S)
  \/ \E o \in active : Settle(o) \/ Reject(o)
  \/ Fail
  \/ Finish

Spec == Init /\ [][Next]_vars

=============================================================================
