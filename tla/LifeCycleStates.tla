-------------------------- MODULE LifeCycleStates --------------------------
(***************************************************************************)
(* What an application promises about its life cycle, without callers: one *)
(* operation at a time, at most one initialization, start and stop that    *)
(* alternate.  packages/core/src/application.ts writes these states with   *)
(* setState, packages/boot/src/mixins/boot.mixin.ts adds the two of boot.  *)
(* Module Application, with its concurrent callers, implements this one.   *)
(***************************************************************************)

VARIABLES
  state,        \* Application._state
  initialized   \* Application._initialized

Operations == {"boot", "init", "start", "stop"}

(* The state that marks an operation as being in process, and the stable   *)
(* state in which it ends.                                                 *)
Process == [boot |-> "booting", init |-> "initializing",
            start |-> "starting", stop |-> "stopping"]
Done    == [boot |-> "booted", init |-> "initialized",
            start |-> "started", stop |-> "stopped"]

InProcessStates == {Process[o] : o \in Operations}
StableStates    == {"created"} \cup {Done[o] : o \in Operations}
States          == InProcessStates \cup StableStates

Init == state = "created" /\ initialized = FALSE

(* Where an operation may begin: boot first of all, init once, start on a  *)
(* fresh initialization or after a stop, stop on what was brought up.      *)
MayBegin(o) ==
  \/ o = "boot"  /\ state = "created" /\ ~initialized
  \/ o = "init"  /\ state \in {"created", "booted"} /\ ~initialized
  \/ o = "start" /\ state \in {"initialized", "stopped"} /\ initialized
  \/ o = "stop"  /\ state \in {"initialized", "started"} /\ initialized

Begin(o) ==
  /\ MayBegin(o)
  /\ state' = Process[o]
  /\ UNCHANGED initialized

(* Only the operation in process ends; one that fails never does.          *)
End(o) ==
  /\ state = Process[o]
  /\ state' = Done[o]
  /\ initialized' = (initialized \/ o = "init")

Next == \E o \in Operations : Begin(o) \/ End(o)

Spec == Init /\ [][Next]_<<state, initialized>>

=============================================================================
