---------------------------- MODULE Application ----------------------------
(***************************************************************************)
(* The life cycle of an Application (packages/core/src/application.ts)     *)
(* with the boot operation that BootMixin adds                             *)
(* (packages/boot/src/mixins/boot.mixin.ts): several callers invoke boot,  *)
(* init, start and stop concurrently, and a signal shuts the process down. *)
(*                                                                         *)
(* JavaScript runs one task at a time, so an action here is the code       *)
(* between two awaits.  What runs inside an operation (the bootstrapper,   *)
(* or the life cycle observers) is one await whose promise is later        *)
(* fulfilled (Complete) or rejected (Fail); module LifeCycleRegistry       *)
(* opens it up.                                                            *)
(***************************************************************************)
EXTENDS Naturals

CONSTANTS
  Calls,        \* calls of the four methods, each made once
  Handler,      \* the call of stop() that the signal listener makes
  GracePeriod,  \* whether shutdown.gracePeriod is configured
  MayFail       \* whether an observer or a booter may reject

ASSUME HandlerAssumption == Handler \notin Calls
ASSUME FlagAssumption == GracePeriod \in BOOLEAN /\ MayFail \in BOOLEAN

VARIABLES
  state,         \* _state
  initialized,   \* _initialized
  shuttingDown,  \* _isShuttingDown
  listeners,     \* how often _signalListener is registered for the signal
  timer,         \* the timer of the grace period is armed
  finished,      \* the signal listener has been through its finally block
  alive,         \* the process has not been killed
  op,            \* the method that a call invoked
  body,          \* the method whose body it executes: init inside of start
  pc             \* where it is

vars == <<state, initialized, shuttingDown, listeners, timer, finished,
          alive, op, body, pc>>

Tasks == Calls \cup {Handler}

States == INSTANCE LifeCycleStates
Operations == States!Operations
Process == States!Process
Done == States!Done
InProcess == state \in States!InProcessStates

Settled == {"ok", "asserted", "failed", "rejected"}
Points == {"new", "running", "awaiting", "resume"} \cup Settled

Init ==
  /\ state = "created"
  /\ initialized = FALSE
  /\ shuttingDown = FALSE
  /\ listeners = 0
  /\ timer = FALSE
  /\ finished = FALSE
  /\ alive = TRUE
  /\ op = [t \in Tasks |-> "stop"]
  /\ body = [t \in Tasks |-> "stop"]
  /\ pc = [t \in Tasks |-> "new"]

(***************************************************************************)
(* The synchronous part of a method: the outcomes of its early returns and *)
(* assertions, in the order in which the code tries them.                  *)
(***************************************************************************)

(* The early returns that come before any other test.                      *)
ReturnsFirst(m) == m = "init" /\ initialized

(* Mutant: waits whatever operation is in process.                         *)
JoinsAny(m) == ~ReturnsFirst(m) /\ InProcess

(* The same operation is in process: awaitState.                           *)
Joins(m) == ~ReturnsFirst(m) /\ state = Process[m]

(* Mutant: assertNotInProcess is forgotten.                                *)
ThrowsInBoot(m) == m = "boot" /\ state \notin {"created", "booting", "booted"}

(* assertNotInProcess, and for boot assertInStates.                        *)
Throws(m) ==
  /\ ~ReturnsFirst(m)
  /\ \/ InProcess /\ state # Process[m]
     \/ m = "boot" /\ state \notin {"created", "booting", "booted"}

(* Mutant: stop() does something unless the application is stopped.        *)
NoOpIfStopped(m) ==
  \/ ReturnsFirst(m)
  \/ m = "boot" /\ state = "booted"
  \/ m = "start" /\ state = "started"
  \/ m = "stop" /\ state = "stopped"

(* There is nothing left to do.                                            *)
NoOp(m) ==
  \/ ReturnsFirst(m)
  \/ m = "boot" /\ state = "booted"
  \/ m = "start" /\ state = "started"
  \/ m = "stop" /\ ~InProcess /\ state \notin {"started", "initialized"}

Begins(m) == ~Joins(m) /\ ~Throws(m) /\ ~NoOp(m)

(* Mutant: stop() never removes the listener.                              *)
ListenersKept(m, shutting) == IF m = "start" THEN listeners + 1 ELSE listeners

(* setupShutdown registers the listener; an explicit stop removes it.      *)
ListenersAtBegin(m, shutting) ==
  IF m = "start" THEN listeners + 1
  ELSE IF m = "stop" /\ ~shutting /\ listeners > 0 THEN listeners - 1
  ELSE listeners

(* Task t executes method m up to its first await, or to its end.          *)
Enter(t, m, shutting) ==
  /\ body' = [body EXCEPT ![t] = m]
  /\ \/ /\ Joins(m)
        /\ pc' = [pc EXCEPT ![t] = "awaiting"]
        /\ UNCHANGED <<state, listeners>>
     \/ /\ Throws(m)
        /\ pc' = [pc EXCEPT ![t] = "asserted"]
        /\ UNCHANGED <<state, listeners>>
     \/ /\ NoOp(m)
        /\ pc' = [pc EXCEPT ![t] = "ok"]
        /\ UNCHANGED <<state, listeners>>
     \/ /\ Begins(m)
        /\ pc' = [pc EXCEPT ![t] = "running"]
        /\ state' = Process[m]
        /\ listeners' = ListenersAtBegin(m, shutting)

(***************************************************************************)
(* The callers.                                                            *)
(***************************************************************************)

(* A method is called.  start() calls init() first if it has to.           *)
Call(c, m) ==
  /\ alive
  /\ pc[c] = "new"
  /\ op' = [op EXCEPT ![c] = m]
  /\ Enter(c, IF m = "start" /\ ~initialized THEN "init" ELSE m, shuttingDown)
  /\ UNCHANGED <<initialized, shuttingDown, timer, finished, alive>>

(* start() goes on after its init(): whatever ran in between may have      *)
(* changed the state.                                                      *)
Resume(c) ==
  /\ alive
  /\ pc[c] = "resume"
  /\ Enter(c, "start", shuttingDown)
  /\ UNCHANGED <<initialized, shuttingDown, timer, finished, alive, op>>

(* Where a call that executes body m is once m is done.                    *)
After(t, m) == IF op[t] = m THEN "ok" ELSE "resume"

(* Mutant: the new state is set without the event that wakes the waiters.  *)
CompleteSilently(t) ==
  LET m == body[t] IN
  /\ alive
  /\ pc[t] = "running"
  /\ state' = Done[m]
  /\ initialized' = (initialized \/ m = "init")
  /\ pc' = [pc EXCEPT ![t] = After(t, m)]
  /\ UNCHANGED <<shuttingDown, listeners, timer, finished, alive, op, body>>

(* The operation that t runs is done: setState emits the new state, which  *)
(* fulfils the promise of everyone in awaitState.                          *)
Complete(t) ==
  LET m == body[t] IN
  /\ alive
  /\ pc[t] = "running"
  /\ state' = Done[m]
  /\ initialized' = (initialized \/ m = "init")
  /\ pc' = [u \in Tasks |->
              IF u = t \/ (pc[u] = "awaiting" /\ body[u] = m)
              THEN After(u, m) ELSE pc[u]]
  /\ UNCHANGED <<shuttingDown, listeners, timer, finished, alive, op, body>>

(* The registry or the bootstrapper rejects: so does the call, and the     *)
(* state stays what it is.                                                 *)
Fail(t) ==
  /\ alive
  /\ MayFail
  /\ pc[t] = "running"
  /\ pc' = [pc EXCEPT ![t] = "failed"]
  /\ UNCHANGED <<state, initialized, shuttingDown, listeners, timer, finished,
                 alive, op, body>>

(* An 'error' event on the application, e.g. of a context observer that    *)
(* failed: events.once rejects everyone in awaitState.                     *)
ErrorEvent ==
  /\ alive
  /\ MayFail
  /\ \E t \in Tasks : pc[t] = "awaiting"
  /\ pc' = [t \in Tasks |-> IF pc[t] = "awaiting" THEN "rejected" ELSE pc[t]]
  /\ UNCHANGED <<state, initialized, shuttingDown, listeners, timer, finished,
                 alive, op, body>>

(***************************************************************************)
(* Shutdown.                                                               *)
(***************************************************************************)

(* The finally block of the signal listener is due.                        *)
ShutdownSettled == pc[Handler] \in Settled /\ ~finished

(* Signals and timers are delivered by the event loop, which first runs    *)
(* every continuation that is due.                                         *)
Quiet == ~ShutdownSettled /\ \A t \in Tasks : pc[t] # "resume"

(* A signal reaches the listener for the first time; later ones are        *)
(* ignored.  A signal without listener is not the application's business.  *)
Signal ==
  /\ alive
  /\ Quiet
  /\ listeners > 0
  /\ ~shuttingDown
  /\ shuttingDown' = TRUE
  /\ timer' = GracePeriod
  /\ Enter(Handler, "stop", TRUE)
  /\ UNCHANGED <<initialized, finished, alive, op>>

(* Mutant: kill() takes all registrations away.                            *)
KillForSure == listeners' = 0 /\ alive' = FALSE

(* kill(): removeListener takes one registration away.  If one is left,    *)
(* the signal that the process sends to itself is caught and ignored.      *)
KillProcess ==
  LET left == IF listeners > 0 THEN listeners - 1 ELSE 0 IN
  /\ listeners' = left
  /\ alive' = (left > 0)

(* The finally block of the listener, once its stop() is settled.          *)
FinishShutdown ==
  /\ alive
  /\ ShutdownSettled
  /\ finished' = TRUE
  /\ timer' = FALSE
  /\ KillProcess
  /\ UNCHANGED <<state, initialized, shuttingDown, op, body, pc>>

(* The grace period is over.                                               *)
GraceExpires ==
  /\ alive
  /\ Quiet
  /\ timer
  /\ timer' = FALSE
  /\ KillProcess
  /\ UNCHANGED <<state, initialized, shuttingDown, finished, op, body, pc>>

Next ==
  \/ \E c \in Calls, m \in Operations : Call(c, m)
  \/ \E c \in Calls : Resume(c)
  \/ \E t \in Tasks : Complete(t) \/ Fail(t)
  \/ ErrorEvent
  \/ Signal
  \/ FinishShutdown
  \/ GraceExpires

(* Continuations run, an armed timer fires, and the promise of the         *)
(* registry or of the bootstrapper is settled.                             *)
Fairness ==
  /\ \A c \in Calls : WF_vars(Resume(c))
  /\ \A t \in Tasks : WF_vars(Complete(t) \/ Fail(t))
  /\ WF_vars(FinishShutdown)
  /\ WF_vars(GraceExpires)

Spec == Init /\ [][Next]_vars
FairSpec == Spec /\ Fairness

-----------------------------------------------------------------------------
(***************************************************************************)
(* Properties.                                                             *)
(***************************************************************************)

(* Every variable has its type.                                            *)
TypeOK ==
  /\ state \in States!States
  /\ initialized \in BOOLEAN
  /\ shuttingDown \in BOOLEAN
  /\ listeners \in Nat
  /\ timer \in BOOLEAN
  /\ finished \in BOOLEAN
  /\ alive \in BOOLEAN
  /\ op \in [Tasks -> Operations]
  /\ body \in [Tasks -> Operations]
  /\ pc \in [Tasks -> Points]

(* A call holds the state from the moment it sets it to the in-process     *)
(* value; one whose operation failed holds it for ever.                    *)
Holds(t) == pc[t] \in {"running", "failed"}

(* Two operations are never in process at the same time, and the state     *)
(* that an operation set is not changed by another caller while its        *)
(* observers run: setState(Done) would otherwise end the wrong operation   *)
(* (assertNotInProcess, over all interleavings of the callers' awaits).    *)
SoleOperation ==
  \A t, u \in Tasks :
    Holds(t) => /\ state = Process[body[t]]
                /\ Holds(u) => t = u

(* Nobody waits in awaitState for an event that has already been emitted   *)
(* or that nobody is going to emit: whoever waits, the operation it waits  *)
(* for is in process and a call runs it, or it has failed.                 *)
NobodyWaitsInVain ==
  \A t \in Tasks :
    pc[t] = "awaiting" => /\ state = Process[body[t]]
                          /\ \E u \in Tasks : Holds(u) /\ body[u] = body[t]

(* No observer is started or stopped before init() has been through: the   *)
(* states from starting on imply _initialized, although start() may have   *)
(* awaited an init() that another caller made.                             *)
InitializedWhenUp ==
  state \in {"starting", "started", "stopping", "stopped"} => initialized

(* The signal listener is registered exactly while the application is      *)
(* starting or started: no listener leaks over stop and restart, and the   *)
(* application is never up deaf to signals, as long as it does not shut    *)
(* down (removeSignalListener in stop, registerSignalListener in start).   *)
ListenerBalance ==
  ~shuttingDown =>
    listeners = IF state \in {"starting", "started"} THEN 1 ELSE 0

(* A shutdown whose stop() succeeded kills the process in state stopped    *)
(* and in no other: a restart that came between the end of stop() and the  *)
(* finally block of the signal listener is not cut off half way.           *)
NoKillAfterRestart ==
  [][alive /\ ~alive' /\ pc[Handler] = "ok" => state = "stopped"]_vars

(* The callers together keep the life cycle that LifeCycleStates states.   *)
LifeCycle == States!Spec

(* Every call settles, unless the process is killed or an operation        *)
(* failed: waiters are woken and start() goes on after init().             *)
CallsSettle ==
  \A c \in Calls :
    pc[c] \in {"running", "awaiting", "resume"} ~>
      \/ pc[c] \in Settled
      \/ ~alive
      \/ \E t \in Tasks : pc[t] = "failed"

(* Life-cycle.md: "If the same operation is in process, it awaits the      *)
(* operation to finish": also when the operation finishes by failing.      *)
WaitersLearn ==
  \A c \in Calls : pc[c] = "awaiting" ~> (pc[c] # "awaiting" \/ ~alive)

(* Application.setupShutdown: "signals that are captured to shutdown the   *)
(* application": once a signal is caught the process ends.                 *)
SignalEndsProcess == shuttingDown ~> ~alive

(* The inductive invariant: the properties above, and what they rest on.   *)
InProcessHeld == InProcess => \E t \in Tasks : Holds(t)
StableWhenDone == initialized => state \notin {"created", "booting", "booted",
                                               "initializing"}
InitializedWhenReady == state = "initialized" => initialized
ResumesInitialized == \A t \in Tasks : pc[t] = "resume" => initialized
InnerInit ==
  \A t \in Tasks :
    /\ body[t] # op[t] => op[t] = "start" /\ body[t] = "init"
    /\ pc[t] = "resume" => op[t] = "start"
ShutdownStarts ==
  /\ timer => shuttingDown
  /\ pc[Handler] # "new" => shuttingDown
  /\ op[Handler] = "stop"

IInv ==
  /\ TypeOK
  /\ SoleOperation
  /\ NobodyWaitsInVain
  /\ InitializedWhenUp
  /\ ListenerBalance
  /\ InProcessHeld
  /\ StableWhenDone
  /\ InitializedWhenReady
  /\ ResumesInitialized
  /\ InnerInit
  /\ ShutdownStarts

(* What is true of a shutdown from the signal to the end of its finally    *)
(* block: its stop() runs in state stopping with the one registration that *)
(* the signal found, and once it has succeeded only a restart leaves state *)
(* stopped, which registers the listener a second time.                    *)
HandlerPoints == pc[Handler] \in {"new", "running", "asserted", "failed", "ok"}
HandlerRuns == shuttingDown => pc[Handler] # "new"
FinishesOnce ==
  /\ timer => ~finished
  /\ finished => pc[Handler] \in Settled
RestartRegisters ==
  alive /\ ~finished =>
    /\ pc[Handler] = "running" => state = "stopping" /\ listeners >= 1
    /\ pc[Handler] = "ok" =>
         listeners >= (IF state = "stopped" THEN 1 ELSE 2)

ShutdownInv == HandlerPoints /\ HandlerRuns /\ FinishesOnce /\ RestartRegisters

(* All of it is inductive together.                                        *)
IndInv == IInv /\ ShutdownInv

=============================================================================
