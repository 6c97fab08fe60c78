------------------------- MODULE ApplicationProofs -------------------------
(***************************************************************************)
(* Proofs about Application, for any set of calls.                         *)
(***************************************************************************)
EXTENDS Application, TLAPS

(* What the two tables of LifeCycleStates hold.                            *)
LEMMA Tables ==
  /\ Process["boot"] = "booting" /\ Process["init"] = "initializing"
  /\ Process["start"] = "starting" /\ Process["stop"] = "stopping"
  /\ Done["boot"] = "booted" /\ Done["init"] = "initialized"
  /\ Done["start"] = "started" /\ Done["stop"] = "stopped"
  /\ Operations = {"boot", "init", "start", "stop"}
  /\ States!InProcessStates =
       {"booting", "initializing", "starting", "stopping"}
  /\ States!States =
       {"booting", "initializing", "starting", "stopping",
        "created", "booted", "initialized", "started", "stopped"}
<1>1. /\ Process["boot"] = "booting" /\ Process["init"] = "initializing"
      /\ Process["start"] = "starting" /\ Process["stop"] = "stopping"
  BY DEF Process, States!Process
<1>2. /\ Done["boot"] = "booted" /\ Done["init"] = "initialized"
      /\ Done["start"] = "started" /\ Done["stop"] = "stopped"
  BY DEF Done, States!Done
<1>3. Operations = {"boot", "init", "start", "stop"}
  BY DEF Operations, States!Operations
<1>4. States!InProcessStates =
        {"booting", "initializing", "starting", "stopping"}
  BY <1>1, <1>3 DEF States!InProcessStates, Process, Operations
<1>5. States!StableStates =
        {"created", "booted", "initialized", "started", "stopped"}
  BY <1>2, <1>3 DEF States!StableStates, Done, Operations
<1>6. States!States =
        {"booting", "initializing", "starting", "stopping",
         "created", "booted", "initialized", "started", "stopped"}
  BY <1>4, <1>5 DEF States!States
<1> QED BY <1>1, <1>2, <1>3, <1>4, <1>6

(* Distinct operations have distinct in-process states, and no operation   *)
(* ends in a state in which another one is in process.                     *)
LEMMA ProcessStates ==
  /\ \A m \in Operations : Process[m] \in States!InProcessStates
  /\ \A m \in Operations : Done[m] \in States!States
  /\ \A m \in Operations : Done[m] \notin States!InProcessStates
  /\ \A m \in Operations : Done[m] # "created"
  /\ \A m, n \in Operations : Process[m] = Process[n] => m = n
  /\ States!InProcessStates \subseteq States!States
BY Tables

-----------------------------------------------------------------------------

(* The parts of the inductive invariant that are about the calls and the   *)
(* state only.                                                             *)
Core ==
  /\ SoleOperation
  /\ NobodyWaitsInVain
  /\ InitializedWhenUp
  /\ InProcessHeld
  /\ StableWhenDone
  /\ InitializedWhenReady
  /\ ResumesInitialized

(* The synchronous part of a method, executed by a call that is about to   *)
(* enter it, keeps the types of what it changes.                           *)
LEMMA EnterTypes ==
  ASSUME TypeOK, NEW t \in Tasks, NEW m \in Operations, NEW sh \in BOOLEAN,
         Enter(t, m, sh)
  PROVE  /\ state' \in States!States
         /\ listeners' \in Nat
         /\ body' \in [Tasks -> Operations]
         /\ pc' \in [Tasks -> Points]
<1>1. body' \in [Tasks -> Operations]
  BY DEF TypeOK, Enter
<1>2. pc' \in [Tasks -> Points]
  BY DEF TypeOK, Enter, Points, Settled
<1>3. state' \in States!States
  BY ProcessStates DEF TypeOK, Enter
<1>4. listeners' \in Nat
  <2>1. ListenersAtBegin(m, sh) \in Nat
    BY DEF ListenersAtBegin, TypeOK
  <2> QED BY <2>1 DEF TypeOK, Enter
<1> QED BY <1>1, <1>2, <1>3, <1>4

(* ... and the invariant about calls and state.  A call enters start() only *)
(* once the application is initialized.                                    *)
LEMMA EnterCore ==
  ASSUME TypeOK, Core, NEW t \in Tasks, NEW m \in Operations,
         NEW sh \in BOOLEAN, pc[t] \in {"new", "resume"},
         m = "start" => initialized,
         Enter(t, m, sh), UNCHANGED initialized
  PROVE  Core'
<1> USE DEF TypeOK
<1>1. body' = [body EXCEPT ![t] = m]
  BY DEF Enter
<1>2. body'[t] = m /\ \A u \in Tasks \ {t} : body'[u] = body[u]
  BY <1>1
<1>3. CASE /\ UNCHANGED state
           /\ \E p \in {"asserted", "ok"} : pc' = [pc EXCEPT ![t] = p]
  <2>1. PICK p \in {"asserted", "ok"} : pc' = [pc EXCEPT ![t] = p]
    BY <1>3
  <2>2. pc'[t] = p /\ \A u \in Tasks \ {t} : pc'[u] = pc[u]
    BY <2>1
  <2>3. \A u \in Tasks : Holds(u)' <=> Holds(u)
    BY <2>2 DEF Holds
  <2>4. \A u \in Tasks : Holds(u) => u # t
    BY DEF Holds
  <2>5. SoleOperation'
    BY <1>2, <1>3, <2>3, <2>4 DEF Core, SoleOperation
  <2>6. NobodyWaitsInVain'
    BY <1>2, <1>3, <2>2, <2>3, <2>4 DEF Core, NobodyWaitsInVain
  <2>7. InProcessHeld'
    BY <1>3, <2>3 DEF Core, InProcessHeld, InProcess
  <2> QED BY <1>3, <2>2, <2>5, <2>6, <2>7
      DEF Core, InitializedWhenUp, StableWhenDone, InitializedWhenReady,
          ResumesInitialized
<1>4. CASE /\ UNCHANGED state
           /\ Joins(m)
           /\ pc' = [pc EXCEPT ![t] = "awaiting"]
  <2>2. pc'[t] = "awaiting" /\ \A u \in Tasks \ {t} : pc'[u] = pc[u]
    BY <1>4
  <2>3. \A u \in Tasks : Holds(u)' <=> Holds(u)
    BY <2>2 DEF Holds
  <2>4. \A u \in Tasks : Holds(u) => u # t
    BY DEF Holds
  <2>5. SoleOperation'
    BY <1>2, <1>4, <2>3, <2>4 DEF Core, SoleOperation
  <2>6. PICK u \in Tasks : Holds(u) /\ body[u] = m
    <3>1. state = Process[m] /\ InProcess
      BY <1>4, ProcessStates DEF Joins, InProcess
    <3>2. PICK u \in Tasks : Holds(u)
      BY <3>1 DEF Core, InProcessHeld
    <3>3. body[u] = m
      BY <3>1, <3>2, ProcessStates DEF Core, SoleOperation
    <3> QED BY <3>2, <3>3
  <2>7. NobodyWaitsInVain'
    BY <1>2, <1>4, <2>2, <2>3, <2>4, <2>6
    DEF Core, NobodyWaitsInVain, Joins
  <2>8. InProcessHeld'
    BY <1>4, <2>3 DEF Core, InProcessHeld, InProcess
  <2> QED BY <1>4, <2>2, <2>5, <2>7, <2>8
      DEF Core, InitializedWhenUp, StableWhenDone, InitializedWhenReady,
          ResumesInitialized
<1>5. CASE /\ Begins(m)
           /\ pc' = [pc EXCEPT ![t] = "running"]
           /\ state' = Process[m]
  <2>1. pc'[t] = "running" /\ \A u \in Tasks \ {t} : pc'[u] = pc[u]
    BY <1>5
  <2>2. ~InProcess
    BY <1>5 DEF Begins, Joins, Throws, NoOp, ReturnsFirst
  <2>3. \A u \in Tasks : ~Holds(u)
    BY <2>2, ProcessStates DEF Core, SoleOperation, InProcess
  <2>4. \A u \in Tasks : pc[u] # "awaiting"
    BY <2>2, ProcessStates DEF Core, NobodyWaitsInVain, InProcess
  <2>5. Holds(t)' /\ \A u \in Tasks : Holds(u)' => u = t
    BY <2>1, <2>3 DEF Holds
  <2>6. SoleOperation'
    BY <1>2, <1>5, <2>5 DEF SoleOperation
  <2>7. NobodyWaitsInVain'
    BY <2>1, <2>4 DEF NobodyWaitsInVain
  <2>8. InProcessHeld'
    BY <2>5 DEF InProcessHeld
  <2>9. m \in {"start", "stop"} => initialized
    BY <1>5, <2>2 DEF Begins, NoOp, Core, InitializedWhenUp,
                     InitializedWhenReady
  <2>10. m \in {"boot", "init"} => ~initialized
    BY <1>5, <2>2, Tables
    DEF Begins, NoOp, Throws, ReturnsFirst, Core, StableWhenDone
  <2>11. InitializedWhenUp' /\ StableWhenDone' /\ InitializedWhenReady'
    BY <1>5, <2>9, <2>10, Tables
    DEF InitializedWhenUp, StableWhenDone, InitializedWhenReady
  <2>12. ResumesInitialized'
    BY <2>1 DEF Core, ResumesInitialized
  <2> QED BY <2>6, <2>7, <2>8, <2>11, <2>12 DEF Core
<1> QED BY <1>3, <1>4, <1>5 DEF Enter

(* The inductive invariant, with the part about calls and state as a whole. *)
LEMMA IInvCore ==
  IInv <=> TypeOK /\ Core /\ InnerInit /\ ListenerBalance /\ ShutdownStarts
BY DEF IInv, Core

(* The listener count over the synchronous part of a method.               *)
LEMMA EnterListeners ==
  ASSUME TypeOK, Core, ListenerBalance, NEW t \in Tasks,
         NEW m \in Operations, m = "start" => initialized,
         Enter(t, m, shuttingDown), UNCHANGED shuttingDown
  PROVE  ListenerBalance'
<1> SUFFICES ASSUME ~shuttingDown
             PROVE  listeners' = IF state' \in {"starting", "started"}
                                 THEN 1 ELSE 0
  BY DEF ListenerBalance
<1>1. listeners = IF state \in {"starting", "started"} THEN 1 ELSE 0
  BY DEF ListenerBalance
<1>2. CASE UNCHANGED <<state, listeners>>
  BY <1>1, <1>2
<1>3. CASE /\ Begins(m)
           /\ state' = Process[m]
           /\ listeners' = ListenersAtBegin(m, shuttingDown)
  <2>1. ~InProcess
    BY <1>3 DEF Begins, Joins, Throws, NoOp, ReturnsFirst
  <2>2. state # "starting"
    BY <2>1, Tables DEF InProcess
  <2>3. CASE m = "start"
    BY <1>1, <1>3, <2>2, <2>3, Tables DEF Begins, NoOp, ListenersAtBegin
  <2>4. CASE m = "stop"
    BY <1>1, <1>3, <2>2, <2>4, Tables DEF ListenersAtBegin
  <2>5. CASE m \in {"boot", "init"}
    <3>1. ~initialized
      BY <1>3, <2>1, <2>5, Tables
      DEF Begins, NoOp, Throws, ReturnsFirst, Core, StableWhenDone
    <3>2. state # "started"
      BY <3>1 DEF Core, InitializedWhenUp
    <3> QED BY <1>1, <1>3, <2>2, <2>5, <3>2, Tables DEF ListenersAtBegin
  <2> QED BY <2>3, <2>4, <2>5, Tables
<1> QED BY <1>2, <1>3 DEF Enter

(* The registry rejects, or an error event rejects whoever waits: some     *)
(* calls move to a settled point, and nobody leaves a hold.                *)
LEMMA SettleCore ==
  ASSUME TypeOK, Core, UNCHANGED <<state, initialized, body>>,
         \A u \in Tasks : Holds(u)' <=> Holds(u),
         \A u \in Tasks : pc'[u] = "awaiting" => pc[u] = "awaiting",
         \A u \in Tasks : pc'[u] = "resume" => pc[u] = "resume"
  PROVE  Core'
BY DEF Core, SoleOperation, NobodyWaitsInVain, InitializedWhenUp,
       InProcessHeld, InProcess, StableWhenDone, InitializedWhenReady,
       ResumesInitialized

(* An operation ends: its waiters are woken with it.                       *)
LEMMA CompleteCore ==
  ASSUME TypeOK, Core, InnerInit, NEW t \in Tasks, Complete(t)
  PROVE  Core'
<1> DEFINE m == body[t]
<1>1. /\ pc[t] = "running"
      /\ state' = Done[m]
      /\ initialized' = (initialized \/ m = "init")
      /\ pc' = [u \in Tasks |->
                  IF u = t \/ (pc[u] = "awaiting" /\ body[u] = m)
                  THEN After(u, m) ELSE pc[u]]
      /\ body' = body
  BY DEF Complete
<1>2. m \in Operations
  BY DEF TypeOK
<1>3. state = Process[m] /\ \A u \in Tasks : Holds(u) => u = t
  BY <1>1 DEF Core, SoleOperation, Holds
<1>4. \A u \in Tasks : pc[u] = "awaiting" => body[u] = m
  BY <1>2, <1>3, ProcessStates DEF Core, NobodyWaitsInVain, TypeOK
<1>5. \A u \in Tasks : pc'[u] \in {"ok", "resume"} \/ (u # t /\ pc'[u] = pc[u])
  BY <1>1 DEF After
<1>6. \A u \in Tasks : ~Holds(u)'
  BY <1>3, <1>5 DEF Holds
<1>7. \A u \in Tasks : pc'[u] # "awaiting"
  BY <1>1, <1>4 DEF After
<1>8. ~InProcess'
  BY <1>1, <1>2, ProcessStates DEF InProcess
<1>9. m = "start" \/ m = "stop" => initialized
  BY <1>3, Tables DEF Core, InitializedWhenUp
<1>10. initialized => m \notin {"boot", "init"}
  BY <1>3, Tables DEF Core, StableWhenDone
<1>11. \A u \in Tasks : pc'[u] = "resume" => initialized'
  <2> SUFFICES ASSUME NEW u \in Tasks, pc'[u] = "resume"
               PROVE  initialized'
    OBVIOUS
  <2>1. CASE pc[u] = "resume"
    BY <1>1, <2>1 DEF Core, ResumesInitialized
  <2>2. CASE pc[u] # "resume"
    <3>1. body[u] = m /\ op[u] # m
      BY <1>1, <2>2 DEF After
    <3>2. m = "init"
      BY <3>1 DEF InnerInit
    <3> QED BY <1>1, <3>2
  <2> QED BY <2>1, <2>2
<1>12. SoleOperation' /\ NobodyWaitsInVain' /\ InProcessHeld'
  BY <1>6, <1>7, <1>8 DEF SoleOperation, NobodyWaitsInVain, InProcessHeld
<1>13. InitializedWhenUp' /\ StableWhenDone' /\ InitializedWhenReady'
  BY <1>1, <1>2, <1>9, <1>10, Tables
  DEF InitializedWhenUp, StableWhenDone, InitializedWhenReady
<1>14. ResumesInitialized'
  BY <1>11 DEF ResumesInitialized
<1> QED BY <1>12, <1>13, <1>14 DEF Core

-----------------------------------------------------------------------------
(* The inductive invariant.                                                *)

(* Initially nothing runs, waits or is registered.                         *)
LEMMA InitIInv == Init => IInv
<1> SUFFICES ASSUME Init PROVE IInv
  OBVIOUS
<1>1. TypeOK
  BY Tables DEF Init, TypeOK, Points
<1>2. Core
  BY Tables DEF Init, Core, SoleOperation, NobodyWaitsInVain,
     InitializedWhenUp, InProcessHeld, InProcess, StableWhenDone,
     InitializedWhenReady, ResumesInitialized, Holds
<1>3. InnerInit /\ ListenerBalance /\ ShutdownStarts
  BY DEF Init, InnerInit, ListenerBalance, ShutdownStarts, Tasks
<1> QED BY <1>1, <1>2, <1>3, IInvCore

(* A caller enters boot, init, start or stop.                              *)
LEMMA CallStep ==
  ASSUME IInv, NEW c \in Calls, NEW m \in Operations, Call(c, m)
  PROVE  IInv'
<1> DEFINE n == IF m = "start" /\ ~initialized THEN "init" ELSE m
<1>1. /\ pc[c] = "new"
      /\ op' = [op EXCEPT ![c] = m]
      /\ Enter(c, n, shuttingDown)
      /\ UNCHANGED <<initialized, shuttingDown, timer, finished, alive>>
  BY DEF Call
<1>2. c \in Tasks /\ c # Handler /\ n \in Operations
  BY HandlerAssumption, Tables DEF Tasks
<1>3. TypeOK /\ Core /\ InnerInit /\ ListenerBalance /\ ShutdownStarts
  BY IInvCore
<1>4. n = "start" => initialized
  OBVIOUS
<1> HIDE DEF n
<1>5. TypeOK'
  <2>1. /\ state' \in States!States
        /\ listeners' \in Nat
        /\ body' \in [Tasks -> Operations]
        /\ pc' \in [Tasks -> Points]
    BY <1>1, <1>2, <1>3, EnterTypes DEF TypeOK
  <2> QED BY <1>1, <1>3, <2>1 DEF TypeOK
<1>6. Core'
  BY <1>1, <1>2, <1>3, <1>4, EnterCore DEF TypeOK
<1>7. ListenerBalance'
  BY <1>1, <1>2, <1>3, <1>4, EnterListeners
<1>8. /\ op'[c] = m /\ body'[c] = n /\ pc'[c] # "resume"
      /\ \A t \in Tasks \ {c} :
           op'[t] = op[t] /\ body'[t] = body[t] /\ pc'[t] = pc[t]
  BY <1>1, <1>2, <1>3 DEF Enter, TypeOK
<1>9. n = m \/ (n = "init" /\ m = "start")
  BY DEF n
<1>10. InnerInit'
  BY <1>3, <1>8, <1>9 DEF InnerInit
<1>11. ShutdownStarts'
  BY <1>1, <1>2, <1>3, <1>8 DEF ShutdownStarts, Tasks
<1> QED BY <1>5, <1>6, <1>7, <1>10, <1>11 DEF IInv, Core

(* start() goes on after its init().                                       *)
LEMMA ResumeStep ==
  ASSUME IInv, NEW c \in Calls, Resume(c)
  PROVE  IInv'
<1>1. /\ pc[c] = "resume"
      /\ Enter(c, "start", shuttingDown)
      /\ UNCHANGED <<initialized, shuttingDown, timer, finished, alive, op>>
  BY DEF Resume
<1>2. c \in Tasks /\ c # Handler /\ "start" \in Operations
  BY HandlerAssumption, Tables DEF Tasks
<1>3. TypeOK /\ Core /\ InnerInit /\ ListenerBalance /\ ShutdownStarts
  BY IInvCore
<1>4. initialized
  BY <1>1, <1>2, <1>3 DEF Core, ResumesInitialized
<1>5. TypeOK'
  <2>1. /\ state' \in States!States
        /\ listeners' \in Nat
        /\ body' \in [Tasks -> Operations]
        /\ pc' \in [Tasks -> Points]
    BY <1>1, <1>2, <1>3, EnterTypes DEF TypeOK
  <2> QED BY <1>1, <1>3, <2>1 DEF TypeOK
<1>6. Core'
  BY <1>1, <1>2, <1>3, <1>4, EnterCore DEF TypeOK
<1>7. ListenerBalance'
  BY <1>1, <1>2, <1>3, <1>4, EnterListeners
<1>8. /\ body'[c] = "start" /\ pc'[c] # "resume"
      /\ \A t \in Tasks \ {c} : body'[t] = body[t] /\ pc'[t] = pc[t]
  BY <1>1, <1>2, <1>3 DEF Enter, TypeOK
<1>9. InnerInit'
  BY <1>1, <1>2, <1>3, <1>8 DEF InnerInit
<1>10. ShutdownStarts'
  BY <1>1, <1>2, <1>3, <1>8 DEF ShutdownStarts, Tasks
<1> QED BY <1>5, <1>6, <1>7, <1>9, <1>10 DEF IInv, Core

(* The observers or the booters are done.                                  *)
LEMMA CompleteStep ==
  ASSUME IInv, NEW t \in Tasks, Complete(t)
  PROVE  IInv'
<1> DEFINE m == body[t]
<1>1. /\ pc[t] = "running"
      /\ state' = Done[m]
      /\ initialized' = (initialized \/ m = "init")
      /\ pc' = [u \in Tasks |->
                  IF u = t \/ (pc[u] = "awaiting" /\ body[u] = m)
                  THEN After(u, m) ELSE pc[u]]
      /\ UNCHANGED <<shuttingDown, listeners, timer, finished, alive, op, body>>
  BY DEF Complete
<1>2. TypeOK /\ Core /\ InnerInit /\ ListenerBalance /\ ShutdownStarts
  BY IInvCore
<1>3. m \in Operations
  BY <1>2 DEF TypeOK
<1>4. TypeOK'
  BY <1>1, <1>2, <1>3, ProcessStates DEF TypeOK, After, Points, Settled
<1>5. Core'
  BY <1>2, CompleteCore
<1>6. ListenerBalance'
  <2>1. state = Process[m]
    BY <1>1, <1>2 DEF Core, SoleOperation, Holds
  <2> QED BY <1>1, <1>2, <1>3, <2>1, Tables DEF ListenerBalance
<1>7. InnerInit'
  <2> SUFFICES ASSUME NEW u \in Tasks, pc'[u] = "resume"
               PROVE  op[u] = "start"
    BY <1>1, <1>2 DEF InnerInit
  <2>1. CASE pc[u] = "resume"
    BY <1>2, <2>1 DEF InnerInit
  <2>2. CASE pc[u] # "resume"
    BY <1>1, <1>2, <2>2 DEF InnerInit, After
  <2> QED BY <2>1, <2>2
<1>8. ShutdownStarts'
  BY <1>1, <1>2 DEF ShutdownStarts, Tasks
<1> QED BY <1>4, <1>5, <1>6, <1>7, <1>8 DEF IInv, Core

(* The observers or the booters reject.                                    *)
LEMMA FailStep ==
  ASSUME IInv, NEW t \in Tasks, Fail(t)
  PROVE  IInv'
<1>1. /\ pc[t] = "running"
      /\ pc' = [pc EXCEPT ![t] = "failed"]
      /\ UNCHANGED <<state, initialized, shuttingDown, listeners, timer,
                     finished, alive, op, body>>
  BY DEF Fail
<1>2. TypeOK /\ Core /\ InnerInit /\ ListenerBalance /\ ShutdownStarts
  BY IInvCore
<1>3. TypeOK'
  BY <1>1, <1>2 DEF TypeOK, Points, Settled
<1>4. \A u \in Tasks : pc'[u] = IF u = t THEN "failed" ELSE pc[u]
  BY <1>1, <1>2 DEF TypeOK
<1>5. Core'
  <2>1. \A u \in Tasks : Holds(u)' <=> Holds(u)
    BY <1>1, <1>4 DEF Holds
  <2> QED BY <1>1, <1>2, <1>4, <2>1, SettleCore
<1>6. InnerInit' /\ ListenerBalance' /\ ShutdownStarts'
  BY <1>1, <1>2, <1>4 DEF InnerInit, ListenerBalance, ShutdownStarts, Tasks
<1> QED BY <1>3, <1>5, <1>6 DEF IInv, Core

(* An error event rejects those who wait.                                  *)
LEMMA ErrorEventStep ==
  ASSUME IInv, ErrorEvent
  PROVE  IInv'
<1>1. /\ pc' = [t \in Tasks |->
                  IF pc[t] = "awaiting" THEN "rejected" ELSE pc[t]]
      /\ UNCHANGED <<state, initialized, shuttingDown, listeners, timer,
                     finished, alive, op, body>>
  BY DEF ErrorEvent
<1>2. TypeOK /\ Core /\ InnerInit /\ ListenerBalance /\ ShutdownStarts
  BY IInvCore
<1>3. TypeOK'
  BY <1>1, <1>2 DEF TypeOK, Points, Settled
<1>4. Core'
  <2>1. \A u \in Tasks : Holds(u)' <=> Holds(u)
    BY <1>1 DEF Holds
  <2> QED BY <1>1, <1>2, <2>1, SettleCore
<1>5. InnerInit' /\ ListenerBalance' /\ ShutdownStarts'
  BY <1>1, <1>2 DEF InnerInit, ListenerBalance, ShutdownStarts, Tasks
<1> QED BY <1>3, <1>4, <1>5 DEF IInv, Core

(* The signal listener calls stop().                                       *)
LEMMA SignalStep ==
  ASSUME IInv, Signal
  PROVE  IInv'
<1>1. /\ ~shuttingDown
      /\ shuttingDown' = TRUE
      /\ timer' = GracePeriod
      /\ Enter(Handler, "stop", TRUE)
      /\ UNCHANGED <<initialized, finished, alive, op>>
  BY DEF Signal
<1>2. TypeOK /\ Core /\ InnerInit /\ ListenerBalance /\ ShutdownStarts
  BY IInvCore
<1>3. Handler \in Tasks /\ "stop" \in Operations /\ pc[Handler] = "new"
  BY <1>1, <1>2, Tables DEF Tasks, ShutdownStarts
<1>4. TypeOK'
  <2>1. /\ state' \in States!States
        /\ listeners' \in Nat
        /\ body' \in [Tasks -> Operations]
        /\ pc' \in [Tasks -> Points]
    BY <1>1, <1>2, <1>3, EnterTypes
  <2> QED BY <1>1, <1>2, <2>1, FlagAssumption DEF TypeOK
<1>5. Core'
  BY <1>1, <1>2, <1>3, EnterCore
<1>6. /\ body'[Handler] = "stop" /\ pc'[Handler] # "resume"
      /\ \A t \in Tasks \ {Handler} :
           body'[t] = body[t] /\ pc'[t] = pc[t]
  BY <1>1, <1>2, <1>3 DEF Enter, TypeOK
<1>7. InnerInit'
  BY <1>1, <1>2, <1>3, <1>6 DEF InnerInit, ShutdownStarts
<1>8. ListenerBalance' /\ ShutdownStarts'
  BY <1>1, <1>2 DEF ListenerBalance, ShutdownStarts
<1> QED BY <1>4, <1>5, <1>7, <1>8 DEF IInv, Core

(* The two steps that kill the process happen during a shutdown only.      *)
LEMMA KillStep ==
  ASSUME IInv, shuttingDown, KillProcess, timer' = FALSE,
         finished' \in BOOLEAN,
         UNCHANGED <<state, initialized, shuttingDown, op, body, pc>>
  PROVE  IInv'
<1>1. TypeOK /\ Core /\ InnerInit /\ ListenerBalance /\ ShutdownStarts
  BY IInvCore
<1>2. listeners' \in Nat /\ alive' \in BOOLEAN
  BY <1>1 DEF KillProcess, TypeOK
<1>3. TypeOK'
  BY <1>1, <1>2 DEF TypeOK
<1>4. Core'
  <2>1. \A u \in Tasks : Holds(u)' <=> Holds(u)
    BY DEF Holds
  <2> QED BY <1>1, <2>1, SettleCore
<1>5. InnerInit' /\ ListenerBalance' /\ ShutdownStarts'
  BY <1>1 DEF InnerInit, ListenerBalance, ShutdownStarts
<1> QED BY <1>3, <1>4, <1>5 DEF IInv, Core

(* Every step preserves the inductive invariant.                           *)
LEMMA StepIInv == IInv /\ [Next]_vars => IInv'
<1> SUFFICES ASSUME IInv, [Next]_vars PROVE IInv'
  OBVIOUS
<1>1. ASSUME NEW c \in Calls, NEW m \in Operations, Call(c, m)
      PROVE  IInv'
  BY <1>1, CallStep
<1>2. ASSUME NEW c \in Calls, Resume(c) PROVE IInv'
  BY <1>2, ResumeStep
<1>3. ASSUME NEW t \in Tasks, Complete(t) PROVE IInv'
  BY <1>3, CompleteStep
<1>4. ASSUME NEW t \in Tasks, Fail(t) PROVE IInv'
  BY <1>4, FailStep
<1>5. CASE ErrorEvent
  BY <1>5, ErrorEventStep
<1>6. CASE Signal
  BY <1>6, SignalStep
<1>7. CASE FinishShutdown
  <2>1. shuttingDown
    BY <1>7 DEF FinishShutdown, ShutdownSettled, Settled, IInv, ShutdownStarts
  <2> QED BY <1>7, <2>1, KillStep DEF FinishShutdown
<1>8. CASE GraceExpires
  <2>1. shuttingDown
    BY <1>8 DEF GraceExpires, IInv, ShutdownStarts
  <2> QED BY <1>8, <2>1, KillStep DEF GraceExpires, IInv, TypeOK
<1>9. CASE UNCHANGED vars
  BY <1>9 DEF vars, IInv, TypeOK, SoleOperation, NobodyWaitsInVain,
     InitializedWhenUp, ListenerBalance, InProcessHeld, InProcess,
     StableWhenDone, InitializedWhenReady, ResumesInitialized, InnerInit,
     ShutdownStarts, Holds
<1> QED BY <1>1, <1>2, <1>3, <1>4, <1>5, <1>6, <1>7, <1>8, <1>9 DEF Next

-----------------------------------------------------------------------------
(* The refinement: a step of the callers is a step of LifeCycleStates, or  *)
(* leaves state and initialized alone.                                     *)

(* The synchronous part of a method begins its operation, or does nothing. *)
LEMMA EnterRefines ==
  ASSUME IInv, NEW t \in Tasks, NEW m \in Operations, NEW sh \in BOOLEAN,
         m = "start" => initialized,
         Enter(t, m, sh), UNCHANGED initialized
  PROVE  [States!Next]_<<state, initialized>>
<1>1. CASE UNCHANGED state
  BY <1>1
<1>2. CASE Begins(m) /\ state' = Process[m]
  <2>1. ~InProcess
    BY <1>2 DEF Begins, Joins, Throws, NoOp, ReturnsFirst
  <2>2. state \in {"created", "booted", "initialized", "started", "stopped"}
    BY <2>1, Tables DEF InProcess, IInv, TypeOK
  <2>3. States!MayBegin(m)
    BY <1>2, <2>1, <2>2, Tables
    DEF States!MayBegin, Begins, Throws, NoOp, ReturnsFirst, IInv,
        InitializedWhenUp, StableWhenDone, InitializedWhenReady
  <2>4. States!Begin(m)
    BY <1>2, <2>3 DEF States!Begin, Process
  <2>5. States!Next
    BY <2>4 DEF States!Next, Operations
  <2> QED BY <2>5
<1> QED BY <1>1, <1>2 DEF Enter

(* Every step is one of the life cycle, or leaves it alone.                *)
LEMMA StepRefines == IInv /\ [Next]_vars => [States!Next]_<<state, initialized>>
<1> SUFFICES ASSUME IInv, [Next]_vars
             PROVE  [States!Next]_<<state, initialized>>
  OBVIOUS
<1>1. ASSUME NEW c \in Calls, NEW m \in Operations, Call(c, m)
      PROVE  [States!Next]_<<state, initialized>>
  <2> DEFINE n == IF m = "start" /\ ~initialized THEN "init" ELSE m
  <2>1. c \in Tasks /\ n \in Operations /\ (n = "start" => initialized)
    BY Tables DEF Tasks
  <2>2. Enter(c, n, shuttingDown) /\ UNCHANGED initialized
    BY <1>1 DEF Call
  <2> HIDE DEF n
  <2> QED BY <2>1, <2>2, EnterRefines DEF IInv, TypeOK
<1>2. ASSUME NEW c \in Calls, Resume(c)
      PROVE  [States!Next]_<<state, initialized>>
  <2>1. c \in Tasks /\ "start" \in Operations
    BY Tables DEF Tasks
  <2>2. initialized
    BY <1>2, <2>1 DEF Resume, IInv, ResumesInitialized
  <2> QED BY <1>2, <2>1, <2>2, EnterRefines DEF Resume, IInv, TypeOK
<1>3. ASSUME NEW t \in Tasks, Complete(t)
      PROVE  [States!Next]_<<state, initialized>>
  <2>1. body[t] \in Operations
    BY DEF IInv, TypeOK
  <2>2. state = Process[body[t]]
    BY <1>3 DEF Complete, IInv, SoleOperation, Holds
  <2>3. States!End(body[t])
    BY <1>3, <2>2 DEF Complete, States!End, Process, Done
  <2> QED BY <2>1, <2>3 DEF States!Next, Operations
<1>4. ASSUME NEW t \in Tasks, Fail(t)
      PROVE  [States!Next]_<<state, initialized>>
  BY <1>4 DEF Fail
<1>5. CASE Signal
  <2>1. Handler \in Tasks /\ "stop" \in Operations
    BY Tables DEF Tasks
  <2> QED BY <1>5, <2>1, EnterRefines DEF Signal
<1>6. CASE ErrorEvent \/ FinishShutdown \/ GraceExpires \/ UNCHANGED vars
  BY <1>6 DEF ErrorEvent, FinishShutdown, GraceExpires, vars
<1> QED BY <1>1, <1>2, <1>3, <1>4, <1>5, <1>6 DEF Next

-----------------------------------------------------------------------------
(* The theorems.                                                           *)

(* The inductive invariant holds of every behaviour.                       *)
LEMMA SpecIInv == Spec => []IInv
BY InitIInv, StepIInv, PTL DEF Spec

(* Type correctness of the application, for any calls.                     *)
THEOREM TypeCorrect == Spec => []TypeOK
<1>1. IInv => TypeOK
  BY DEF IInv
<1> QED BY <1>1, SpecIInv, PTL

(* assertNotInProcess and the early returns keep operations apart.         *)
THEOREM OneOperationAtATime == Spec => []SoleOperation
<1>1. IInv => SoleOperation
  BY DEF IInv
<1> QED BY <1>1, SpecIInv, PTL

(* Whoever is in awaitState waits for an operation that is in process or   *)
(* has failed: no wake-up is ever missed.                                  *)
THEOREM NoMissedWakeUp == Spec => []NobodyWaitsInVain
<1>1. IInv => NobodyWaitsInVain
  BY DEF IInv
<1> QED BY <1>1, SpecIInv, PTL

(* Observers are started and stopped only after init() has been through.   *)
THEOREM InitComesFirst == Spec => []InitializedWhenUp
<1>1. IInv => InitializedWhenUp
  BY DEF IInv
<1> QED BY <1>1, SpecIInv, PTL

(* The signal listener is registered just while starting and started.      *)
THEOREM ListenersBalance == Spec => []ListenerBalance
<1>1. IInv => ListenerBalance
  BY DEF IInv
<1> QED BY <1>1, SpecIInv, PTL

(* The callers together keep the life cycle of LifeCycleStates: one        *)
(* operation at a time, one initialization, start and stop that alternate. *)
THEOREM KeepsLifeCycle == Spec => LifeCycle
<1>1. Init => States!Init
  BY DEF Init, States!Init
<1> QED BY <1>1, SpecIInv, StepRefines, PTL DEF Spec, LifeCycle, States!Spec

-----------------------------------------------------------------------------
(* The shutdown.                                                           *)

(* What a caller does synchronously during a shutdown leaves the account   *)
(* of the registrations right: only start() leaves state stopped, and it   *)
(* registers the listener.                                                 *)
LEMMA EnterShutdown ==
  ASSUME IInv, ShutdownInv, NEW c \in Calls, NEW m \in Operations,
         Enter(c, m, shuttingDown),
         UNCHANGED <<initialized, shuttingDown, timer, finished, alive>>
  PROVE  ShutdownInv'
<1>1. c \in Tasks /\ Handler \in Tasks /\ c # Handler
  BY HandlerAssumption DEF Tasks
<1>2. pc'[Handler] = pc[Handler]
  BY <1>1 DEF Enter, IInv, TypeOK
<1>3. HandlerPoints' /\ HandlerRuns' /\ FinishesOnce'
  BY <1>2 DEF ShutdownInv, HandlerPoints, HandlerRuns, FinishesOnce
<1>4. RestartRegisters'
  <2>1. SUFFICES ASSUME alive, ~finished, pc[Handler] \in {"running", "ok"}
                 PROVE  /\ pc[Handler] = "running" =>
                             state' = "stopping" /\ listeners' >= 1
                        /\ pc[Handler] = "ok" =>
                             listeners' >= (IF state' = "stopped" THEN 1 ELSE 2)
    BY <1>2 DEF RestartRegisters
  <2>2. /\ pc[Handler] = "running" => state = "stopping" /\ listeners >= 1
        /\ pc[Handler] = "ok" =>
             listeners >= (IF state = "stopped" THEN 1 ELSE 2)
    BY <2>1 DEF ShutdownInv, RestartRegisters
  <2>3. CASE UNCHANGED <<state, listeners>>
    BY <2>2, <2>3
  <2>4. CASE /\ Begins(m)
             /\ state' = Process[m]
             /\ listeners' = ListenersAtBegin(m, shuttingDown)
    <3>1. ~InProcess
      BY <2>4 DEF Begins, Joins, Throws, NoOp, ReturnsFirst
    <3>2. pc[Handler] = "ok"
      BY <2>1, <2>2, <3>1, Tables DEF InProcess
    <3>3. shuttingDown /\ listeners \in Nat
      BY <3>2 DEF IInv, ShutdownStarts, TypeOK
    <3>4. CASE state = "stopped"
      <4>1. initialized
        BY <3>4 DEF IInv, InitializedWhenUp
      <4>2. m = "start"
        BY <2>4, <3>1, <3>4, <4>1, Tables
        DEF Begins, Throws, NoOp, ReturnsFirst
      <4>3. listeners' = listeners + 1
        BY <2>4, <4>2 DEF ListenersAtBegin
      <4> QED BY <2>2, <3>2, <3>3, <3>4, <4>3
    <3>5. CASE state # "stopped"
      <4>1. listeners' >= listeners
        BY <2>4, <3>3 DEF ListenersAtBegin
      <4>2. listeners' \in Nat
        BY <2>4, <3>3 DEF ListenersAtBegin
      <4> QED BY <2>2, <3>2, <3>3, <3>5, <4>1, <4>2
    <3> QED BY <3>4, <3>5
  <2> QED BY <2>3, <2>4 DEF Enter
<1> QED BY <1>3, <1>4 DEF ShutdownInv

(* The signal finds one registration, and the application starting or      *)
(* started: its stop() is rejected at once, or begins.                     *)
LEMMA SignalShutdown ==
  ASSUME IInv, ShutdownInv, Signal
  PROVE  ShutdownInv'
<1>1. /\ listeners > 0 /\ ~shuttingDown /\ shuttingDown'
      /\ Enter(Handler, "stop", TRUE)
      /\ UNCHANGED <<initialized, finished, alive, op>>
  BY DEF Signal
<1>2. listeners = 1 /\ state \in {"starting", "started"}
  BY <1>1 DEF IInv, ListenerBalance
<1>3. pc[Handler] = "new" /\ ~finished
  BY <1>1 DEF IInv, ShutdownStarts, ShutdownInv, FinishesOnce, Settled
<1>4. Handler \in Tasks /\ pc \in [Tasks -> Points]
  BY DEF Tasks, IInv, TypeOK
<1>5. ~Joins("stop") /\ ~NoOp("stop")
  BY <1>2, Tables DEF Joins, NoOp, ReturnsFirst, InProcess
<1>6. \/ pc'[Handler] = "asserted"
      \/ /\ pc'[Handler] = "running"
         /\ state' = "stopping"
         /\ listeners' = 1
  BY <1>2, <1>4, <1>5, Tables DEF Enter, Signal, ListenersAtBegin
<1> QED BY <1>1, <1>3, <1>6
    DEF ShutdownInv, HandlerPoints, HandlerRuns, FinishesOnce,
        RestartRegisters, Settled

(* An operation ends: the handler's stop() in state stopped, and after it  *)
(* only operations that a restart has led to.                              *)
LEMMA CompleteShutdown ==
  ASSUME IInv, ShutdownInv, NEW t \in Tasks, Complete(t)
  PROVE  ShutdownInv'
<1>1. Handler \in Tasks /\ op[Handler] = "stop" /\ body[Handler] = "stop"
  BY DEF Tasks, IInv, ShutdownStarts, InnerInit
<1>2. /\ pc[t] = "running"
      /\ state' = Done[body[t]]
      /\ UNCHANGED <<shuttingDown, listeners, timer, finished, alive, body>>
  BY DEF Complete
<1>3. /\ body[t] \in Operations
      /\ state = Process[body[t]]
      /\ \A u \in Tasks : Holds(u) => u = t
  BY <1>2 DEF IInv, TypeOK, SoleOperation, Holds
<1>4. state # "stopped"
  BY <1>3, Tables
<1>5. CASE t = Handler
  <2>1. pc'[Handler] = "ok" /\ state' = "stopped"
    BY <1>1, <1>2, <1>5, Tables DEF Complete, After
  <2>2. pc[Handler] = "running"
    BY <1>2, <1>5
  <2> QED BY <1>2, <2>1, <2>2
      DEF ShutdownInv, HandlerPoints, HandlerRuns, FinishesOnce,
          RestartRegisters, Settled
<1>6. CASE t # Handler
  <2>1. pc[Handler] # "running"
    BY <1>1, <1>3, <1>6 DEF Holds
  <2>2. pc[Handler] # "awaiting"
    BY DEF ShutdownInv, HandlerPoints
  <2>3. pc'[Handler] = pc[Handler]
    BY <1>1, <1>6, <2>2 DEF Complete
  <2>4. RestartRegisters'
    BY <1>2, <1>4, <2>1, <2>3 DEF ShutdownInv, RestartRegisters, IInv, TypeOK
  <2> QED BY <1>2, <2>3, <2>4
      DEF ShutdownInv, HandlerPoints, HandlerRuns, FinishesOnce
<1> QED BY <1>5, <1>6

(* Every step keeps the account of the shutdown.                           *)
LEMMA StepShutdown ==
  IInv /\ ShutdownInv /\ [Next]_vars => ShutdownInv'
<1> SUFFICES ASSUME IInv, ShutdownInv, [Next]_vars
             PROVE  ShutdownInv'
  OBVIOUS
<1> USE DEF ShutdownInv, HandlerPoints, HandlerRuns, FinishesOnce,
            RestartRegisters, Settled
<1>1. ASSUME NEW c \in Calls, NEW m \in Operations, Call(c, m)
      PROVE  ShutdownInv'
  <2> DEFINE n == IF m = "start" /\ ~initialized THEN "init" ELSE m
  <2>1. n \in Operations
    BY Tables
  <2>2. /\ Enter(c, n, shuttingDown)
        /\ UNCHANGED <<initialized, shuttingDown, timer, finished, alive>>
    BY <1>1 DEF Call
  <2> HIDE DEF n
  <2> QED BY <2>1, <2>2, EnterShutdown
<1>2. ASSUME NEW c \in Calls, Resume(c)
      PROVE  ShutdownInv'
  BY <1>2, EnterShutdown, Tables DEF Resume
<1>3. ASSUME NEW t \in Tasks, Complete(t)
      PROVE  ShutdownInv'
  BY <1>3, CompleteShutdown
<1>4. ASSUME NEW t \in Tasks, Fail(t)
      PROVE  ShutdownInv'
  <2>1. pc'[Handler] = IF t = Handler THEN "failed" ELSE pc[Handler]
    BY <1>4 DEF Fail, IInv, TypeOK, Tasks
  <2>2. UNCHANGED <<state, shuttingDown, listeners, timer, finished, alive>>
    BY <1>4 DEF Fail
  <2>3. t = Handler => pc[Handler] = "running"
    BY <1>4 DEF Fail
  <2> QED BY <2>1, <2>2, <2>3
<1>5. CASE ErrorEvent
  <2>1. pc'[Handler] = pc[Handler]
    BY <1>5 DEF ErrorEvent, Tasks
  <2> QED BY <1>5, <2>1 DEF ErrorEvent
<1>6. CASE Signal
  BY <1>6, SignalShutdown
<1>7. CASE FinishShutdown
  BY <1>7 DEF FinishShutdown, ShutdownSettled
<1>8. CASE GraceExpires
  <2>1. pc[Handler] # "ok"
    BY <1>8 DEF GraceExpires, Quiet, ShutdownSettled
  <2>2. alive' => listeners' > 0
    BY <1>8 DEF GraceExpires, KillProcess, IInv, TypeOK
  <2>3. UNCHANGED <<state, shuttingDown, finished, pc>> /\ ~timer'
    BY <1>8 DEF GraceExpires
  <2>4. alive' => alive
    BY <1>8 DEF GraceExpires
  <2>5. listeners' \in Nat
    BY <1>8 DEF GraceExpires, KillProcess, IInv, TypeOK
  <2> QED BY <2>1, <2>2, <2>3, <2>4, <2>5
<1>9. CASE UNCHANGED vars
  BY <1>9 DEF vars
<1> QED BY <1>1, <1>2, <1>3, <1>4, <1>5, <1>6, <1>7, <1>8, <1>9 DEF Next

(* The two invariants are inductive together.                              *)
THEOREM Inductive == Spec => []IndInv
<1>1. Init => ShutdownInv
  BY DEF Init, ShutdownInv, HandlerPoints, HandlerRuns, FinishesOnce,
         RestartRegisters, Tasks
<1>2. IndInv /\ [Next]_vars => IndInv'
  BY StepIInv, StepShutdown DEF IndInv
<1>3. Init => IndInv
  BY <1>1, InitIInv DEF IndInv
<1> QED BY <1>2, <1>3, PTL DEF Spec

(* A shutdown whose stop() succeeded kills the process in state stopped    *)
(* only: a restart has registered the listener again, and the signal that  *)
(* kill() sends is caught.                                                 *)
THEOREM NoRestartIsKilled == Spec => NoKillAfterRestart
<1>1. ASSUME IndInv, [Next]_vars, alive, ~alive', pc[Handler] = "ok"
      PROVE  state = "stopped"
  <2>1. FinishShutdown \/ GraceExpires
    BY <1>1 DEF Next, Call, Resume, Complete, Fail, ErrorEvent, Signal, vars
  <2>2. ~GraceExpires
    BY <1>1 DEF GraceExpires, Quiet, ShutdownSettled, Settled, IndInv,
                ShutdownInv, FinishesOnce
  <2>3. FinishShutdown
    BY <2>1, <2>2
  <2>4. ~finished /\ listeners <= 1
    <3>1. listeners \in Nat
      BY <1>1 DEF IndInv, IInv, TypeOK
    <3>2. ~finished /\ KillProcess
      BY <2>3 DEF FinishShutdown, ShutdownSettled
    <3>3. ~((IF listeners > 0 THEN listeners - 1 ELSE 0) > 0)
      BY <1>1, <3>2 DEF KillProcess
    <3> QED BY <3>1, <3>2, <3>3
  <2> QED BY <1>1, <2>4 DEF IndInv, IInv, TypeOK, ShutdownInv,
                           RestartRegisters
<1>2. IndInv /\ [Next]_vars =>
        [alive /\ ~alive' /\ pc[Handler] = "ok" => state = "stopped"]_vars
  BY <1>1
<1> QED BY <1>2, Inductive, PTL DEF Spec, NoKillAfterRestart

=============================================================================
