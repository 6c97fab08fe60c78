-------------------------- MODULE ResolutionProofs --------------------------
(***************************************************************************)
(* Proofs about BindingResolution, for every hierarchy of contexts, any    *)
(* bindings with any dependencies, and any number of calls and resets, and *)
(* about DecoratorFactories, which keep the metadata that say what the     *)
(* classes that are bound depend on: for chains of any length, any members *)
(* and fields, and any number of decorators.                               *)
(***************************************************************************)
EXTENDS BindingResolution, MetadataPromise, SequenceLemmas

CONSTANTS Fields, MaxApplied   \* Factories

VARIABLES index                \* Factories

Factories == INSTANCE DecoratorFactories

(*-------------------------------------------------------------------------*)
(* BindingResolution                                                       *)
(*-------------------------------------------------------------------------*)

(* What a task is to resolve is what its context sees, and what its        *)
(* factory depends on.                                                     *)
LooksUp(t) ==
  \A h \in 1..Len(t.left) :
    t.left[h] # NULL =>
      /\ Owner[t.left[h]] = OwnerContext(t.ctx, Key[t.left[h]])
      /\ t.binding # NULL => Key[t.left[h]] \in DepKeys(Key[t.binding])

(* Singletons are calculated where they are bound, and everything where    *)
(* its owner can be seen.                                                  *)
Placed(t) ==
  t.binding # NULL =>
    /\ Scope[t.binding] = "singleton" => t.ctx = Owner[t.binding]
    /\ Owner[t.binding] \in Visible[t.ctx]

(* The keys that key k depends on, directly or not.                        *)
Reach ==
  [k \in Keys |->
     {m \in Keys : \A S \in SUBSET Keys : DepKeys(k) \subseteq S /\ Closed(S) => m \in S}]

(* The stack of a factory is a path of dependencies to its binding.        *)
OnPath(t) ==
  \A q \in ToSet(t.path) :
    /\ t.binding # NULL
    /\ q = t.binding \/ Key[t.binding] \in Reach[Key[q]]

WellFormed == \A i \in 1..Len(tasks) : LooksUp(tasks[i]) /\ Placed(tasks[i]) /\ OnPath(tasks[i])

Calculates(i, b, c) == tasks[i].binding = b /\ tasks[i].ctx = c

(* The newest calculation of a value is the one in the cache, unless the   *)
(* value has been reset since, ...                                         *)
Latest ==
  \A i \in 1..Len(tasks), b \in Bindings, c \in Contexts :
    Calculates(i, b, c) /\ Scope[b] # "transient" =>
      /\ tasks[i].generation <= generation[b][c]
      /\ tasks[i].generation = generation[b][c] => cache[b][c] = i

(* ... and there was only one between two resets.                          *)
OneEach ==
  \A i, j \in 1..Len(tasks), b \in Bindings, c \in Contexts :
    /\ i # j /\ Calculates(i, b, c) /\ Calculates(j, b, c)
    /\ Scope[b] # "transient"
    => tasks[i].generation # tasks[j].generation

NoTransients ==
  \A b \in Bindings, c \in Contexts : Scope[b] = "transient" => cache[b][c] = 0

(* A task that awaits is not through with what it needs, and awaits a      *)
(* factory whose context it sees.                                          *)
Awaiting ==
  \A i \in 1..Len(tasks) :
    LET j == tasks[i].awaits IN
    j # 0 => /\ tasks[i].left # <<>>
             /\ tasks[j].binding # NULL
             /\ tasks[j].ctx \in Visible[tasks[i].ctx]

IInv == /\ TypeOK /\ WellFormed /\ Latest /\ OneEach /\ NoTransients
        /\ CacheCurrent /\ Awaiting /\ OnlyRealCycles

-----------------------------------------------------------------------------
(***************************************************************************)
(* Contexts.                                                               *)
(***************************************************************************)

(* Every context sees itself, and contexts.                                *)
LEMMA SeesItself ==
  ASSUME NEW c \in Contexts
  PROVE  c \in Visible[c] /\ Visible[c] \subseteq Contexts
<1>1. Chain[c] \in Seq(Contexts) /\ Chain[c] # <<>> /\ Head(Chain[c]) = c
  BY ContextAssumption
<1>2. 1 \in DOMAIN Chain[c] /\ Chain[c][1] = c
  BY <1>1
<1>3. Visible[c] = ToSet(Chain[c])
  BY DEF Visible
<1> QED BY <1>1, <1>2, <1>3 DEF ToSet

(* The nearest context of a set is in it, and can be seen.                 *)
LEMMA NearestIsSeen ==
  ASSUME NEW c \in Contexts, NEW S, Nearest(c, S) # NULL
  PROVE  Nearest(c, S) \in S \cap Visible[c]
<1> DEFINE I == {i \in 1..Len(Chain[c]) : Chain[c][i] \in S}
<1>1. I # {} /\ Nearest(c, S) = Chain[c][Min(I)]
  BY DEF Nearest
<1>2. PICK k \in I : \A j \in I : k <= j
  <2>1. I \subseteq Nat
    OBVIOUS
  <2> QED BY <1>1, <2>1, LeastOf
<1>3. Min(I) \in I
  BY <1>2 DEF Min
<1>4. Chain[c] \in Seq(Contexts)
  BY ContextAssumption
<1>5. Visible[c] = ToSet(Chain[c])
  BY DEF Visible
<1> DEFINE m == Min(I)
<1>6. m \in 1..Len(Chain[c]) /\ Chain[c][m] \in S /\ Nearest(c, S) = Chain[c][m]
  BY <1>1, <1>3
<1> HIDE DEF m
<1> QED BY <1>4, <1>5, <1>6 DEF ToSet

(* getBinding finds the binding of the key in the nearest context that has *)
(* one.                                                                    *)
LEMMA LookupFinds ==
  ASSUME NEW c \in Contexts, NEW k, Lookup(c, k) # NULL
  PROVE  /\ Lookup(c, k) \in Bindings
         /\ Owner[Lookup(c, k)] = OwnerContext(c, k)
         /\ Key[Lookup(c, k)] = k
<1>1. OwnerContext(c, k) # NULL
  BY DEF Lookup
<1>2. OwnerContext(c, k) \in {d \in Contexts : Binds(d, k)}
  BY <1>1, NearestIsSeen DEF OwnerContext
<1>3. \E b \in Bindings : Owner[b] = OwnerContext(c, k) /\ Key[b] = k
  BY <1>2 DEF Binds
<1>4. Lookup(c, k) = CHOOSE b \in Bindings : Owner[b] = OwnerContext(c, k) /\ Key[b] = k
  BY <1>1 DEF Lookup
<1> QED BY <1>3, <1>4

(* getResolutionContext: a context that is seen, and that sees the owner;  *)
(* for a singleton, the owner.                                             *)
LEMMA PlaceIsSeen ==
  ASSUME NEW c \in Contexts, NEW b \in Bindings, CheckedContext[c][b] # NULL
  PROVE  /\ CheckedContext[c][b] \in Visible[c]
         /\ CheckedContext[c][b] \in Contexts
         /\ OwnerContext(c, Key[b]) \in Visible[CheckedContext[c][b]]
         /\ Scope[b] = "singleton" => CheckedContext[c][b] = OwnerContext(c, Key[b])
<1> DEFINE r == ResolutionContext(c, b)
<1>1. CheckedContext[c][b] = IF r = NULL THEN NULL
                             ELSE IF OwnerContext(c, Key[b]) \in Visible[r] THEN r ELSE NULL
  BY DEF CheckedContext
<1>2. /\ r # NULL /\ CheckedContext[c][b] = r
      /\ OwnerContext(c, Key[b]) \in Visible[r]
  <2> HIDE DEF r
  <2> QED BY <1>1
<1>3. r \in Visible[c]
  <2>1. CASE r = OwnerContext(c, Key[b])
    BY <1>2, <2>1, NearestIsSeen DEF OwnerContext
  <2>2. CASE r = c
    BY <2>2, SeesItself
  <2>3. CASE r = ScopedContext(c, "request") \/ r = ScopedContext(c, Scope[b])
    BY <1>2, <2>3, NearestIsSeen DEF ScopedContext
  <2> QED BY <2>1, <2>2, <2>3 DEF ResolutionContext
<1>4. Scope[b] = "singleton" => r = OwnerContext(c, Key[b])
  BY DEF ResolutionContext
<1> QED BY <1>2, <1>3, <1>4, SeesItself

-----------------------------------------------------------------------------
(***************************************************************************)
(* Dependencies.                                                           *)
(***************************************************************************)

LEMMA KeysOfBindings ==
  ASSUME NEW b \in Bindings
  PROVE  /\ Key[b] \in Keys
         /\ Deps[b] \in Seq(Keys)
         /\ \A k \in 1..Len(Deps[b]) : Deps[b][k] \in DepKeys(Key[b])
<1>1. Deps[b] \in Seq(Keys)
  BY BindingAssumption
<1>2. Key[b] \in Keys
  BY DEF Keys
<1>3. ToSet(Deps[b]) \subseteq DepKeys(Key[b])
  BY DEF DepKeys
<1> QED BY <1>1, <1>2, <1>3 DEF ToSet

(* A path of dependencies that leads to a, and on to b.                    *)
LEMMA ReachExtends ==
  ASSUME NEW q \in Bindings, NEW a \in Bindings, NEW b \in Bindings,
         q = a \/ Key[a] \in Reach[Key[q]],
         Key[b] \in DepKeys(Key[a])
  PROVE  Key[b] \in Reach[Key[q]]
<1>1. Key[q] \in Keys /\ Key[b] \in Keys
  BY KeysOfBindings
<1>2. Reach[Key[q]] =
        {m \in Keys : \A S \in SUBSET Keys : DepKeys(Key[q]) \subseteq S /\ Closed(S) => m \in S}
  BY <1>1 DEF Reach
<1>3. ASSUME NEW S \in SUBSET Keys, DepKeys(Key[q]) \subseteq S, Closed(S)
      PROVE  Key[b] \in S
  <2>1. CASE q = a
    BY <2>1, <1>3
  <2>2. CASE Key[a] \in Reach[Key[q]]
    <3>1. Key[a] \in S
      BY <2>2, <1>2, <1>3
    <3> QED BY <3>1, <1>3 DEF Closed
  <2> QED BY <2>1, <2>2
<1> QED BY <1>1, <1>2, <1>3

-----------------------------------------------------------------------------
(***************************************************************************)
(* What a step does to a task.                                             *)
(***************************************************************************)

(* u is the task t later on: it may have resolved a dependency.            *)
Later(u, t) ==
  /\ u.binding = t.binding /\ u.ctx = t.ctx
  /\ u.generation = t.generation /\ u.path = t.path
  /\ u.left = t.left \/ (t.left # <<>> /\ u.left = Tail(t.left))

LEMMA LaterWellFormed ==
  ASSUME NEW t \in TaskType, NEW u \in TaskType, Later(u, t),
         LooksUp(t), Placed(t), OnPath(t)
  PROVE  LooksUp(u) /\ Placed(u) /\ OnPath(u)
<1>1. Placed(u) /\ OnPath(u)
  BY DEF Later, Placed, OnPath
<1>2. LooksUp(u)
  <2>1. CASE u.left = t.left
    BY <2>1 DEF Later, LooksUp
  <2>2. CASE t.left # <<>> /\ u.left = Tail(t.left)
    <3>1. t.left \in Seq(Bindings \cup {NULL})
      BY DEF TaskType
    <3>2. ASSUME NEW h \in 1..Len(u.left)
          PROVE  h + 1 \in 1..Len(t.left) /\ u.left[h] = t.left[h + 1]
      BY <2>2, <3>1
    <3> QED BY <3>2 DEF Later, LooksUp
  <2> QED BY <2>1, <2>2 DEF Later
<1> QED BY <1>1, <1>2

(* Task i goes on, and nothing else happens.                               *)
GoesOn(i, u) ==
  /\ i \in 1..Len(tasks) /\ u \in TaskType
  /\ Later(u, tasks[i])
  /\ tasks' = [tasks EXCEPT ![i] = u]
  /\ u.awaits \in 0..Len(tasks)
  /\ u.awaits # 0 => /\ u.left # <<>>
                     /\ tasks[u.awaits].binding # NULL
                     /\ tasks[u.awaits].ctx \in Visible[tasks[i].ctx]
  /\ u.at = "circular" => Key[Head(u.left)] \in DependOnThemselves
  /\ UNCHANGED <<cache, generation, requests, resets>>

LEMMA TaskGoesOn ==
  ASSUME IInv, NEW i, NEW u, GoesOn(i, u)
  PROVE  IInv'
<1>1. /\ tasks \in Seq(TaskType) /\ tasks' \in Seq(TaskType)
      /\ Len(tasks') = Len(tasks) /\ Len(tasks) \in Nat
      /\ DOMAIN tasks = 1..Len(tasks) /\ DOMAIN tasks' = 1..Len(tasks)
  BY DEF IInv, TypeOK, GoesOn
<1>2. \A j \in 1..Len(tasks) : tasks[j] \in TaskType /\ tasks'[j] \in TaskType
  BY <1>1
<1>3. \A j \in 1..Len(tasks) : tasks'[j] = IF j = i THEN u ELSE tasks[j]
  BY <1>1 DEF GoesOn
<1>4. \A j \in 1..Len(tasks) : Later(tasks'[j], tasks[j])
  <2>1. \A t : Later(t, t)
    BY DEF Later
  <2>2. Later(u, tasks[i])
    BY DEF GoesOn
  <2> QED BY <1>3, <2>1, <2>2
<1>5. \A j \in 1..Len(tasks) :
        /\ tasks'[j].binding = tasks[j].binding /\ tasks'[j].ctx = tasks[j].ctx
        /\ tasks'[j].generation = tasks[j].generation
  BY <1>4 DEF Later
<1>6. cache' = cache /\ generation' = generation /\ requests' = requests /\ resets' = resets
  BY DEF GoesOn
<1>7. cache \in [Bindings -> [Contexts -> 0..Len(tasks)]]
  BY DEF IInv, TypeOK
<1>8. TypeOK'
  <2>1. \A j \in 1..Len(tasks) : tasks'[j].awaits \in 0..Len(tasks)
    BY <1>3 DEF IInv, TypeOK, GoesOn
  <2> QED BY <1>1, <1>6, <2>1 DEF IInv, TypeOK
<1>9. WellFormed'
  BY <1>1, <1>2, <1>4, LaterWellFormed DEF IInv, WellFormed
<1>10. Latest'
  BY <1>1, <1>5, <1>6 DEF IInv, Latest, Calculates
<1>11. OneEach'
  BY <1>1, <1>5 DEF IInv, OneEach, Calculates
<1>12. NoTransients'
  BY <1>6 DEF IInv, NoTransients
<1>13. CacheCurrent'
  BY <1>1, <1>5, <1>6, <1>7 DEF IInv, CacheCurrent
<1>14. Awaiting'
  <2>1. ASSUME NEW j \in 1..Len(tasks), tasks'[j].awaits # 0
        PROVE  /\ tasks'[j].awaits \in 1..Len(tasks)
               /\ tasks'[j].left # <<>>
               /\ tasks[tasks'[j].awaits].binding # NULL
               /\ tasks[tasks'[j].awaits].ctx \in Visible[tasks[j].ctx]
    BY <1>1, <1>3, <2>1 DEF IInv, Awaiting, TypeOK, GoesOn
  <2> QED BY <1>1, <1>5, <2>1 DEF Awaiting
<1>15. OnlyRealCycles'
  BY <1>1, <1>3 DEF IInv, OnlyRealCycles, GoesOn
<1> QED BY <1>8, <1>9, <1>10, <1>11, <1>12, <1>13, <1>14, <1>15 DEF IInv

(* The binding that task i wants is one that its context sees.             *)
LEMMA WantsWhatItSees ==
  ASSUME IInv, NEW i \in 1..Len(tasks), Resolves(i), Place(i) # NULL
  PROVE  /\ tasks[i] \in TaskType /\ tasks[i].ctx \in Contexts
         /\ Wants(i) \in Bindings
         /\ Place(i) = CheckedContext[tasks[i].ctx][Wants(i)]
         /\ Place(i) \in Contexts
         /\ Place(i) \in Visible[tasks[i].ctx]
         /\ Owner[Wants(i)] \in Visible[Place(i)]
         /\ Scope[Wants(i)] = "singleton" => Place(i) = Owner[Wants(i)]
         /\ tasks[i].binding # NULL => Key[Wants(i)] \in DepKeys(Key[tasks[i].binding])
<1>1. tasks[i] \in TaskType
  BY DEF IInv, TypeOK
<1>2. tasks[i].ctx \in Contexts /\ tasks[i].left \in Seq(Bindings \cup {NULL})
  BY <1>1 DEF TaskType
<1>3. 1 \in 1..Len(tasks[i].left) /\ Wants(i) = tasks[i].left[1]
  BY <1>2 DEF Resolves, Wants
<1>4. Wants(i) # NULL /\ Place(i) = CheckedContext[tasks[i].ctx][Wants(i)]
  BY DEF Place
<1>5. Wants(i) \in Bindings
  BY <1>2, <1>3, <1>4
<1>6. LooksUp(tasks[i])
  BY DEF IInv, WellFormed
<1>7. /\ Owner[Wants(i)] = OwnerContext(tasks[i].ctx, Key[Wants(i)])
      /\ tasks[i].binding # NULL => Key[Wants(i)] \in DepKeys(Key[tasks[i].binding])
  BY <1>3, <1>4, <1>6 DEF LooksUp
<1>8. /\ Place(i) \in Visible[tasks[i].ctx]
      /\ Place(i) \in Contexts
      /\ OwnerContext(tasks[i].ctx, Key[Wants(i)]) \in Visible[Place(i)]
      /\ Scope[Wants(i)] = "singleton" =>
           Place(i) = OwnerContext(tasks[i].ctx, Key[Wants(i)])
  BY <1>2, <1>4, <1>5, PlaceIsSeen
<1> QED BY <1>1, <1>2, <1>4, <1>5, <1>7, <1>8

(* A binding on the stack of task i leads to what it wants.                *)
LEMMA StackLeadsOn ==
  ASSUME IInv, NEW i \in 1..Len(tasks), Resolves(i), Place(i) # NULL,
         NEW q \in ToSet(tasks[i].path)
  PROVE  q \in Bindings /\ Key[Wants(i)] \in Reach[Key[q]]
<1>1. /\ tasks[i] \in TaskType
      /\ Wants(i) \in Bindings
      /\ tasks[i].binding # NULL => Key[Wants(i)] \in DepKeys(Key[tasks[i].binding])
  BY WantsWhatItSees
<1>2. OnPath(tasks[i])
  BY DEF IInv, WellFormed
<1>3. /\ tasks[i].binding # NULL
      /\ q = tasks[i].binding \/ Key[tasks[i].binding] \in Reach[Key[q]]
  BY <1>2 DEF OnPath
<1>4. tasks[i].binding \in Bindings /\ q \in Bindings
  BY <1>1, <1>3 DEF TaskType, ToSet
<1> QED BY <1>1, <1>3, <1>4, ReachExtends

-----------------------------------------------------------------------------
(***************************************************************************)
(* The steps.                                                              *)
(***************************************************************************)

(* Task i ends, with an outcome.                                           *)
LEMMA RejectsGoesOn ==
  ASSUME IInv, NEW i \in 1..Len(tasks), NEW why \in Outcomes, Rejects(i, why),
         UNCHANGED <<cache, generation, requests, resets>>,
         why = "circular" => Key[Wants(i)] \in DependOnThemselves
  PROVE  IInv'
<1> DEFINE u == [tasks[i] EXCEPT !.at = why]
<1>1. tasks[i] \in TaskType /\ tasks[i].awaits \in 0..Len(tasks)
  BY DEF IInv, TypeOK
<1>2. /\ u \in TaskType
      /\ u.binding = tasks[i].binding /\ u.ctx = tasks[i].ctx
      /\ u.generation = tasks[i].generation /\ u.path = tasks[i].path
      /\ u.left = tasks[i].left /\ u.awaits = tasks[i].awaits /\ u.at = why
  BY <1>1 DEF TaskType, Outcomes
<1>3. tasks' = [tasks EXCEPT ![i] = u]
  BY DEF Rejects
<1> HIDE DEF u
<1>4. tasks[i].awaits # 0 => /\ tasks[i].left # <<>>
                            /\ tasks[tasks[i].awaits].binding # NULL
                            /\ tasks[tasks[i].awaits].ctx \in Visible[tasks[i].ctx]
  BY DEF IInv, Awaiting
<1>5. Later(u, tasks[i])
  BY <1>2 DEF Later
<1>6. GoesOn(i, u)
  BY <1>1, <1>2, <1>3, <1>4, <1>5 DEF GoesOn, Wants
<1> QED BY <1>6, TaskGoesOn

LEMMA ResolveInVainKeeps ==
  ASSUME IInv, NEW i \in 1..Len(tasks), ResolveInVain(i)
  PROVE  IInv'
BY RejectsGoesOn DEF ResolveInVain, Outcomes

LEMMA DetectCircularKeeps ==
  ASSUME IInv, NEW i \in 1..Len(tasks), DetectCircular(i)
  PROVE  IInv'
<1>1. /\ Resolves(i) /\ Place(i) # NULL /\ Circular(i)
      /\ Rejects(i, "circular")
      /\ UNCHANGED <<cache, generation, requests, resets>>
  BY DEF DetectCircular
<1>2. Wants(i) \in Bindings /\ Key[Wants(i)] \in Reach[Key[Wants(i)]]
  BY <1>1, StackLeadsOn DEF Circular
<1>3. Key[Wants(i)] \in DependOnThemselves
  BY <1>2, KeysOfBindings DEF Reach, DependOnThemselves
<1> QED BY <1>1, <1>3, RejectsGoesOn DEF Outcomes

LEMMA ThrowKeeps ==
  ASSUME IInv, NEW i \in 1..Len(tasks), Throw(i)
  PROVE  IInv'
BY RejectsGoesOn DEF Throw, Outcomes

LEMMA FinishKeeps ==
  ASSUME IInv, NEW i \in 1..Len(tasks), Finish(i)
  PROVE  IInv'
BY RejectsGoesOn DEF Finish, Outcomes

LEMMA UseCachedKeeps ==
  ASSUME IInv, NEW i \in 1..Len(tasks), UseCached(i)
  PROVE  IInv'
<1> DEFINE w == Cached(i)
           u == [tasks[i] EXCEPT !.awaits = w]
<1>1. /\ Resolves(i) /\ Place(i) # NULL
      /\ w # 0
      /\ tasks' = [tasks EXCEPT ![i] = u]
      /\ UNCHANGED <<cache, generation, requests, resets>>
  BY DEF UseCached
<1>2. /\ tasks[i] \in TaskType /\ tasks[i].at = "running"
      /\ Wants(i) \in Bindings /\ Place(i) \in Contexts
      /\ Place(i) \in Visible[tasks[i].ctx] /\ tasks[i].left # <<>>
  BY <1>1, WantsWhatItSees DEF Resolves
<1>3. w = cache[Wants(i)][Place(i)] /\ w \in 1..Len(tasks)
  BY <1>1, <1>2 DEF IInv, TypeOK, Cached
<1>4. tasks[w].binding = Wants(i) /\ tasks[w].ctx = Place(i)
  BY <1>1, <1>2, <1>3 DEF IInv, CacheCurrent
<1> HIDE DEF w
<1>5. /\ u \in TaskType
      /\ u.binding = tasks[i].binding /\ u.ctx = tasks[i].ctx
      /\ u.generation = tasks[i].generation /\ u.path = tasks[i].path
      /\ u.left = tasks[i].left /\ u.awaits = w /\ u.at = "running"
  BY <1>2, <1>3 DEF TaskType
<1> HIDE DEF u
<1>6. Later(u, tasks[i])
  BY <1>5 DEF Later
<1>7. tasks[w].binding # NULL
  BY <1>2, <1>4, BindingAssumption
<1>8. GoesOn(i, u)
  BY <1>1, <1>2, <1>3, <1>4, <1>5, <1>6, <1>7 DEF GoesOn
<1> QED BY <1>8, TaskGoesOn

LEMMA ContinueKeeps ==
  ASSUME IInv, NEW i \in 1..Len(tasks), Continue(i)
  PROVE  IInv'
<1>1. /\ tasks[i].at = "running" /\ tasks[i].awaits # 0
      /\ UNCHANGED <<cache, generation, requests, resets>>
  BY DEF Continue
<1>2. CASE Rejects(i, "failed")
  BY <1>1, <1>2, RejectsGoesOn DEF Outcomes
<1>3. CASE tasks' = [tasks EXCEPT ![i].awaits = 0, ![i].left = Tail(@)]
  <2> DEFINE u == [tasks[i] EXCEPT !.awaits = 0, !.left = Tail(@)]
  <2>1. tasks' = [tasks EXCEPT ![i] = u]
    BY <1>3
  <2>2. tasks[i] \in TaskType
    BY DEF IInv, TypeOK
  <2>3. tasks[i].left # <<>>
    BY <1>1 DEF IInv, Awaiting
  <2>4. Tail(tasks[i].left) \in Seq(Bindings \cup {NULL})
    BY <2>2, <2>3 DEF TaskType
  <2>5. /\ u \in TaskType
        /\ u.binding = tasks[i].binding /\ u.ctx = tasks[i].ctx
        /\ u.generation = tasks[i].generation /\ u.path = tasks[i].path
        /\ u.left = Tail(tasks[i].left) /\ u.awaits = 0 /\ u.at = "running"
    BY <1>1, <2>2, <2>4 DEF TaskType
  <2> HIDE DEF u
  <2>6. Later(u, tasks[i])
    BY <2>3, <2>5 DEF Later
  <2>7. Len(tasks) \in Nat
    BY DEF IInv, TypeOK
  <2>8. GoesOn(i, u)
    BY <1>1, <2>1, <2>5, <2>6, <2>7 DEF GoesOn
  <2> QED BY <2>8, TaskGoesOn
<1> QED BY <1>2, <1>3 DEF Continue

(* t is a new task, which awaits nothing.                                  *)
Starts(t, b, c, path, left, at) ==
  /\ t \in TaskType
  /\ t.binding = b /\ t.ctx = c /\ t.path = path /\ t.left = left
  /\ t.awaits = 0 /\ t.at = at
  /\ b # NULL => t.generation = generation[b][c]

LEMMA NewTask ==
  ASSUME TypeOK, NEW b \in Bindings \cup {NULL}, NEW c \in Contexts,
         NEW path \in Seq(Bindings), NEW left \in Seq(Bindings \cup {NULL}),
         NEW at \in {"running", "fulfilled"}
  PROVE  Starts(Task(b, c, path, left, at), b, c, path, left, at)
<1>1. (IF b = NULL THEN 0 ELSE generation[b][c]) \in Nat
  BY DEF TypeOK
<1> DEFINE g == IF b = NULL THEN 0 ELSE generation[b][c]
<1>2. Task(b, c, path, left, at) =
        [binding |-> b, ctx |-> c, generation |-> g, path |-> path, left |-> left,
         awaits |-> 0, at |-> at]
  BY DEF Task
<1>3. g \in Nat /\ (b # NULL => g = generation[b][c])
  BY <1>1
<1> HIDE DEF g
<1> QED BY <1>2, <1>3 DEF TaskType, Outcomes, Starts

LEMMA RequestKeeps ==
  ASSUME IInv, NEW c \in Contexts, NEW k, Request(c, k)
  PROVE  IInv'
<1> DEFINE n == Len(tasks)
           t == Task(NULL, c, <<>>, <<Lookup(c, k)>>, "running")
<1>1. /\ tasks' = Append(tasks, t)
      /\ requests' = requests + 1
      /\ cache' = cache /\ generation' = generation /\ resets' = resets
  BY DEF Request
<1>2. Lookup(c, k) = NULL \/ (/\ Lookup(c, k) \in Bindings
                             /\ Owner[Lookup(c, k)] = OwnerContext(c, k)
                             /\ Key[Lookup(c, k)] = k)
  BY LookupFinds
<1>3. /\ t \in TaskType /\ t.binding = NULL /\ t.ctx = c /\ t.path = <<>>
      /\ t.left = <<Lookup(c, k)>> /\ t.awaits = 0 /\ t.at = "running"
  <2>1. <<Lookup(c, k)>> \in Seq(Bindings \cup {NULL}) /\ <<>> \in Seq(Bindings)
    BY <1>2
  <2>2. TypeOK
    BY DEF IInv
  <2>3. Starts(t, NULL, c, <<>>, <<Lookup(c, k)>>, "running")
    BY <2>1, <2>2, NewTask, Zenon
  <2> HIDE DEF t
  <2> QED BY <2>3 DEF Starts
<1> HIDE DEF t
<1>4. /\ tasks \in Seq(TaskType) /\ tasks' \in Seq(TaskType)
      /\ n \in Nat /\ n = Len(tasks) /\ Len(tasks') = n + 1
      /\ DOMAIN tasks = 1..n /\ DOMAIN tasks' = 1..(n + 1)
      /\ tasks'[n + 1] = t
      /\ \A j \in 1..n : tasks'[j] = tasks[j]
  BY <1>1, <1>3 DEF IInv, TypeOK
<1> HIDE DEF n
<1>5. \A j \in 1..(n + 1) : j \in 1..n \/ (j = n + 1 /\ tasks'[j] = t)
  BY <1>4
<1>6. cache \in [Bindings -> [Contexts -> 0..n]]
  BY <1>4 DEF IInv, TypeOK
<1>7. \A j \in 1..n : tasks[j].awaits \in 0..n
  BY <1>4 DEF IInv, TypeOK
<1>8. TypeOK'
  <2>1. 0..n \subseteq 0..(n + 1) /\ 0 \in 0..(n + 1)
    BY <1>4
  <2>2. cache' \in [Bindings -> [Contexts -> 0..(n + 1)]]
    BY <1>1, <1>6, <2>1
  <2>3. \A j \in 1..(n + 1) : tasks'[j].awaits \in 0..(n + 1)
    BY <1>3, <1>4, <1>5, <1>7, <2>1
  <2>4. requests' \in Nat /\ resets' \in Nat /\ generation' \in [Bindings -> [Contexts -> Nat]]
    BY <1>1 DEF IInv, TypeOK
  <2> QED BY <1>4, <2>2, <2>3, <2>4 DEF TypeOK
<1>9. WellFormed'
  <2>1. LooksUp(t)
    BY <1>2, <1>3 DEF LooksUp
  <2>2. Placed(t)
    BY <1>3 DEF Placed
  <2>3. OnPath(t)
    BY <1>3 DEF OnPath, ToSet
  <2>4. \A j \in 1..n : LooksUp(tasks[j]) /\ Placed(tasks[j]) /\ OnPath(tasks[j])
    BY <1>4 DEF IInv, WellFormed
  <2> QED BY <1>4, <1>5, <2>1, <2>2, <2>3, <2>4 DEF WellFormed
<1>10. \A j \in 1..(n + 1), b \in Bindings, d \in Contexts :
         Calculates(j, b, d)' => j \in 1..n /\ Calculates(j, b, d)
  BY <1>3, <1>4, <1>5, BindingAssumption DEF Calculates
<1>11. Latest'
  BY <1>1, <1>4, <1>10 DEF IInv, Latest
<1>12. OneEach'
  BY <1>4, <1>10 DEF IInv, OneEach
<1>13. NoTransients'
  BY <1>1 DEF IInv, NoTransients
<1>14. CacheCurrent'
  BY <1>1, <1>4, <1>6 DEF IInv, CacheCurrent
<1>15. Awaiting'
  <2>1. ASSUME NEW j \in 1..n, tasks[j].awaits # 0
        PROVE  /\ tasks[j].awaits \in 1..n /\ tasks[j].left # <<>>
               /\ tasks[tasks[j].awaits].binding # NULL
               /\ tasks[tasks[j].awaits].ctx \in Visible[tasks[j].ctx]
    BY <1>4, <1>7, <2>1 DEF IInv, Awaiting
  <2> QED BY <1>3, <1>4, <1>5, <2>1 DEF Awaiting
<1>16. OnlyRealCycles'
  BY <1>3, <1>4, <1>5 DEF IInv, OnlyRealCycles
<1> QED BY <1>8, <1>9, <1>11, <1>12, <1>13, <1>14, <1>15, <1>16 DEF IInv

(* The factory that task i begins has all that the invariant asks of it.   *)
LEMMA FactoryStarts ==
  ASSUME IInv, NEW i \in 1..Len(tasks), MustCalculate(i)
  PROVE  LET b == Wants(i)
             c == Place(i)
             needs == [k \in 1..Len(Deps[b]) |-> Lookup(c, Deps[b][k])]
             t == Task(b, c, PathTo(i, b), needs,
                       IF b \in Immediate THEN "fulfilled" ELSE "running")
         IN /\ t \in TaskType
            /\ t.binding = b /\ t.ctx = c /\ t.generation = generation[b][c]
            /\ t.awaits = 0 /\ t.at # "circular"
            /\ LooksUp(t) /\ Placed(t) /\ OnPath(t)
<1> DEFINE b == Wants(i)
           c == Place(i)
           needs == [k \in 1..Len(Deps[b]) |-> Lookup(c, Deps[b][k])]
           at == IF b \in Immediate THEN "fulfilled" ELSE "running"
           t == Task(b, c, PathTo(i, b), needs, at)
<1>1. /\ tasks[i] \in TaskType
      /\ b \in Bindings /\ b # NULL /\ c \in Contexts
      /\ Owner[b] \in Visible[c]
      /\ Scope[b] = "singleton" => c = Owner[b]
  BY WantsWhatItSees, BindingAssumption DEF MustCalculate
<1>2. \A q \in ToSet(tasks[i].path) : q \in Bindings /\ Key[b] \in Reach[Key[q]]
  BY StackLeadsOn DEF MustCalculate
<1>3. PathTo(i, b) = Append(tasks[i].path, b)
  BY DEF PathTo
<1> HIDE DEF b, c
<1>4. /\ PathTo(i, b) \in Seq(Bindings)
      /\ ToSet(PathTo(i, b)) = ToSet(tasks[i].path) \cup {b}
  BY <1>1, <1>3, AppendAdds DEF TaskType
<1>5. /\ Deps[b] \in Seq(Keys)
      /\ \A k \in 1..Len(Deps[b]) : Deps[b][k] \in DepKeys(Key[b])
  BY <1>1, KeysOfBindings
<1>6. \A k \in 1..Len(Deps[b]) :
        \/ Lookup(c, Deps[b][k]) = NULL
        \/ /\ Lookup(c, Deps[b][k]) \in Bindings
           /\ Owner[Lookup(c, Deps[b][k])] = OwnerContext(c, Deps[b][k])
           /\ Key[Lookup(c, Deps[b][k])] = Deps[b][k]
  BY <1>1, LookupFinds
<1>7. needs \in Seq(Bindings \cup {NULL}) /\ Len(needs) = Len(Deps[b])
  <2>1. Len(Deps[b]) \in Nat
    BY <1>5
  <2>2. needs \in [1..Len(Deps[b]) -> Bindings \cup {NULL}]
    BY <1>6
  <2> HIDE DEF needs
  <2> QED BY <2>1, <2>2
<1>8. \A k \in 1..Len(needs) : needs[k] = Lookup(c, Deps[b][k])
  BY <1>7
<1>9. at \in {"running", "fulfilled"}
  OBVIOUS
<1> HIDE DEF needs, at
<1>10. TypeOK
  BY DEF IInv
<1>11. Starts(t, b, c, PathTo(i, b), needs, at)
  BY <1>1, <1>4, <1>7, <1>9, <1>10, NewTask, Zenon
<1> HIDE DEF t
<1>12. LooksUp(t)
  BY <1>5, <1>6, <1>7, <1>8, <1>11 DEF LooksUp, Starts
<1>13. Placed(t)
  BY <1>1, <1>11 DEF Placed, Starts
<1>14. OnPath(t)
  BY <1>1, <1>2, <1>4, <1>11 DEF OnPath, Starts
<1>15. /\ t \in TaskType
       /\ t.binding = b /\ t.ctx = c /\ t.generation = generation[b][c]
       /\ t.awaits = 0 /\ t.at # "circular"
  BY <1>1, <1>9, <1>11 DEF Starts
<1> QED BY <1>12, <1>13, <1>14, <1>15, Zenon DEF t, b, c, needs, at

LEMMA CalculateKeeps ==
  ASSUME IInv, NEW i \in 1..Len(tasks), Calculate(i)
  PROVE  IInv'
<1>0. PICK n \in Nat : n = Len(tasks)
  <2>1. Len(tasks) \in Nat
    BY DEF IInv, TypeOK
  <2> QED BY <2>1
<1> DEFINE b == Wants(i)
           c == Place(i)
           needs == [k \in 1..Len(Deps[b]) |-> Lookup(c, Deps[b][k])]
           t == Task(b, c, PathTo(i, b), needs,
                     IF b \in Immediate THEN "fulfilled" ELSE "running")
           u == [tasks[i] EXCEPT !.awaits = n + 1]
<1>1. /\ Resolves(i) /\ Place(i) # NULL /\ Cached(i) = 0
      /\ tasks' = Append([tasks EXCEPT ![i] = u], t)
      /\ cache' = CacheValue(b, c, n + 1)
      /\ generation' = generation /\ requests' = requests /\ resets' = resets
  BY <1>0 DEF Calculate, FactoryContext, MustCalculate
<1>2. /\ tasks[i] \in TaskType /\ tasks[i].at = "running" /\ tasks[i].left # <<>>
      /\ b \in Bindings /\ b # NULL /\ c \in Contexts /\ c \in Visible[tasks[i].ctx]
  BY <1>1, WantsWhatItSees, BindingAssumption DEF Resolves
<1>3. /\ t \in TaskType
      /\ t.binding = b /\ t.ctx = c /\ t.generation = generation[b][c]
      /\ t.awaits = 0 /\ t.at # "circular"
      /\ LooksUp(t) /\ Placed(t) /\ OnPath(t)
  BY FactoryStarts, Zenon DEF Calculate
<1>4. cache[b][c] = 0
  BY <1>1 DEF Cached
<1> HIDE DEF t, b, c
<1>5. n \in Nat /\ n = Len(tasks) /\ tasks \in Seq(TaskType) /\ DOMAIN tasks = 1..n
  BY <1>0 DEF IInv, TypeOK
<1>6. /\ u \in TaskType /\ Later(u, tasks[i])
      /\ u.awaits = n + 1 /\ u.at = "running" /\ u.left = tasks[i].left
      /\ u.binding = tasks[i].binding /\ u.ctx = tasks[i].ctx
  <2>1. n + 1 \in Nat
    BY <1>5
  <2>2. u \in TaskType
    BY <1>2, <2>1 DEF TaskType
  <2>3. /\ u.binding = tasks[i].binding /\ u.ctx = tasks[i].ctx
        /\ u.generation = tasks[i].generation /\ u.path = tasks[i].path
        /\ u.left = tasks[i].left /\ u.awaits = n + 1 /\ u.at = tasks[i].at
    BY <1>2 DEF TaskType
  <2> HIDE DEF u
  <2> QED BY <1>2, <2>2, <2>3 DEF Later
<1> HIDE DEF u
<1>7. /\ tasks' \in Seq(TaskType)
      /\ Len(tasks') = n + 1
      /\ DOMAIN tasks' = 1..(n + 1)
      /\ tasks'[n + 1] = t
      /\ \A j \in 1..n : tasks'[j] = IF j = i THEN u ELSE tasks[j]
  <2> DEFINE s == [tasks EXCEPT ![i] = u]
  <2>1. /\ s \in Seq(TaskType) /\ Len(s) = n
        /\ \A j \in 1..n : s[j] = IF j = i THEN u ELSE tasks[j]
    BY <1>5, <1>6
  <2>2. tasks' = Append(s, t)
    BY <1>1
  <2> HIDE DEF s
  <2> QED BY <1>3, <1>5, <2>1, <2>2
<1>8. \A j \in 1..(n + 1) : j \in 1..n \/ (j = n + 1 /\ tasks'[j] = t)
  BY <1>5, <1>7
<1>9. \A j \in 1..n : Later(tasks'[j], tasks[j]) /\ tasks[j] \in TaskType /\ tasks'[j] \in TaskType
  <2>1. \A r : Later(r, r)
    BY DEF Later
  <2> QED BY <1>5, <1>6, <1>7, <2>1
<1>10. \A j \in 1..n :
         /\ tasks'[j].binding = tasks[j].binding /\ tasks'[j].ctx = tasks[j].ctx
         /\ tasks'[j].generation = tasks[j].generation
  BY <1>9 DEF Later
<1>11. \A a \in Bindings, d \in Contexts :
         /\ a = b /\ d = c /\ Scope[b] # "transient" => cache'[a][d] = n + 1
         /\ ~(a = b /\ d = c /\ Scope[b] # "transient") => cache'[a][d] = cache[a][d]
  BY <1>1, <1>2 DEF CacheValue, IInv, TypeOK
<1>12. /\ cache \in [Bindings -> [Contexts -> 0..n]]
       /\ \A j \in 1..n : tasks[j].awaits \in 0..n
  BY <1>5 DEF IInv, TypeOK
<1>13. TypeOK'
  <2>1. 0..n \subseteq 0..(n + 1) /\ 0 \in 0..(n + 1) /\ n + 1 \in 0..(n + 1)
    BY <1>5
  <2>2. cache' \in [Bindings -> [Contexts -> 0..(n + 1)]]
    <3>1. cache \in [Bindings -> [Contexts -> 0..(n + 1)]]
      BY <1>12, <2>1
    <3> QED BY <1>1, <1>2, <2>1, <3>1 DEF CacheValue
  <2>3. \A j \in 1..(n + 1) : tasks'[j].awaits \in 0..(n + 1)
    BY <1>3, <1>6, <1>7, <1>8, <1>12, <2>1
  <2>4. requests' \in Nat /\ resets' \in Nat /\ generation' \in [Bindings -> [Contexts -> Nat]]
    BY <1>1 DEF IInv, TypeOK
  <2> QED BY <1>7, <2>2, <2>3, <2>4 DEF TypeOK
<1>14. WellFormed'
  <2>1. ASSUME NEW j \in 1..n
        PROVE  LooksUp(tasks'[j]) /\ Placed(tasks'[j]) /\ OnPath(tasks'[j])
    <3>1. LooksUp(tasks[j]) /\ Placed(tasks[j]) /\ OnPath(tasks[j])
      BY <1>5 DEF IInv, WellFormed
    <3> QED BY <1>9, <3>1, LaterWellFormed
  <2> QED BY <1>3, <1>7, <1>8, <2>1 DEF WellFormed
<1>15. \A j \in 1..n, a \in Bindings, d \in Contexts :
         Calculates(j, a, d)' <=> Calculates(j, a, d)
  BY <1>10 DEF Calculates
<1>16. \A a \in Bindings, d \in Contexts : Calculates(n + 1, a, d)' <=> (a = b /\ d = c)
  BY <1>3, <1>7 DEF Calculates
<1>17. (* No task that calculates the value is of its generation. *)
       \A j \in 1..n :
         Calculates(j, b, c) /\ Scope[b] # "transient" =>
           tasks[j].generation # generation[b][c]
  <2>1. \A j \in 1..n : j # 0
    BY <1>5
  <2> QED BY <1>2, <1>4, <1>5, <2>1 DEF IInv, Latest
<1>18. Latest'
  <2>0. Len(tasks') = n + 1 /\ generation' = generation
    BY <1>1, <1>7
  <2>1. SUFFICES ASSUME NEW j \in 1..(n + 1), NEW a \in Bindings, NEW d \in Contexts,
                        Calculates(j, a, d)', Scope[a] # "transient"
                 PROVE  /\ tasks'[j].generation <= generation[a][d]
                        /\ tasks'[j].generation = generation[a][d] => cache'[a][d] = j
    BY <2>0 DEF Latest
  <2>2. CASE j \in 1..n
    <3>1. /\ Calculates(j, a, d)
          /\ tasks'[j].generation = tasks[j].generation
      BY <1>10, <1>15, <2>1, <2>2
    <3>2. /\ tasks[j].generation <= generation[a][d]
          /\ tasks[j].generation = generation[a][d] => cache[a][d] = j
      BY <1>5, <2>1, <2>2, <3>1 DEF IInv, Latest
    <3> QED BY <1>11, <1>17, <2>1, <2>2, <3>1, <3>2
  <2>3. CASE j = n + 1
    <3>1. a = b /\ d = c /\ tasks'[j].generation = generation[a][d]
      BY <1>3, <1>7, <1>16, <2>1, <2>3
    <3>2. generation[a][d] \in Nat
      BY DEF IInv, TypeOK
    <3>3. cache'[a][d] = j
      BY <1>11, <2>1, <2>3, <3>1
    <3> QED BY <3>1, <3>2, <3>3
  <2> QED BY <1>8, <2>2, <2>3
<1>19. OneEach'
  <2>1. ASSUME NEW j \in 1..n, NEW h \in 1..n, NEW a \in Bindings, NEW d \in Contexts,
               j # h, Calculates(j, a, d)', Calculates(h, a, d)', Scope[a] # "transient"
        PROVE  tasks'[j].generation # tasks'[h].generation
    BY <1>5, <1>10, <1>15, <2>1 DEF IInv, OneEach
  <2>2. ASSUME NEW j \in 1..n, NEW a \in Bindings, NEW d \in Contexts,
               Calculates(j, a, d)', Calculates(n + 1, a, d)', Scope[a] # "transient"
        PROVE  tasks'[j].generation # tasks'[n + 1].generation
    BY <1>3, <1>7, <1>10, <1>15, <1>16, <1>17, <2>2
  <2> QED BY <1>7, <1>8, <2>1, <2>2 DEF OneEach
<1>20. NoTransients'
  BY <1>11 DEF IInv, NoTransients
<1>21. CacheCurrent'
  <2>1. SUFFICES ASSUME NEW a \in Bindings, NEW d \in Contexts, cache'[a][d] # 0
                 PROVE  /\ tasks'[cache'[a][d]].generation = generation[a][d]
                        /\ tasks'[cache'[a][d]].binding = a
                        /\ tasks'[cache'[a][d]].ctx = d
    BY <1>1 DEF CacheCurrent
  <2>2. CASE cache'[a][d] = n + 1 /\ a = b /\ d = c
    BY <1>3, <1>7, <2>2
  <2>3. CASE cache'[a][d] = cache[a][d]
    <3>1. cache[a][d] \in 1..n
      BY <1>5, <1>12, <2>1, <2>3
    <3>2. /\ tasks[cache[a][d]].generation = generation[a][d]
          /\ tasks[cache[a][d]].binding = a /\ tasks[cache[a][d]].ctx = d
      BY <2>1, <2>3 DEF IInv, CacheCurrent
    <3> QED BY <1>10, <2>3, <3>1, <3>2
  <2> QED BY <1>11, <2>2, <2>3
<1>22. Awaiting'
  <2>1. SUFFICES ASSUME NEW j \in 1..(n + 1), tasks'[j].awaits # 0
                 PROVE  /\ tasks'[j].left # <<>>
                        /\ tasks'[tasks'[j].awaits].binding # NULL
                        /\ tasks'[tasks'[j].awaits].ctx \in Visible[tasks'[j].ctx]
    BY <1>7 DEF Awaiting
  <2>2. j \in 1..n
    BY <1>3, <1>8, <2>1
  <2>3. CASE j = i
    BY <1>2, <1>3, <1>6, <1>7, <2>2, <2>3
  <2>4. CASE j # i
    <3>1. tasks'[j] = tasks[j]
      BY <1>7, <2>2, <2>4
    <3>2. tasks[j].awaits \in 1..n
      BY <1>5, <1>12, <2>1, <2>2, <3>1
    <3>3. /\ tasks[j].left # <<>>
          /\ tasks[tasks[j].awaits].binding # NULL
          /\ tasks[tasks[j].awaits].ctx \in Visible[tasks[j].ctx]
      BY <1>5, <2>1, <2>2, <3>1 DEF IInv, Awaiting
    <3> QED BY <1>10, <3>1, <3>2, <3>3
  <2> QED BY <2>3, <2>4
<1>23. OnlyRealCycles'
  BY <1>3, <1>5, <1>6, <1>7, <1>8 DEF IInv, OnlyRealCycles
<1> QED BY <1>13, <1>14, <1>18, <1>19, <1>20, <1>21, <1>22, <1>23 DEF IInv

(* A reset makes what it drops another generation.                         *)
LEMMA ResetKeeps ==
  ASSUME IInv, NEW b \in Bindings, NEW D \in SUBSET Contexts, Reset(b, D, D)
  PROVE  IInv'
<1>1. /\ \E d \in D : cache[b][d] # 0
      /\ resets' = resets + 1
      /\ cache' = [cache EXCEPT ![b] = [d \in Contexts |->
                     IF d \in D THEN 0 ELSE cache[b][d]]]
      /\ generation' = [generation EXCEPT ![b] = [d \in Contexts |->
                          IF d \in D THEN generation[b][d] + 1 ELSE generation[b][d]]]
      /\ tasks' = tasks /\ requests' = requests
  BY DEF Reset
<1>2. /\ cache \in [Bindings -> [Contexts -> 0..Len(tasks)]]
      /\ generation \in [Bindings -> [Contexts -> Nat]]
      /\ Len(tasks) \in Nat /\ 0 \in 0..Len(tasks) /\ resets \in Nat
      /\ DOMAIN tasks = 1..Len(tasks)
      /\ \A i \in 1..Len(tasks) : tasks[i] \in TaskType
  BY DEF IInv, TypeOK
<1>3. \A a \in Bindings, d \in Contexts :
        /\ a = b /\ d \in D => cache'[a][d] = 0 /\ generation'[a][d] = generation[a][d] + 1
        /\ ~(a = b /\ d \in D) => cache'[a][d] = cache[a][d] /\ generation'[a][d] = generation[a][d]
  BY <1>1, <1>2
<1>4. TypeOK'
  <2>1. [d \in Contexts |-> IF d \in D THEN 0 ELSE cache[b][d]] \in [Contexts -> 0..Len(tasks)]
    BY <1>2
  <2>2. cache' \in [Bindings -> [Contexts -> 0..Len(tasks)]]
    BY <1>1, <1>2, <2>1
  <2>3. [d \in Contexts |-> IF d \in D THEN generation[b][d] + 1 ELSE generation[b][d]]
          \in [Contexts -> Nat]
    BY <1>2
  <2>4. generation' \in [Bindings -> [Contexts -> Nat]]
    BY <1>1, <1>2, <2>3
  <2>5. resets' \in Nat
    BY <1>1, <1>2
  <2> QED BY <1>1, <2>2, <2>4, <2>5 DEF IInv, TypeOK
<1>5. WellFormed' /\ OnlyRealCycles'
  BY <1>1 DEF IInv, WellFormed, OnlyRealCycles
<1>6. Latest'
  <2>1. SUFFICES ASSUME NEW i \in 1..Len(tasks), NEW a \in Bindings, NEW d \in Contexts,
                        Calculates(i, a, d), Scope[a] # "transient"
                 PROVE  /\ tasks[i].generation <= generation'[a][d]
                        /\ tasks[i].generation = generation'[a][d] => cache'[a][d] = i
    BY <1>1 DEF Latest, Calculates
  <2>2. /\ tasks[i].generation <= generation[a][d]
        /\ tasks[i].generation = generation[a][d] => cache[a][d] = i
    BY <2>1 DEF IInv, Latest
  <2>3. tasks[i].generation \in Nat /\ generation[a][d] \in Nat
    BY <1>2 DEF TaskType
  <2> QED BY <1>3, <2>2, <2>3
<1>7. OneEach'
  BY <1>1 DEF IInv, OneEach, Calculates
<1>8. NoTransients'
  BY <1>3 DEF IInv, NoTransients
<1>9. CacheCurrent'
  BY <1>1, <1>3 DEF IInv, CacheCurrent
<1>10. Awaiting'
  BY <1>1 DEF IInv, Awaiting
<1> QED BY <1>4, <1>5, <1>6, <1>7, <1>8, <1>9, <1>10 DEF IInv

(* refresh() drops what it makes another generation: what it does not      *)
(* drop, the value of a transient binding, is not there.                   *)
LEMMA RefreshKeeps ==
  ASSUME IInv, NEW c \in Contexts, NEW b \in Bindings, Refresh(c, b)
  PROVE  IInv'
<1> DEFINE D == Contexts \cap {ResolutionContext(c, b)}
<1>1. Scope[b] # "transient"
  BY DEF Refresh, Reset, IInv, NoTransients
<1>2. Refreshed(c, b) = D
  BY <1>1 DEF Refreshed
<1>3. Reset(b, D, D) /\ D \in SUBSET Contexts
  BY <1>2 DEF Refresh
<1> HIDE DEF D
<1> QED BY <1>3, ResetKeeps

LEMMA SetSourceKeeps ==
  ASSUME IInv, NEW b \in Bindings, SetSource(b)
  PROVE  IInv'
BY ResetKeeps DEF SetSource

LEMMA InitIInv == Init => IInv
<1> SUFFICES ASSUME Init
             PROVE  IInv
  OBVIOUS
<1>1. tasks = <<>> /\ Len(tasks) = 0 /\ 1..0 = {} /\ DOMAIN tasks = {}
  BY DEF Init
<1>2. TypeOK
  BY <1>1 DEF Init, TypeOK
<1>3. WellFormed /\ Latest /\ OneEach /\ Awaiting /\ OnlyRealCycles
  BY <1>1 DEF WellFormed, Latest, OneEach, Awaiting, OnlyRealCycles
<1>4. NoTransients /\ CacheCurrent
  BY DEF Init, NoTransients, CacheCurrent
<1> QED BY <1>2, <1>3, <1>4 DEF IInv

LEMMA NextIInv == IInv /\ [Next]_vars => IInv'
<1> SUFFICES ASSUME IInv, [Next]_vars
             PROVE  IInv'
  OBVIOUS
<1>1. DOMAIN tasks = 1..Len(tasks)
  BY DEF IInv, TypeOK
<1>2. ASSUME NEW w \in Wanted, Request(w[1], w[2])
      PROVE  IInv'
  <2>1. w[1] \in Contexts
    BY BindingAssumption
  <2> QED BY <1>2, <2>1, RequestKeeps
<1>3. ASSUME NEW i \in DOMAIN tasks, Step(i)
      PROVE  IInv'
  BY <1>1, <1>3, ResolveInVainKeeps, DetectCircularKeeps, UseCachedKeeps, CalculateKeeps,
     ThrowKeeps, ContinueKeeps, FinishKeeps DEF Step
<1>4. ASSUME NEW c \in Contexts, NEW b \in Bindings, Refresh(c, b)
      PROVE  IInv'
  BY <1>4, RefreshKeeps
<1>5. ASSUME NEW b \in Bindings, SetSource(b)
      PROVE  IInv'
  BY <1>5, SetSourceKeeps
<1>6. CASE UNCHANGED vars
  BY <1>6 DEF vars, IInv, TypeOK, WellFormed, Latest, OneEach, Calculates, NoTransients,
              CacheCurrent, Awaiting, OnlyRealCycles
<1> QED BY <1>2, <1>3, <1>4, <1>5, <1>6 DEF Next

(* The strengthened invariant holds of every behaviour.                     *)
THEOREM ResolutionInductive == Spec => []IInv
BY InitIInv, NextIInv, PTL DEF Spec

-----------------------------------------------------------------------------
(***************************************************************************)
(* What follows.                                                           *)
(***************************************************************************)

(* Every variable keeps its type: contexts, bindings, promises.            *)
THEOREM ResolutionTypeOK == Spec => []TypeOK
<1>1. IInv => TypeOK
  BY DEF IInv
<1> QED BY <1>1, ResolutionInductive, PTL

(* A promise that was pending when its binding was refreshed or given      *)
(* another source does not come back into the cache (_cacheValue).         *)
THEOREM CacheAlwaysCurrent == Spec => []CacheCurrent
<1>1. IInv => CacheCurrent
  BY DEF IInv
<1> QED BY <1>1, ResolutionInductive, PTL

(* A singleton is calculated once for its owner, a value of another scope  *)
(* but transient once for its context, until it is reset.                  *)
THEOREM AlwaysCalculatedOnce == Spec => []CalculatedOnce
<1>1. IInv => CalculatedOnce
  <2> SUFFICES ASSUME IInv, NEW i \in DOMAIN tasks, NEW j \in DOMAIN tasks,
                      i # j, tasks[i].binding # NULL,
                      tasks[i].binding = tasks[j].binding,
                      tasks[i].generation = tasks[j].generation,
                      Scope[tasks[i].binding] = "singleton" \/ tasks[i].ctx = tasks[j].ctx,
                      Scope[tasks[i].binding] # "transient"
               PROVE  FALSE
    BY DEF CalculatedOnce
  <2>1. /\ i \in 1..Len(tasks) /\ j \in 1..Len(tasks)
        /\ tasks[i] \in TaskType /\ tasks[j] \in TaskType
    BY DEF IInv, TypeOK
  <2>2. tasks[i].binding \in Bindings /\ tasks[i].ctx \in Contexts
    BY <2>1 DEF TaskType
  <2>3. Placed(tasks[i]) /\ Placed(tasks[j])
    BY <2>1 DEF IInv, WellFormed
  <2>4. tasks[i].ctx = tasks[j].ctx
    BY <2>3 DEF Placed
  <2> QED BY <2>1, <2>2, <2>4 DEF IInv, OneEach, Calculates
<1> QED BY <1>1, ResolutionInductive, PTL

(* What a factory gets was calculated in its own context or one above, and *)
(* is of a binding that can be seen from there.                            *)
THEOREM AlwaysConfined == Spec => []Confined
<1>1. IInv => Confined
  <2> SUFFICES ASSUME IInv, NEW i \in DOMAIN tasks, tasks[i].awaits # 0
               PROVE  /\ tasks[tasks[i].awaits].ctx \in Visible[tasks[i].ctx]
                      /\ Owner[tasks[tasks[i].awaits].binding]
                           \in Visible[tasks[tasks[i].awaits].ctx]
    BY DEF Confined
  <2>1. i \in 1..Len(tasks) /\ tasks[i].awaits \in 1..Len(tasks)
    BY DEF IInv, TypeOK
  <2>2. /\ tasks[tasks[i].awaits].ctx \in Visible[tasks[i].ctx]
        /\ tasks[tasks[i].awaits].binding # NULL
    BY <2>1 DEF IInv, Awaiting
  <2>3. Placed(tasks[tasks[i].awaits])
    BY <2>1 DEF IInv, WellFormed
  <2> QED BY <2>2, <2>3 DEF Placed
<1> QED BY <1>1, ResolutionInductive, PTL

(* The session reports a circular dependency only of a key that depends on *)
(* itself.                                                                 *)
THEOREM OnlyRealCyclesReported == Spec => []OnlyRealCycles
<1>1. IInv => OnlyRealCycles
  BY DEF IInv
<1> QED BY <1>1, ResolutionInductive, PTL

-----------------------------------------------------------------------------
(***************************************************************************)
(* Who waits in a circle.                                                  *)
(***************************************************************************)

(* The stack of a factory ends with its binding, ...                       *)
EndsItsPath(t) == t.binding # NULL => t.path # <<>> /\ t.path[Len(t.path)] = t.binding

(* ... and nobody awaits the value of a binding on its own stack.          *)
AwaitsOthers(i) ==
  tasks[i].awaits # 0 => tasks[tasks[i].awaits].binding \notin ToSet(tasks[i].path)

Sessions ==
  \A i \in 1..Len(tasks) :
    EndsItsPath(tasks[i]) /\ AwaitsOthers(i) /\ Len(tasks[i].path) <= Len(tasks)

(* Whatever happens, a task keeps its session, and begins to await only    *)
(* what is not on its stack.                                               *)
Begins(i) ==
  /\ tasks'[i].awaits \in 1..Len(tasks')
  /\ tasks'[tasks'[i].awaits].binding \notin ToSet(tasks[i].path)
SessionsMove ==
  /\ Len(tasks) <= Len(tasks')
  /\ \A i \in 1..Len(tasks) :
       /\ tasks'[i].binding = tasks[i].binding /\ tasks'[i].path = tasks[i].path
       /\ tasks'[i].awaits = 0 \/ tasks'[i].awaits = tasks[i].awaits \/ Begins(i)
  /\ \A i \in 1..Len(tasks') :
       \/ i \in 1..Len(tasks)
       \/ /\ tasks'[i].awaits = 0 /\ EndsItsPath(tasks'[i])
          /\ Len(tasks'[i].path) <= Len(tasks')

LEMMA SessionsKept ==
  ASSUME IInv, IInv', Sessions, SessionsMove
  PROVE  Sessions'
<1>1. /\ Len(tasks) \in Nat
      /\ \A i \in 1..Len(tasks) : tasks[i].awaits \in 0..Len(tasks)
  BY DEF IInv, TypeOK
<1>2. ASSUME NEW i \in 1..Len(tasks') PROVE EndsItsPath(tasks'[i])
  BY <1>2 DEF Sessions, SessionsMove, EndsItsPath
<1>3. ASSUME NEW i \in 1..Len(tasks'), tasks'[i].awaits # 0
      PROVE  tasks'[tasks'[i].awaits].binding \notin ToSet(tasks'[i].path)
  <2>1. /\ i \in 1..Len(tasks) /\ tasks'[i].path = tasks[i].path
        /\ tasks'[i].awaits = tasks[i].awaits \/ Begins(i)
    BY <1>3 DEF SessionsMove
  <2>2. CASE Begins(i)
    BY <2>1, <2>2 DEF Begins
  <2>3. CASE tasks'[i].awaits = tasks[i].awaits
    <3>1. tasks[i].awaits \in 1..Len(tasks)
      BY <1>1, <1>3, <2>1, <2>3
    <3>2. tasks[tasks[i].awaits].binding \notin ToSet(tasks[i].path)
      BY <2>1, <3>1, <1>1 DEF Sessions, AwaitsOthers
    <3> QED BY <2>1, <2>3, <3>1, <3>2 DEF SessionsMove
  <2> QED BY <2>1, <2>2, <2>3
<1>4. ASSUME NEW i \in 1..Len(tasks') PROVE Len(tasks'[i].path) <= Len(tasks')
  <2>1. CASE i \in 1..Len(tasks)
    <3>1. tasks[i].path \in Seq(Bindings)
      <4>1. tasks \in Seq(TaskType)
        BY DEF IInv, TypeOK
      <4>2. tasks[i] \in TaskType
        BY <2>1, <4>1, ElementOfSeq
      <4> QED BY <4>2 DEF TaskType
    <3>2. tasks'[i].path = tasks[i].path /\ Len(tasks[i].path) <= Len(tasks)
      BY <2>1 DEF Sessions, SessionsMove
    <3>3. Len(tasks[i].path) \in Nat /\ Len(tasks) <= Len(tasks') /\ Len(tasks') \in Nat
      BY <3>1 DEF SessionsMove, IInv, TypeOK
    <3> QED BY <1>1, <3>2, <3>3
  <2> QED BY <1>4, <2>1 DEF SessionsMove
<1> QED BY <1>2, <1>3, <1>4 DEF Sessions, AwaitsOthers

(* What one task does on its own.                                          *)
LEMMA OneMoves ==
  ASSUME IInv, NEW i \in 1..Len(tasks), NEW u, tasks' = [tasks EXCEPT ![i] = u],
         u.binding = tasks[i].binding, u.path = tasks[i].path,
         \/ u.awaits = 0 \/ u.awaits = tasks[i].awaits
         \/ u.awaits \in 1..Len(tasks) /\ tasks[u.awaits].binding \notin ToSet(tasks[i].path)
  PROVE  SessionsMove
<1>1. tasks \in Seq(TaskType) /\ Len(tasks) \in Nat
  BY DEF IInv, TypeOK
<1>2. Len(tasks') = Len(tasks)
  BY <1>1
<1>3. \A j \in 1..Len(tasks) : tasks'[j] = IF j = i THEN u ELSE tasks[j]
  BY <1>1
<1>4. \A j \in 1..Len(tasks) : tasks'[j].binding = tasks[j].binding /\ tasks'[j].path = tasks[j].path
  BY <1>3
<1> QED BY <1>1, <1>2, <1>3, <1>4 DEF SessionsMove, Begins

LEMMA RejectsMoves ==
  ASSUME IInv, NEW i \in 1..Len(tasks), NEW why, Rejects(i, why)
  PROVE  SessionsMove
<1>1. PICK u : u = [tasks[i] EXCEPT !.at = why]
  OBVIOUS
<1>2. tasks[i] \in TaskType
  BY DEF IInv, TypeOK
<1>3. u.binding = tasks[i].binding /\ u.path = tasks[i].path /\ u.awaits = tasks[i].awaits
  BY <1>1, <1>2 DEF TaskType
<1>4. tasks' = [tasks EXCEPT ![i] = u]
  BY <1>1 DEF Rejects
<1> QED BY <1>3, <1>4, OneMoves

LEMMA UseCachedMoves ==
  ASSUME IInv, NEW i \in 1..Len(tasks), UseCached(i)
  PROVE  SessionsMove
<1>1. PICK w : w = Cached(i)
  OBVIOUS
<1>2. PICK u : u = [tasks[i] EXCEPT !.awaits = w]
  OBVIOUS
<1>3. /\ Resolves(i) /\ Place(i) # NULL /\ w # 0 /\ tasks' = [tasks EXCEPT ![i] = u]
      /\ Wants(i) \notin ToSet(tasks[i].path)
  BY <1>1, <1>2 DEF UseCached, Circular
<1>4. tasks[i] \in TaskType /\ Wants(i) \in Bindings /\ Place(i) \in Contexts
  BY <1>3, WantsWhatItSees
<1>5. w \in 1..Len(tasks) /\ tasks[w].binding = Wants(i)
  BY <1>1, <1>3, <1>4 DEF IInv, TypeOK, Cached, CacheCurrent
<1>6. u.binding = tasks[i].binding /\ u.path = tasks[i].path /\ u.awaits = w
  BY <1>2, <1>4 DEF TaskType
<1> QED BY <1>3, <1>5, <1>6, OneMoves

LEMMA ContinueMoves ==
  ASSUME IInv, NEW i \in 1..Len(tasks), Continue(i)
  PROVE  SessionsMove
<1>1. CASE Rejects(i, "failed")
  BY <1>1, RejectsMoves
<1>2. CASE tasks' = [tasks EXCEPT ![i].awaits = 0, ![i].left = Tail(@)]
  <2>1. PICK u : u = [tasks[i] EXCEPT !.awaits = 0, !.left = Tail(@)]
    OBVIOUS
  <2>2. tasks[i] \in TaskType
    BY DEF IInv, TypeOK
  <2>3. u.binding = tasks[i].binding /\ u.path = tasks[i].path /\ u.awaits = 0
    BY <2>1, <2>2 DEF TaskType
  <2>4. tasks' = [tasks EXCEPT ![i] = u]
    BY <1>2, <2>1
  <2> QED BY <2>3, <2>4, OneMoves
<1> QED BY <1>1, <1>2 DEF Continue

LEMMA RequestMoves ==
  ASSUME IInv, NEW c \in Contexts, NEW k, Request(c, k)
  PROVE  SessionsMove
<1>1. PICK t : t = Task(NULL, c, <<>>, <<Lookup(c, k)>>, "running")
  OBVIOUS
<1>2. tasks' = Append(tasks, t) /\ t.awaits = 0 /\ t.binding = NULL /\ Len(t.path) = 0
  BY <1>1 DEF Request, Task
<1>3. tasks \in Seq(TaskType) /\ Len(tasks) \in Nat
  BY DEF IInv, TypeOK
<1>4. /\ Len(tasks') = Len(tasks) + 1 /\ tasks'[Len(tasks) + 1] = t
      /\ \A j \in 1..Len(tasks) : tasks'[j] = tasks[j]
  BY <1>2, <1>3
<1>5. EndsItsPath(t)
  BY <1>2 DEF EndsItsPath
<1>6. \A j \in 1..Len(tasks') : j \in 1..Len(tasks) \/ j = Len(tasks) + 1
  BY <1>3, <1>4
<1>7. \A j \in 1..Len(tasks') :
        \/ j \in 1..Len(tasks)
        \/ /\ tasks'[j].awaits = 0 /\ EndsItsPath(tasks'[j])
           /\ Len(tasks'[j].path) <= Len(tasks')
  BY <1>2, <1>3, <1>4, <1>5, <1>6
<1>8. Len(tasks) <= Len(tasks')
  BY <1>3, <1>4
<1> QED BY <1>4, <1>7, <1>8 DEF SessionsMove

(* The factory that a task begins has the stack of the task, and on top of *)
(* it its own binding, which was not there.                                *)
LEMMA CalculateMoves ==
  ASSUME IInv, Sessions, NEW i \in 1..Len(tasks), Calculate(i)
  PROVE  SessionsMove
<1> DEFINE n == Len(tasks)
           b == Wants(i)
           needs == [k \in 1..Len(Deps[b]) |-> Lookup(Place(i), Deps[b][k])]
<1>1. PICK u : u = [tasks[i] EXCEPT !.awaits = n + 1]
  OBVIOUS
<1>2. PICK t : t = Task(b, Place(i), PathTo(i, b), needs,
                        IF b \in Immediate THEN "fulfilled" ELSE "running")
  OBVIOUS
<1>3. /\ Resolves(i) /\ Place(i) # NULL /\ b \notin ToSet(tasks[i].path)
      /\ tasks' = Append([tasks EXCEPT ![i] = u], t)
  BY <1>1, <1>2 DEF Calculate, FactoryContext, MustCalculate, Circular
<1>4. t.awaits = 0 /\ t.binding = b /\ t.path = Append(tasks[i].path, b)
  <2> HIDE DEF needs
  <2> QED BY <1>2 DEF Task, PathTo
<1>5. /\ tasks \in Seq(TaskType) /\ n \in Nat /\ tasks[i] \in TaskType
  BY DEF IInv, TypeOK
<1>6. u \in TaskType /\ u.binding = tasks[i].binding /\ u.path = tasks[i].path /\ u.awaits = n + 1
  <2>1. n + 1 \in Nat
    BY <1>5
  <2> QED BY <1>1, <1>5, <2>1 DEF TaskType
<1>7. b \in Bindings
  BY <1>3, WantsWhatItSees
<1>8. t.path # <<>> /\ t.path[Len(t.path)] = b /\ Len(t.path) <= n + 1
  <2>1. tasks[i].path \in Seq(Bindings)
    BY <1>5 DEF TaskType
  <2>2. Len(tasks[i].path) <= n
    BY DEF Sessions
  <2> HIDE DEF b
  <2> QED BY <1>4, <1>5, <1>7, <2>1, <2>2
<1> HIDE DEF b
<1>9. /\ Len(tasks') = n + 1 /\ tasks'[n + 1] = t
      /\ \A j \in 1..n : tasks'[j] = IF j = i THEN u ELSE tasks[j]
  <2>1. PICK s : s = [tasks EXCEPT ![i] = u]
    OBVIOUS
  <2>2. /\ s \in Seq(TaskType) /\ Len(s) = n
        /\ \A j \in 1..n : s[j] = IF j = i THEN u ELSE tasks[j]
    BY <1>5, <1>6, <2>1
  <2>3. tasks' = Append(s, t)
    BY <1>3, <2>1
  <2> QED BY <1>5, <2>2, <2>3
<1>10. \A j \in 1..Len(tasks') : j \in 1..n \/ j = n + 1
  BY <1>5, <1>9
<1>11. \A j \in 1..Len(tasks') :
         \/ j \in 1..n
         \/ /\ tasks'[j].awaits = 0 /\ EndsItsPath(tasks'[j])
            /\ Len(tasks'[j].path) <= Len(tasks')
  BY <1>4, <1>8, <1>9, <1>10 DEF EndsItsPath
<1>12. \A j \in 1..n :
         /\ tasks'[j].binding = tasks[j].binding /\ tasks'[j].path = tasks[j].path
         /\ tasks'[j].awaits = 0 \/ tasks'[j].awaits = tasks[j].awaits \/ Begins(j)
  <2>1. n + 1 \in 1..Len(tasks')
    BY <1>5, <1>9
  <2>2. Begins(i)
    BY <1>3, <1>4, <1>6, <1>9, <2>1 DEF Begins
  <2> QED BY <1>6, <1>9, <2>2
<1>13. n <= Len(tasks')
  BY <1>5, <1>9
<1> QED BY <1>11, <1>12, <1>13 DEF SessionsMove

LEMMA NobodyMoves ==
  ASSUME IInv, tasks' = tasks
  PROVE  SessionsMove
<1>1. Len(tasks) \in Nat
  BY DEF IInv, TypeOK
<1> QED BY <1>1 DEF SessionsMove

LEMMA AllMove ==
  ASSUME IInv, Sessions, [Next]_vars
  PROVE  SessionsMove
<1>1. DOMAIN tasks = 1..Len(tasks)
  BY DEF IInv, TypeOK
<1>2. ASSUME NEW w \in Wanted, Request(w[1], w[2])
      PROVE  SessionsMove
  <2>1. w[1] \in Contexts
    BY BindingAssumption
  <2> QED BY <1>2, <2>1, RequestMoves
<1>3. ASSUME NEW i \in 1..Len(tasks), Step(i)
      PROVE  SessionsMove
  <2>1. CASE UseCached(i) \/ Calculate(i) \/ Continue(i)
    BY <2>1, UseCachedMoves, CalculateMoves, ContinueMoves
  <2>2. CASE ResolveInVain(i) \/ DetectCircular(i) \/ Throw(i) \/ Finish(i)
    BY <2>2, RejectsMoves DEF ResolveInVain, DetectCircular, Throw, Finish
  <2> QED BY <1>3, <2>1, <2>2 DEF Step
<1>4. ASSUME \E c \in Contexts, b \in Bindings : Refresh(c, b) \/ SetSource(b)
      PROVE  SessionsMove
  BY <1>4, NobodyMoves DEF Refresh, SetSource, Reset
<1>5. ASSUME \E b \in Bindings : SetSource(b)
      PROVE  SessionsMove
  BY <1>5, NobodyMoves DEF SetSource, Reset
<1>6. CASE UNCHANGED vars
  BY <1>6, NobodyMoves DEF vars
<1> QED BY <1>1, <1>2, <1>3, <1>4, <1>5, <1>6 DEF Next

(* Factories that wait for each other in a circle have been begun, at      *)
(* least two of them, independently of each other: within one session, a   *)
(* circle of dependencies never makes anybody wait for ever.  Take the one *)
(* with the longest stack: the binding that it awaits is not on it, as the *)
(* stack of the other would make it if it were a part of it.               *)
THEOREM CirclesAcrossSessions == Spec => []CirclesApart
<1>1. Init => Sessions
  BY DEF Init, Sessions
<1>2. IInv /\ Sessions /\ [Next]_vars => Sessions'
  BY AllMove, SessionsKept, NextIInv
<1>3. IInv /\ Sessions => CirclesApart
  <2> SUFFICES ASSUME IInv, Sessions, NEW C \in SUBSET DOMAIN tasks, C # {},
                      \A i \in C : tasks[i].awaits \in C
               PROVE  \E i, j \in C : Apart(i, j)
    BY DEF CirclesApart
  <2>1. /\ DOMAIN tasks = 1..Len(tasks) /\ Len(tasks) \in Nat
        /\ \A i \in 1..Len(tasks) : tasks[i] \in TaskType
    BY DEF IInv, TypeOK
  <2>2. \A i \in C : tasks[i].path \in Seq(Bindings)
    BY <2>1 DEF TaskType
  <2>3. PICK i \in C : \A j \in C : Len(tasks[j].path) <= Len(tasks[i].path)
    <3> DEFINE T == {Len(tasks) - Len(tasks[j].path) : j \in C}
    <3>1. \A j \in C : Len(tasks[j].path) \in Nat /\ Len(tasks[j].path) <= Len(tasks)
      BY <2>1, <2>2 DEF Sessions
    <3>2. T \subseteq Nat /\ T # {}
      BY <2>1, <3>1
    <3>3. PICK m \in T : \A k \in T : m <= k
      BY <3>2, LeastOf
    <3>4. PICK i \in C : m = Len(tasks) - Len(tasks[i].path)
      BY <3>3
    <3>5. ASSUME NEW j \in C PROVE Len(tasks[j].path) <= Len(tasks[i].path)
      <4>1. m <= Len(tasks) - Len(tasks[j].path)
        BY <3>3
      <4>2. /\ Len(tasks) \in Nat
            /\ Len(tasks[i].path) \in Nat /\ Len(tasks[j].path) \in Nat
        BY <2>1, <3>1
      <4> QED BY <3>4, <4>1, <4>2
    <3> QED BY <3>5
  <2>4. PICK j \in C : j = tasks[i].awaits
    OBVIOUS
  <2>5. /\ i \in 1..Len(tasks) /\ j \in 1..Len(tasks) /\ tasks[i].awaits # 0
        /\ tasks[j].binding # NULL /\ tasks[j].binding \notin ToSet(tasks[i].path)
        /\ tasks[j].path # <<>> /\ tasks[j].path[Len(tasks[j].path)] = tasks[j].binding
    <3>1. i \in 1..Len(tasks) /\ j \in 1..Len(tasks) /\ tasks[i].awaits # 0
      BY <2>1, <2>4
    <3>2. tasks[j].binding # NULL
      BY <2>4, <3>1 DEF IInv, Awaiting
    <3> QED BY <2>4, <3>1, <3>2 DEF Sessions, EndsItsPath, AwaitsOthers
  <2>6. PICK p \in Seq(Bindings), q \in Seq(Bindings) :
          p = tasks[i].path /\ q = tasks[j].path
    BY <2>2
  <2>7. Len(q) <= Len(p) /\ Len(q) \in 1..Len(q) /\ Len(q) \in 1..Len(p)
    BY <2>3, <2>5, <2>6
  <2>8. p[Len(q)] # q[Len(q)]
    BY <2>5, <2>6, <2>7 DEF ToSet
  <2>9. ~IsPrefix(q, p) /\ ~IsPrefix(p, q)
    BY <2>7, <2>8 DEF IsPrefix
  <2>10. Apart(i, j)
    BY <2>6, <2>9 DEF Apart
  <2> QED BY <2>10
<1> QED BY <1>1, <1>2, <1>3, ResolutionInductive, PTL DEF Spec

(*-------------------------------------------------------------------------*)
(* DecoratorFactories: the invariant                                       *)
(*-------------------------------------------------------------------------*)

FieldMaps == UNION {[names -> Nat \X Nat] : names \in SUBSET UNION Fields}
Specs == [fields : FieldMaps, target : Classes \cup {UNDEFINED}]
Applications == [place : Places, spec : Nat, fields : FieldMaps]

MetaTypes ==
  /\ kind \in Factories!Kinds /\ allowInheritance \in BOOLEAN /\ current \in Classes
  /\ object \in Seq(Specs)
  /\ meta = [c \in Classes |-> meta[c]]
  /\ \A c \in Classes : meta[c] # UNDEFINED =>
       meta[c] \in [DOMAIN meta[c] -> 1..Len(object)] /\ DOMAIN meta[c] \subseteq Places
  /\ index \in [Classes -> [Members -> Int]]
  /\ applied \in [Classes -> Seq(Applications)]
  /\ \A c \in Classes : \A i \in DOMAIN applied[c] : applied[c][i].spec \in 1..Len(object)

(* The specs that have been passed to the decorators of a class.           *)
AppliedTo(c, s) == \E i \in DOMAIN applied[c] : applied[c][i].spec = s
Applied(s) == \E c \in Classes : AppliedTo(c, s)

(* A class that has been decorated has a map of its own, whose specs are   *)
(* in no other map, and bear its name if they have been passed to a        *)
(* decorator.  A spec that bears the name of a class has been passed to    *)
(* one of it.                                                              *)
Decorated ==
  \A c \in Classes : /\ meta[c] = UNDEFINED <=> applied[c] = <<>>
                     /\ c > current => meta[c] = UNDEFINED
MapApart(c) ==
  \A p \in DOMAIN meta[c] :
    /\ object[meta[c][p]].target \in {UNDEFINED, c}
    /\ Applied(meta[c][p]) => object[meta[c][p]].target = c
    /\ \A d \in Classes : d # c /\ meta[d] # UNDEFINED =>
         \A q \in DOMAIN meta[d] : meta[d][q] # meta[c][p]
Named(s) ==
  LET t == object[s].target IN t # UNDEFINED => t <= current /\ AppliedTo(t, s)
CountsDown ==
  kind = "methodParameter" =>
    \A c \in Classes : \A i \in DOMAIN applied[c] :
      applied[c][i].place[2] > index[c][applied[c][i].place[1]]
MapsApart ==
  /\ Decorated /\ CountsDown
  /\ \A c \in Classes : meta[c] # UNDEFINED => MapApart(c)
  /\ \A s \in 1..Len(object) : Applied(s) => Named(s)

(* The class that has no function in common with its bases: no two places  *)
(* share a spec, what it has been decorated with bears its name, and no    *)
(* place has been decorated twice.                                         *)
InheritingPlaces(c) == {p \in Places : kind = "method" => IsFirst(c, p)}
MapRight(c) ==
  /\ \A p, q \in DOMAIN meta[c] : meta[c][p] = meta[c][q] => p = q
  /\ \A p \in DOMAIN meta[c] : object[meta[c][p]].target = c <=> p \in OwnPlaces(c)
  /\ \A i, j \in DOMAIN applied[c] : applied[c][i].place = applied[c][j].place => i = j
  /\ Metadata(c) = Merged(c, InheritingPlaces(c))

Excused(place, spec) ==
  \/ place \in OwnPlaces(current)
  \/ spec \in Foreign \/ Shared(current)
  \/ kind = "property" /\ place \in DOMAIN Metadata(current)
RaisedRightly ==
  raised # UNDEFINED /\ raised.place \in Places => Excused(raised.place, raised.spec)

DInv ==
  /\ MetaTypes /\ MapsApart /\ RaisedRightly
  /\ \A c \in Shown : meta[c] # UNDEFINED => MapRight(c)

(*-------------------------------------------------------------------------*)
(* DecoratorFactories: what it is built from                               *)
(*-------------------------------------------------------------------------*)

(* What DecoratorFactories takes from MetadataPromise.                     *)
LEMMA SameMetadata ==
  /\ Factories!Places = Places /\ Factories!Classes = Classes /\ Factories!Empty = Empty
  /\ \A c : Factories!GetMetadata(c) = GetMetadata(c)
  /\ \A f, g : Factories!Assign(f, g) = Assign(f, g)
<1>1. Factories!Places = Places /\ Factories!Classes = Classes /\ Factories!Empty = Empty
  BY DEF Factories!Places, Places, Factories!Classes, Classes, Factories!Empty, Empty
<1>2. \A S : Factories!Max(S) = Max(S)
  BY DEF Factories!Max, Max
<1>3. \A c : Factories!GetMetadata(c) = GetMetadata(c)
  BY <1>1, <1>2, Zenon DEF Factories!GetMetadata, GetMetadata
<1>4. \A f, g : Factories!Assign(f, g) = Assign(f, g)
  BY DEF Factories!Assign, Assign
<1> QED BY <1>1, <1>3, <1>4

(* cloneDeep makes new specs with the same fields, and shares them in the  *)
(* same way.                                                               *)
Clones(objects, map, clone, store) ==
  /\ Factories!CloneDeep(objects, map) = [map |-> clone, objects |-> store]
  /\ store \in Seq(Specs) /\ Len(objects) <= Len(store)
  /\ \A i \in 1..Len(objects) : store[i] = objects[i]
  /\ clone \in [DOMAIN map -> 1..Len(store)]
  /\ \A p \in DOMAIN map :
       /\ clone[p] > Len(objects)
       /\ store[clone[p]].fields = objects[map[p]].fields /\ store[clone[p]].target = UNDEFINED
  /\ \A p, q \in DOMAIN map : clone[p] = clone[q] => map[p] = map[q]

LEMMA Cloning ==
  ASSUME NEW objects \in Seq(Specs), NEW map, map \in [DOMAIN map -> 1..Len(objects)]
  PROVE  \E clone, store : Clones(objects, map, clone, store)
<1> DEFINE R == Range(map)
           n == Cardinality(R)
<1>1. R \in SUBSET (1..Len(objects)) /\ Len(objects) \in Nat /\ \A p \in DOMAIN map : map[p] \in R
  BY DEF Range
<1>2. PICK specs : specs = InOrder(R, <)
  OBVIOUS
<1>3. /\ n \in Nat /\ specs \in [1..n -> R]
      /\ \A x \in R : \E k \in 1..n : specs[k] = x
  <2> HIDE DEF R
  <2> QED BY <1>1, <1>2, AscendingPositions
<1>4. specs \in Seq(Nat) /\ Len(specs) = n /\ DOMAIN specs = 1..n
  <2> HIDE DEF n, R
  <2>1. \A i \in 1..n : specs[i] \in Nat
    BY <1>1, <1>3
  <2>2. specs = [i \in 1..n |-> specs[i]]
    BY <1>3
  <2> QED BY <1>3, <2>1, <2>2, IsASeq
<1>5. PICK k : k = [p \in DOMAIN map |-> IndexOf(specs, map[p])]
  OBVIOUS
<1>6. \A p \in DOMAIN map : k[p] \in 1..n /\ specs[k[p]] = map[p]
  <2> HIDE DEF n, R
  <2> SUFFICES ASSUME NEW p \in DOMAIN map PROVE k[p] \in 1..n /\ specs[k[p]] = map[p]
    OBVIOUS
  <2>1. PICK j \in 1..n : specs[j] = map[p]
    BY <1>1, <1>3
  <2>2. k[p] = IndexOf(specs, map[p])
    BY <1>5
  <2>3. k[p] \in 0..n /\ k[p] # 0 /\ specs[k[p]] = map[p]
    BY <1>4, <2>1, <2>2, IndexOfFinds
  <2> QED BY <1>3, <2>3
<1>7. PICK clones : clones = [i \in 1..n |-> [fields |-> objects[specs[i]].fields, target |-> UNDEFINED]]
  OBVIOUS
<1>8. /\ clones \in Seq(Specs) /\ Len(clones) = n
      /\ \A i \in 1..n : clones[i].fields = objects[specs[i]].fields /\ clones[i].target = UNDEFINED
  <2> HIDE DEF n, R
  <2>1. ASSUME NEW i \in 1..n
        PROVE  clones[i] \in Specs /\ clones[i] = [fields |-> objects[specs[i]].fields, target |-> UNDEFINED]
    <3>1. specs[i] \in 1..Len(objects)
      BY <1>1, <1>3
    <3>2. objects[specs[i]] \in Specs
      BY <3>1, ElementOfSeq
    <3> QED BY <1>7, <3>2 DEF Specs
  <2>2. \A i \in 1..n : clones[i] \in Specs
    BY <2>1
  <2>3. clones = [i \in 1..n |-> clones[i]]
    BY <1>7
  <2> QED BY <1>3, <2>1, <2>2, <2>3, IsASeq
<1>9. PICK m : m = [p \in DOMAIN map |-> Len(objects) + k[p]]
  OBVIOUS
<1>10. PICK os : os = objects \o clones
  OBVIOUS
<1>11. Factories!CloneDeep(objects, map) = [map |-> m, objects |-> os]
  <2>1. Factories!Range(map) = R
    BY DEF Factories!Range, Range
  <2>2. Factories!InOrder(R, <) = specs
    BY <1>2 DEF Factories!InOrder, InOrder, Factories!Cardinality, Cardinality
  <2>3. \A S : Factories!Min(S) = Min(S)
    BY DEF Factories!Min, Min
  <2>4. \A e : Factories!IndexOf(specs, e) = IndexOf(specs, e)
    BY <2>3 DEF Factories!IndexOf, IndexOf, Factories!SelectInSeq, SelectInSeq
  <2> HIDE DEF n, R
  <2>5. m = [p \in DOMAIN map |-> Len(objects) + Factories!IndexOf(specs, map[p])]
    BY <1>5, <1>9, <2>4
  <2> QED BY <1>4, <1>7, <1>10, <2>1, <2>2, <2>5 DEF Factories!CloneDeep
<1> HIDE DEF n, R
<1>12. /\ os \in Seq(Specs) /\ Len(os) = Len(objects) + n
       /\ \A i \in 1..Len(objects) : os[i] = objects[i]
       /\ \A i \in 1..n : os[Len(objects) + i] = clones[i]
  BY <1>3, <1>8, <1>10
<1>13. ASSUME NEW p \in DOMAIN map
       PROVE  /\ m[p] \in 1..Len(os) /\ m[p] > Len(objects)
              /\ os[m[p]].fields = objects[map[p]].fields /\ os[m[p]].target = UNDEFINED
  <2>1. k[p] \in 1..n /\ specs[k[p]] = map[p] /\ m[p] = Len(objects) + k[p]
    BY <1>6, <1>9, <1>13
  <2>2. os[m[p]] = clones[k[p]] /\ clones[k[p]].fields = objects[map[p]].fields
          /\ clones[k[p]].target = UNDEFINED
    BY <1>8, <1>12, <2>1
  <2>3. m[p] \in 1..Len(os) /\ m[p] > Len(objects)
    BY <1>1, <1>3, <1>12, <2>1
  <2> QED BY <2>2, <2>3
<1>14. ASSUME NEW p \in DOMAIN map, NEW q \in DOMAIN map, m[p] = m[q]
       PROVE  map[p] = map[q]
  <2>1. k[p] = k[q]
    BY <1>1, <1>3, <1>6, <1>9, <1>14
  <2> QED BY <1>6, <2>1
<1>15. m \in [DOMAIN map -> 1..Len(os)]
  BY <1>9, <1>13
<1>16. Len(objects) <= Len(os)
  BY <1>1, <1>3, <1>12
<1>17. \A p, q \in DOMAIN map : m[p] = m[q] => map[p] = map[q]
  BY <1>14
<1>18. \A p \in DOMAIN map :
         /\ m[p] > Len(objects)
         /\ os[m[p]].fields = objects[map[p]].fields /\ os[m[p]].target = UNDEFINED
  BY <1>13
<1>19. os \in Seq(Specs) /\ \A i \in 1..Len(objects) : os[i] = objects[i]
  BY <1>12
<1>20. Clones(objects, map, m, os)
  BY <1>11, <1>15, <1>16, <1>17, <1>18, <1>19, Zenon DEF Clones
<1> QED BY <1>20

(* The classes, and what is kept about one.                                *)
LEMMA MapType ==
  ASSUME MetaTypes, NEW c \in Classes, meta[c] # UNDEFINED
  PROVE  /\ meta[c] \in [DOMAIN meta[c] -> 1..Len(object)] /\ DOMAIN meta[c] \subseteq Places
         /\ Len(object) \in Nat
         /\ \A p \in DOMAIN meta[c] : /\ meta[c][p] \in 1..Len(object)
                                      /\ object[meta[c][p]] \in Specs
<1>1. object \in Seq(Specs) /\ meta[c] \in [DOMAIN meta[c] -> 1..Len(object)]
  BY DEF MetaTypes
<1>2. \A p \in DOMAIN meta[c] : meta[c][p] \in 1..Len(object)
  BY <1>1
<1> QED BY <1>1, <1>2, ElementOfSeq DEF MetaTypes

(* getMetadata finds the map of the class, or that of a base.              *)
LEMMA MetadataFrom ==
  ASSUME MetaTypes, Depth \in Nat, NEW c \in 0..Depth
  PROVE  /\ \/ GetMetadata(c) = Empty
            \/ \E d \in 1..c : meta[d] # UNDEFINED /\ GetMetadata(c) = meta[d]
         /\ c \in Classes /\ meta[c] # UNDEFINED => GetMetadata(c) = meta[c]
         /\ c \in Classes /\ meta[c] = UNDEFINED => GetMetadata(c) = GetMetadata(c - 1)
<1> DEFINE S(d) == {e \in 1..d : meta[e] # UNDEFINED}
<1>1. GetMetadata(c) = IF S(c) = {} THEN Empty ELSE meta[Max(S(c))]
  BY DEF GetMetadata
<1>2. S(c) # {} => Max(S(c)) \in S(c) /\ \A d \in S(c) : d <= Max(S(c))
  <2>1. c \in Nat /\ S(c) \in SUBSET (1..c)
    OBVIOUS
  <2> HIDE DEF S
  <2> QED BY <2>1, LeastAndGreatest
<1>3. CASE c \in Classes /\ meta[c] # UNDEFINED
  <2>1. c \in S(c) /\ \A d \in S(c) : d <= c
    BY <1>3 DEF Classes
  <2>2. Max(S(c)) = c
    <3>1. S(c) \subseteq Int
      OBVIOUS
    <3> HIDE DEF S
    <3> QED BY <1>2, <2>1, <3>1
  <2> QED BY <1>1, <1>3, <2>1, <2>2
<1>4. CASE c \in Classes /\ meta[c] = UNDEFINED
  <2>1. S(c) = S(c - 1)
    BY <1>4 DEF Classes
  <2>2. GetMetadata(c - 1) = IF S(c - 1) = {} THEN Empty ELSE meta[Max(S(c - 1))]
    BY DEF GetMetadata
  <2> HIDE DEF S
  <2>3. GetMetadata(c) = GetMetadata(c - 1)
    BY <1>1, <2>1, <2>2
  <2> QED BY <1>1, <1>2, <1>4, <2>3 DEF S
<1>5. CASE c \notin Classes
  <2>1. S(c) = {}
    BY <1>5 DEF Classes
  <2> QED BY <1>1, <1>5, <2>1
<1> QED BY <1>3, <1>4, <1>5

(* A class that has not been decorated has the metadata of its base.       *)
LEMMA Undecorated ==
  ASSUME MetaTypes, Depth \in Nat, NEW c \in Classes, NEW places,
         meta[c] = UNDEFINED, applied[c] = <<>>
  PROVE  Metadata(c) = Merged(c, places)
<1>1. GetMetadata(c) = GetMetadata(c - 1)
  BY MetadataFrom DEF Classes
<1>2. Metadata(c) = Metadata(c - 1)
  BY <1>1 DEF Metadata
<1>3. OwnPlaces(c) = {}
  BY DEF OwnPlaces, Range
<1>4. PICK base : base = Metadata(c - 1)
  OBVIOUS
<1>5. base = [p \in DOMAIN base |-> base[p]]
  BY <1>4 DEF Metadata
<1> QED BY <1>2, <1>3, <1>4, <1>5 DEF Merged

(* What is passed to a decorator is a spec of its own, which has no target *)
(* yet, or that of a decorator function that has been applied.             *)
Given(objects, spec) ==
  \/ \E new \in Specs : /\ new.target = UNDEFINED /\ objects = Append(object, new)
                        /\ spec = Len(object) + 1
  \/ /\ objects = object
     /\ Applied(spec)

LEMMA AppliedType ==
  ASSUME MetaTypes, NEW s, Applied(s)
  PROVE  s \in 1..Len(object)
BY DEF Applied, AppliedTo, MetaTypes

LEMMA GivenSpec ==
  ASSUME MetaTypes, NEW objects, NEW spec, Given(objects, spec)
  PROVE  /\ objects \in Seq(Specs) /\ spec \in 1..Len(objects)
         /\ Len(object) \in Nat /\ Len(object) <= Len(objects) /\ Len(objects) \in Nat
         /\ \A i \in 1..Len(object) : objects[i] = object[i]
         /\ \/ spec > Len(object) /\ spec = Len(objects) /\ objects[spec].target = UNDEFINED
            \/ spec <= Len(object) /\ objects = object /\ Applied(spec)
<1>1. object \in Seq(Specs) /\ Len(object) \in Nat
  BY DEF MetaTypes
<1>2. CASE \E new \in Specs : /\ new.target = UNDEFINED /\ objects = Append(object, new)
                              /\ spec = Len(object) + 1
  BY <1>1, <1>2, AppendProperties
<1>3. CASE objects = object /\ Applied(spec)
  BY <1>1, <1>3, AppliedType
<1> QED BY <1>2, <1>3 DEF Given

LEMMA ShownBelow ==
  ASSUME Depth \in Nat, NEW c \in Shown, NEW d \in 1..c
  PROVE  d \in Shown
<1>1. c \in 1..Depth /\ ~Shared(c)
  BY DEF Shown, Classes
<1>2. d \in Classes /\ 1..d \subseteq 1..c
  BY <1>1 DEF Classes
<1> QED BY <1>1, <1>2 DEF Shown, Shared

(* What decorate() starts from: the map and the specs.                     *)
BaseFields == IF allowInheritance THEN Metadata(current - 1) ELSE Empty
Base(objects) ==
  IF meta[current] = UNDEFINED /\ allowInheritance
  THEN Factories!CloneDeep(objects, GetMetadata(current))
  ELSE [map |-> IF meta[current] = UNDEFINED THEN Empty ELSE meta[current], objects |-> objects]
Based(objects, map, os) ==
  /\ os \in Seq(Specs) /\ Len(objects) <= Len(os)
  /\ \A i \in 1..Len(objects) : os[i] = objects[i]
  /\ map \in [DOMAIN map -> 1..Len(os)] /\ DOMAIN map \subseteq Places
  /\ meta[current] # UNDEFINED => map = meta[current] /\ os = objects
  /\ meta[current] = UNDEFINED =>
       /\ DOMAIN map = DOMAIN BaseFields
       /\ \A p \in DOMAIN map : /\ map[p] > Len(objects)
                                /\ os[map[p]].target = UNDEFINED
                                /\ os[map[p]].fields = BaseFields[p]
       /\ current \in Shown => \A p, q \in DOMAIN map : map[p] = map[q] => p = q

LEMMA Inherited ==
  ASSUME Depth \in Nat, DInv, meta[current] = UNDEFINED
  PROVE  LET map == GetMetadata(current) IN
         /\ map \in [DOMAIN map -> 1..Len(object)] /\ DOMAIN map \subseteq Places
         /\ map = GetMetadata(current - 1)
         /\ current \in Shown => \A p, q \in DOMAIN map : map[p] = map[q] => p = q
<1>1. MetaTypes /\ current \in Classes /\ current \in 1..Depth
  BY DEF DInv, MetaTypes, Classes
<1>2. PICK map : map = GetMetadata(current)
  OBVIOUS
<1>3. map = GetMetadata(current - 1)
  BY <1>1, <1>2, MetadataFrom
<1>4. CASE map = Empty
  BY <1>2, <1>3, <1>4 DEF Empty
<1>5. CASE map # Empty
  <2>1. PICK d \in 1..current : meta[d] # UNDEFINED /\ map = meta[d]
    BY <1>1, <1>2, <1>5, MetadataFrom
  <2>2. d \in Classes
    BY <1>1, <2>1 DEF Classes
  <2>3. current \in Shown => MapRight(d)
    BY <2>1, ShownBelow DEF DInv
  <2> QED BY <1>1, <1>2, <1>3, <2>1, <2>2, <2>3, MapType DEF MapRight
<1> QED BY <1>4, <1>5

LEMMA Starting ==
  ASSUME Factories!FactoryAssumption, DInv, NEW objects, NEW spec, Given(objects, spec)
  PROVE  \E map, os : Base(objects) = [map |-> map, objects |-> os] /\ Based(objects, map, os)
<1>1. MetaTypes /\ Depth \in Nat /\ current \in Classes
  BY DEF DInv, Factories!FactoryAssumption, MetaTypes
<1>2. /\ objects \in Seq(Specs) /\ Len(objects) \in Nat /\ Len(object) \in Nat
      /\ Len(object) <= Len(objects) /\ \A i \in 1..Len(object) : objects[i] = object[i]
  BY <1>1, GivenSpec
<1>3. CASE meta[current] # UNDEFINED
  <2>1. Base(objects) = [map |-> meta[current], objects |-> objects]
    BY <1>3 DEF Base
  <2>2. meta[current] \in [DOMAIN meta[current] -> 1..Len(objects)] /\ DOMAIN meta[current] \subseteq Places
    BY <1>1, <1>2, <1>3, MapType
  <2>3. Based(objects, meta[current], objects)
    BY <1>2, <1>3, <2>2 DEF Based
  <2> QED BY <2>1, <2>3
<1>4. CASE meta[current] = UNDEFINED /\ ~allowInheritance
  <2>1. Base(objects) = [map |-> Empty, objects |-> objects]
    BY <1>4 DEF Base
  <2>2. DOMAIN Empty = {} /\ Empty \in [DOMAIN Empty -> 1..Len(objects)] /\ BaseFields = Empty
    BY <1>4 DEF Empty, BaseFields
  <2>3. Based(objects, Empty, objects)
    BY <1>2, <1>4, <2>2 DEF Based
  <2> QED BY <2>1, <2>3
<1>5. CASE meta[current] = UNDEFINED /\ allowInheritance
  <2>1. PICK from : from = GetMetadata(current)
    OBVIOUS
  <2>2. /\ from \in [DOMAIN from -> 1..Len(object)] /\ DOMAIN from \subseteq Places
        /\ from = GetMetadata(current - 1)
        /\ current \in Shown => \A p, q \in DOMAIN from : from[p] = from[q] => p = q
    BY <1>1, <1>5, <2>1, Inherited
  <2>3. BaseFields = [p \in DOMAIN from |-> object[from[p]].fields]
    BY <1>5, <2>2 DEF BaseFields, Metadata
  <2>4. from \in [DOMAIN from -> 1..Len(objects)] /\ \A p \in DOMAIN from : objects[from[p]] = object[from[p]]
    BY <1>2, <2>2
  <2>5. PICK m, os : Clones(objects, from, m, os)
    BY <1>2, <2>4, Cloning
  <2>6. Base(objects) = [map |-> m, objects |-> os]
    BY <1>5, <2>1, <2>5 DEF Base, Clones
  <2>7. DOMAIN m = DOMAIN from /\ m \in [DOMAIN m -> 1..Len(os)]
    BY <2>5 DEF Clones
  <2>8. Based(objects, m, os)
    <3>1. DOMAIN m = DOMAIN BaseFields
      BY <2>3, <2>7
    <3>2. \A p \in DOMAIN m : os[m[p]].fields = BaseFields[p]
      BY <2>3, <2>4, <2>5, <2>7 DEF Clones
    <3>3. current \in Shown => \A p, q \in DOMAIN m : m[p] = m[q] => p = q
      BY <2>2, <2>5, <2>7 DEF Clones
    <3> QED BY <1>5, <2>2, <2>5, <2>7, <3>1, <3>2, <3>3 DEF Based, Clones
  <2> QED BY <2>6, <2>8
<1> QED BY <1>3, <1>4, <1>5

(* What a decorator does, unless it raises an error.                       *)
TakesOver(place, map) ==
  /\ allowInheritance /\ place \in DOMAIN map
  /\ meta[current] = UNDEFINED \/ kind \in {"parameter", "methodParameter"}
Application(place, spec, os) == [place |-> place, spec |-> spec, fields |-> os[spec].fields]
Merges(place, objects, spec, map, os, result) ==
  /\ Based(objects, map, os)
  /\ result = IF TakesOver(place, map) THEN map[place] ELSE spec
  /\ os[result].target \in {UNDEFINED, current}
  /\ meta[current] # UNDEFINED /\ place \in DOMAIN map =>
       /\ kind \notin {"class", "property"}
       /\ kind \in {"method", "parameter"} => os[map[place]].target # current
  /\ object' = [os EXCEPT ![result] =
                  [fields |-> Assign(os[result].fields, os[spec].fields), target |-> current]]
  /\ meta' = [meta EXCEPT ![current] = Factories!With(map, place, result)]
  /\ applied' = [applied EXCEPT ![current] = Append(applied[current], Application(place, spec, os))]
  /\ index' = IF kind # "methodParameter" THEN index
              ELSE [index EXCEPT ![current][place[1]] = @ - 1]
  /\ UNCHANGED <<kind, allowInheritance, current, raised>>

(* What it starts from bears no other name.                                *)
LEMMA BaseTargets ==
  ASSUME Factories!FactoryAssumption, DInv, NEW objects, NEW spec, Given(objects, spec), NEW map, NEW os,
         Based(objects, map, os), NEW p \in DOMAIN map
  PROVE  os[map[p]].target \in {UNDEFINED, current}
<1>1. MetaTypes /\ current \in Classes
  BY DEF DInv, MetaTypes
<1>2. CASE meta[current] = UNDEFINED
  BY <1>2 DEF Based
<1>3. CASE meta[current] # UNDEFINED
  <2>1. map = meta[current] /\ os = objects
    BY <1>3 DEF Based
  <2>2. map[p] \in 1..Len(object)
    BY <1>1, <1>3, <2>1, MapType
  <2>3. os[map[p]] = object[map[p]]
    BY <1>1, <2>1, <2>2, GivenSpec
  <2> QED BY <1>1, <1>3, <2>1, <2>3 DEF DInv, MapsApart, MapApart
<1> QED BY <1>2, <1>3

LEMMA MergeOutcome ==
  ASSUME Factories!FactoryAssumption, DInv, NEW place \in Places, NEW objects, NEW spec,
         Given(objects, spec), Factories!Merge(place, objects, spec)
  PROVE  \/ \E map, os, result : Merges(place, objects, spec, map, os, result)
         \/ /\ raised' = [place |-> place, spec |-> spec] /\ Excused(place, spec)
            /\ UNCHANGED <<kind, allowInheritance, current, object, meta, index, applied>>
<1>1. MetaTypes /\ MapsApart /\ Depth \in Nat /\ current \in Classes /\ UNDEFINED \notin Nat
  BY DEF DInv, Factories!FactoryAssumption, MetaTypes
<1>2. PICK map, os : Base(objects) = [map |-> map, objects |-> os] /\ Based(objects, map, os)
  BY Starting
<1>3. Base(objects).map = map /\ Base(objects).objects = os
  BY <1>2
<1>4. PICK result : result = IF TakesOver(place, map) THEN map[place] ELSE spec
  OBVIOUS
<1> DEFINE inheriting == meta[current] = UNDEFINED /\ allowInheritance
<1>6. \A p \in DOMAIN map : map[p] # UNDEFINED
  <2>1. \A p \in DOMAIN map : map[p] \in Nat
    BY <1>2 DEF Based
  <2> QED BY <1>1, <2>1
<1>7. result = Factories!Inherit(IF inheriting THEN Factories!Entry(map, place)
                                 ELSE Factories!OwnEntry(map, place), spec)
  BY <1>4, <1>6, Zenon DEF Factories!Inherit, Factories!Entry, Factories!OwnEntry, TakesOver
<1> DEFINE fails == \/ ~inheriting /\ Factories!Duplicate(map, os, current, place)
                    \/ Factories!Retargeted(os, current, result)
<1>9. IF fails THEN Factories!Fail(place, spec)
      ELSE /\ object' = Factories!WithTarget(os, current, result, spec)
           /\ meta' = [meta EXCEPT ![current] = Factories!With(map, place, result)]
           /\ index' = IF kind # "methodParameter" THEN index
                       ELSE [index EXCEPT ![current][place[1]] = @ - 1]
           /\ applied' = [applied EXCEPT ![current] = Append(@,
                [place |-> place, spec |-> spec, fields |-> objects[spec].fields])]
           /\ UNCHANGED <<kind, allowInheritance, current, raised>>
  <2>1. PICK b : b = Base(objects)
    OBVIOUS
  <2>2. b = IF inheriting THEN Factories!CloneDeep(objects, Factories!GetMetadata(current))
            ELSE [map |-> IF meta[current] = UNDEFINED THEN Factories!Empty ELSE meta[current],
                  objects |-> objects]
    BY <2>1, SameMetadata DEF Base
  <2>3. b.map = map /\ b.objects = os
    BY <1>3, <2>1
  <2> QED BY <1>7, <2>2, <2>3, Zenon DEF Factories!Merge
<1>10. spec \in 1..Len(objects) /\ os[spec] = objects[spec]
  BY <1>1, <1>2, GivenSpec DEF Based
<1>11. CASE ~fails
  <2>1. os[result].target \in {UNDEFINED, current}
    BY <1>11 DEF Factories!Retargeted
  <2>2. meta[current] # UNDEFINED /\ place \in DOMAIN map =>
          /\ kind \notin {"class", "property"}
          /\ kind \in {"method", "parameter"} => os[map[place]].target # current
    BY <1>11 DEF Factories!Duplicate
  <2>3. object' = [os EXCEPT ![result] =
                     [fields |-> Assign(os[result].fields, os[spec].fields), target |-> current]]
    BY <1>9, <1>11, SameMetadata DEF Factories!WithTarget
  <2>4. applied' = [applied EXCEPT ![current] = Append(applied[current], Application(place, spec, os))]
    BY <1>9, <1>10, <1>11 DEF Application
  <2>5. Merges(place, objects, spec, map, os, result)
    BY <1>2, <1>4, <1>9, <1>11, <2>1, <2>2, <2>3, <2>4, Zenon DEF Merges
  <2> QED BY <2>5
<1>12. CASE fails
  <2>1. /\ raised' = [place |-> place, spec |-> spec]
        /\ UNCHANGED <<kind, allowInheritance, current, object, meta, index, applied>>
    BY <1>9, <1>12 DEF Factories!Fail
  <2>2. CASE ~inheriting /\ Factories!Duplicate(map, os, current, place)
    <3>1. place \in DOMAIN map
      BY <2>2 DEF Factories!Duplicate
    <3>2. meta[current] # UNDEFINED
      <4>1. SUFFICES ASSUME meta[current] = UNDEFINED PROVE FALSE
        OBVIOUS
      <4>2. DOMAIN map = DOMAIN Empty
        BY <1>2, <2>2, <4>1 DEF Based, BaseFields
      <4> QED BY <3>1, <4>2 DEF Empty
    <3>3. map = meta[current] /\ os = objects /\ map[place] \in 1..Len(object)
      BY <1>1, <1>2, <3>1, <3>2, MapType DEF Based
    <3>4. CASE kind = "class"
      <4>1. applied[current] # <<>> /\ applied[current] \in Seq(Applications)
        BY <1>1, <3>2 DEF MapsApart, Decorated, MetaTypes
      <4>2. 1 \in DOMAIN applied[current] /\ applied[current][1] \in Applications
        BY <4>1, ElementOfSeq
      <4>3. applied[current][1].place = place
        BY <3>4, <4>2 DEF Applications, Places
      <4> QED BY <2>1, <4>2, <4>3 DEF Excused, OwnPlaces, Range
    <3>5. CASE kind = "property"
      <4>1. GetMetadata(current) = meta[current]
        BY <1>1, <3>2, MetadataFrom DEF Classes
      <4>2. place \in DOMAIN Metadata(current)
        BY <3>1, <3>3, <4>1 DEF Metadata
      <4> QED BY <2>1, <3>5, <4>2 DEF Excused
    <3>6. CASE kind \notin {"class", "property"}
      <4>1. os[map[place]].target = current
        BY <2>2, <3>6 DEF Factories!Duplicate
      <4>2. object[map[place]].target = current
        BY <1>1, <3>3, <4>1, GivenSpec
      <4>3. current \in Shown => place \in OwnPlaces(current)
        BY <1>1, <3>1, <3>2, <3>3, <4>2 DEF DInv, MapRight
      <4>4. current \notin Shown => Shared(current)
        BY <1>1 DEF Shown
      <4> QED BY <2>1, <4>3, <4>4 DEF Excused
    <3> QED BY <3>4, <3>5, <3>6
  <2>3. CASE Factories!Retargeted(os, current, result)
    <3>1. os[result].target \notin {UNDEFINED, current}
      BY <2>3 DEF Factories!Retargeted
    <3>2. result = spec
      <4>1. TakesOver(place, map) => os[map[place]].target \in {UNDEFINED, current}
        BY <1>2, BaseTargets DEF TakesOver
      <4> QED BY <1>4, <3>1, <4>1
    <3>3. objects[spec].target \notin {UNDEFINED, current}
      BY <1>10, <3>1, <3>2
    <3>4. objects = object /\ Applied(spec) /\ spec \in 1..Len(object)
      BY <1>1, <3>3, GivenSpec, AppliedType
    <3>8. PICK t : t = object[spec].target
      OBVIOUS
    <3>9. t # UNDEFINED /\ t # current /\ t \in Classes
      <4>1. object[spec] \in Specs
        <5>1. object \in Seq(Specs) /\ spec \in 1..Len(object)
          BY <1>1, <1>10, <3>4 DEF MetaTypes
        <5> QED BY <5>1, ElementOfSeq
      <4> QED BY <3>3, <3>4, <3>8, <4>1 DEF Specs
    <3>10. t <= current /\ AppliedTo(t, spec)
      BY <1>1, <3>4, <3>8, <3>9 DEF MapsApart, Named
    <3>11. t \in 1..(current - 1)
      BY <1>1, <3>9, <3>10 DEF Classes
    <3>12. spec \in Foreign
      BY <3>10, <3>11 DEF Foreign, Range, AppliedTo
    <3> QED BY <2>1, <3>12 DEF Excused
  <2> QED BY <1>12, <2>1, <2>2, <2>3
<1> QED BY <1>11, <1>12


(*-------------------------------------------------------------------------*)
(* DecoratorFactories: a decorator is applied                              *)
(*-------------------------------------------------------------------------*)

(* A decorator is applied, and raises no error.                            *)
Merging(place, objects, spec, map, os, result) ==
  /\ Factories!FactoryAssumption /\ DInv
  /\ place \in Places /\ Factories!Target(place) /\ Given(objects, spec)
  /\ Merges(place, objects, spec, map, os, result)

LEMMA AfterSpecs ==
  ASSUME NEW place, NEW objects, NEW spec, NEW map, NEW os, NEW result,
         Merging(place, objects, spec, map, os, result)
  PROVE  /\ object' \in Seq(Specs) /\ Len(object') = Len(os) /\ os \in Seq(Specs)
         /\ Len(object) \in Nat /\ Len(objects) \in Nat /\ Len(os) \in Nat
         /\ Len(object) <= Len(objects) /\ Len(objects) <= Len(os)
         /\ result \in 1..Len(os) /\ spec \in 1..Len(objects)
         /\ object'[result].target = current
         /\ object'[result].fields = Assign(os[result].fields, os[spec].fields)
         /\ \A s \in 1..Len(os) : s # result => object'[s] = os[s]
         /\ \A s \in 1..Len(object) : os[s] = object[s]
         /\ spec > Len(object) => os[spec].target = UNDEFINED
         /\ os[spec] \in Specs
<1>1. /\ MetaTypes /\ current \in Classes /\ Given(objects, spec)
      /\ Merges(place, objects, spec, map, os, result) /\ Based(objects, map, os)
  BY DEF Merging, Merges, DInv, MetaTypes
<1>2. /\ objects \in Seq(Specs) /\ spec \in 1..Len(objects) /\ Len(object) \in Nat
      /\ Len(objects) \in Nat /\ Len(object) <= Len(objects)
      /\ \A i \in 1..Len(object) : objects[i] = object[i]
      /\ spec > Len(object) => objects[spec].target = UNDEFINED
  BY <1>1, GivenSpec
<1>3. /\ os \in Seq(Specs) /\ Len(objects) <= Len(os) /\ Len(os) \in Nat
      /\ \A i \in 1..Len(objects) : os[i] = objects[i]
  BY <1>1 DEF Based
<1>4. result \in 1..Len(os)
  <2>1. TakesOver(place, map) => map[place] \in 1..Len(os)
    BY <1>1 DEF Based, TakesOver
  <2> QED BY <1>1, <1>2, <1>3, <2>1 DEF Merges
<1>5. PICK new : new = [fields |-> Assign(os[result].fields, os[spec].fields), target |-> current]
  OBVIOUS
<1>6. object' = [os EXCEPT ![result] = new]
  BY <1>1, <1>5 DEF Merges
<1>7. os[result] \in Specs /\ os[spec] \in Specs
  BY <1>2, <1>3, <1>4, ElementOfSeq
<1>8. new \in Specs
  <2>1. os[result].fields \in FieldMaps /\ os[spec].fields \in FieldMaps
    BY <1>7 DEF Specs
  <2>2. Assign(os[result].fields, os[spec].fields) \in FieldMaps
    <3>1. PICK f, g : f = os[result].fields /\ g = os[spec].fields
      OBVIOUS
    <3>2. PICK D \in SUBSET UNION Fields : f \in [D -> Nat \X Nat]
      BY <2>1, <3>1 DEF FieldMaps
    <3>3. PICK E \in SUBSET UNION Fields : g \in [E -> Nat \X Nat]
      BY <2>1, <3>1 DEF FieldMaps
    <3>4. D \cup E \in SUBSET UNION Fields /\ Assign(f, g) \in [D \cup E -> Nat \X Nat]
      BY <3>2, <3>3 DEF Assign
    <3> QED BY <3>1, <3>4 DEF FieldMaps
  <2> QED BY <1>1, <1>5, <2>2 DEF Specs
<1>9. /\ object' \in Seq(Specs) /\ Len(object') = Len(os) /\ object'[result] = new
      /\ \A s \in 1..Len(os) : s # result => object'[s] = os[s]
  BY <1>3, <1>4, <1>6, <1>8
<1>10. /\ \A s \in 1..Len(object) : os[s] = object[s]
       /\ os[spec] = objects[spec]
  BY <1>2, <1>3
<1> QED BY <1>2, <1>3, <1>4, <1>5, <1>7, <1>9, <1>10

LEMMA AfterMaps ==
  ASSUME NEW place, NEW objects, NEW spec, NEW map, NEW os, NEW result,
         Merging(place, objects, spec, map, os, result)
  PROVE  /\ current \in Classes /\ meta' = [c \in Classes |-> meta'[c]]
         /\ DOMAIN map \subseteq Places /\ place \in Places
         /\ \A p \in DOMAIN map : map[p] \in 1..Len(os)
         /\ meta'[current] # UNDEFINED
         /\ meta'[current] \in [DOMAIN map \cup {place} -> 1..Len(os)]
         /\ DOMAIN meta'[current] = DOMAIN map \cup {place}
         /\ meta'[current][place] = result
         /\ \A p \in DOMAIN map : p # place => meta'[current][p] = map[p]
         /\ \A d \in Classes : d # current => meta'[d] = meta[d]
<1>1. /\ MetaTypes /\ current \in Classes /\ place \in Places
      /\ Merges(place, objects, spec, map, os, result) /\ Based(objects, map, os)
  BY DEF Merging, Merges, DInv, MetaTypes
<1>2. map \in [DOMAIN map -> 1..Len(os)] /\ DOMAIN map \subseteq Places
  BY <1>1 DEF Based
<1>3. result \in 1..Len(os) /\ Len(os) \in Nat
  BY AfterSpecs
<1>4. PICK w : w = Factories!With(map, place, result)
  OBVIOUS
<1>5. /\ w \in [DOMAIN map \cup {place} -> 1..Len(os)] /\ w[place] = result
      /\ \A p \in DOMAIN map : p # place => w[p] = map[p]
  BY <1>2, <1>3, <1>4 DEF Factories!With
<1>6. w # UNDEFINED
  <2>1. PICK D : D = DOMAIN map \cup {place}
    OBVIOUS
  <2>2. w \in [D -> Nat]
    BY <1>3, <1>5, <2>1
  <2>3. Places \subseteq ({<<"">>} \cup Members \X (0..Parameters)) /\ D \subseteq Places
    <3>1. Parameters \in Nat
      BY DEF Merging, Factories!FactoryAssumption
    <3>2. 0..(Parameters - 1) \subseteq 0..Parameters /\ 0 \in 0..Parameters
      BY <3>1
    <3>3. Places \subseteq ({<<"">>} \cup Members \X (0..Parameters))
      BY <3>2 DEF Places
    <3> QED BY <1>1, <1>2, <2>1, <3>3
  <2>4. D \in SUBSET ({<<"">>} \cup Members \X (0..Parameters))
    BY <2>3
  <2> QED BY <2>2, <2>4, Zenon DEF Merging, Factories!FactoryAssumption
<1>7. meta' = [meta EXCEPT ![current] = w]
  BY <1>1, <1>4 DEF Merges
<1>8. meta = [c \in Classes |-> meta[c]]
  BY <1>1 DEF MetaTypes
<1>9. /\ meta' = [c \in Classes |-> meta'[c]] /\ meta'[current] = w
      /\ \A d \in Classes : d # current => meta'[d] = meta[d]
  BY <1>1, <1>7, <1>8
<1>10. DOMAIN w = DOMAIN map \cup {place}
  BY <1>5
<1> QED BY <1>1, <1>2, <1>5, <1>6, <1>9, <1>10

LEMMA AfterMap ==
  ASSUME NEW place, NEW objects, NEW spec, NEW map, NEW os, NEW result,
         Merging(place, objects, spec, map, os, result), NEW q \in DOMAIN meta'[current]
  PROVE  \/ q = place /\ meta'[current][q] = result
         \/ q # place /\ q \in DOMAIN map /\ meta'[current][q] = map[q]
<1>1. /\ meta = [c \in Classes |-> meta[c]] /\ current \in Classes
      /\ Merges(place, objects, spec, map, os, result)
  BY DEF Merging, DInv, MetaTypes
<1>2. PICK w : w = Factories!With(map, place, result)
  OBVIOUS
<1>3. meta' = [meta EXCEPT ![current] = w]
  BY <1>1, <1>2 DEF Merges
<1>4. meta'[current] = w
  BY <1>1, <1>3
<1> QED BY <1>2, <1>4 DEF Factories!With

LEMMA AfterApplied ==
  ASSUME NEW place, NEW objects, NEW spec, NEW map, NEW os, NEW result,
         Merging(place, objects, spec, map, os, result)
  PROVE  /\ applied \in [Classes -> Seq(Applications)] /\ applied' \in [Classes -> Seq(Applications)]
         /\ \A d \in Classes : d # current => applied'[d] = applied[d]
         /\ Len(applied[current]) \in Nat
         /\ Len(applied'[current]) = Len(applied[current]) + 1
         /\ \A i \in DOMAIN applied[current] : applied'[current][i] = applied[current][i]
         /\ applied'[current][Len(applied[current]) + 1] = Application(place, spec, os)
         /\ DOMAIN applied[current] = 1..Len(applied[current])
         /\ DOMAIN applied'[current] = 1..(Len(applied[current]) + 1)
<1>1. /\ MetaTypes /\ current \in Classes /\ place \in Places
      /\ Merges(place, objects, spec, map, os, result)
  BY DEF Merging, DInv, MetaTypes
<1>2. applied \in [Classes -> Seq(Applications)]
  BY <1>1 DEF MetaTypes
<1>3. PICK a : a = Application(place, spec, os)
  OBVIOUS
<1>4. a \in Applications
  <2>1. os[spec] \in Specs /\ spec \in Nat
    BY AfterSpecs
  <2> QED BY <1>1, <1>3, <2>1 DEF Application, Applications, Specs
<1>5. applied' = [applied EXCEPT ![current] = Append(applied[current], a)]
  BY <1>1, <1>3 DEF Merges
<1>6. PICK s : s = applied[current]
  OBVIOUS
<1>7. s \in Seq(Applications) /\ applied'[current] = Append(s, a)
  BY <1>1, <1>2, <1>5, <1>6
<1>8. /\ Append(s, a) \in Seq(Applications) /\ Len(Append(s, a)) = Len(s) + 1 /\ Len(s) \in Nat
      /\ \A i \in 1..Len(s) : Append(s, a)[i] = s[i]
      /\ Append(s, a)[Len(s) + 1] = a /\ DOMAIN s = 1..Len(s) /\ DOMAIN Append(s, a) = 1..(Len(s) + 1)
  BY <1>4, <1>7, AppendProperties
<1>9. /\ applied' \in [Classes -> Seq(Applications)]
      /\ \A d \in Classes : d # current => applied'[d] = applied[d]
  BY <1>1, <1>2, <1>5, <1>6, <1>7, <1>8
<1> QED BY <1>2, <1>3, <1>6, <1>7, <1>8, <1>9

(* Which specs have been applied before and after.                         *)
LEMMA AppliedAfter ==
  ASSUME NEW place, NEW objects, NEW spec, NEW map, NEW os, NEW result,
         Merging(place, objects, spec, map, os, result)
  PROVE  /\ \A d \in Classes : \A s : AppliedTo(d, s)' <=> (AppliedTo(d, s) \/ (d = current /\ s = spec))
         /\ \A s : Applied(s)' <=> (Applied(s) \/ s = spec)
         /\ \A s \in 1..Len(object) : Applied(s)' => Applied(s)
         /\ \A s : Applied(s) => s \in 1..Len(object)
<1>1. MetaTypes /\ current \in Classes /\ Given(objects, spec)
  BY DEF Merging, DInv, MetaTypes
<1>2. ASSUME NEW d \in Classes, NEW s
      PROVE  AppliedTo(d, s)' <=> (AppliedTo(d, s) \/ (d = current /\ s = spec))
  <2>1. CASE d # current
    BY <2>1, AfterApplied DEF AppliedTo
  <2>2. CASE d = current
    <3>1. applied'[current][Len(applied[current]) + 1].spec = spec
      <4>1. Application(place, spec, os).spec = spec
        BY DEF Application
      <4> QED BY <4>1, AfterApplied
    <3>2. PICK before, after : before = applied[current] /\ after = applied'[current]
      OBVIOUS
    <3>3. /\ Len(before) \in Nat /\ DOMAIN before = 1..Len(before) /\ DOMAIN after = 1..(Len(before) + 1)
          /\ \A i \in DOMAIN before : after[i] = before[i]
          /\ after[Len(before) + 1].spec = spec
      BY <3>1, <3>2, AfterApplied
    <3>4. (\E i \in DOMAIN after : after[i].spec = s) <=> ((\E i \in DOMAIN before : before[i].spec = s) \/ s = spec)
      BY <3>3
    <3> QED BY <2>2, <3>2, <3>4 DEF AppliedTo
  <2> QED BY <2>1, <2>2
<1>3. \A s : Applied(s)' <=> (Applied(s) \/ s = spec)
  <2>1. ASSUME NEW s PROVE Applied(s)' <=> \E d \in Classes : AppliedTo(d, s)'
    BY DEF Applied, Classes
  <2>2. ASSUME NEW s PROVE Applied(s) <=> \E d \in Classes : AppliedTo(d, s)
    BY DEF Applied
  <2> QED BY <1>1, <1>2, <2>1, <2>2
<1>4. \A s : Applied(s) => s \in 1..Len(object)
  BY <1>1, AppliedType
<1>5. spec <= Len(object) => Applied(spec)
  BY <1>1, GivenSpec
<1> QED BY <1>2, <1>3, <1>4, <1>5

(* The map of the class, and the result, share no spec with other classes. *)
LEMMA ResultApart ==
  ASSUME NEW place, NEW objects, NEW spec, NEW map, NEW os, NEW result,
         Merging(place, objects, spec, map, os, result),
         NEW d \in Classes, d # current, meta[d] # UNDEFINED, NEW q \in DOMAIN meta[d]
  PROVE  /\ meta[d][q] # result
         /\ \A p \in DOMAIN map : meta[d][q] # map[p]
<1>1. /\ MetaTypes /\ MapsApart /\ current \in Classes /\ Based(objects, map, os)
      /\ Merges(place, objects, spec, map, os, result)
  BY DEF Merging, Merges, DInv, MetaTypes
<1>2. meta[d][q] \in 1..Len(object)
  BY <1>1, MapType
<1>3. ASSUME NEW p \in DOMAIN map PROVE meta[d][q] # map[p]
  <2>1. CASE meta[current] = UNDEFINED
    <3>1. map[p] > Len(objects) /\ map[p] \in 1..Len(os)
      BY <1>1, <2>1, AfterMaps DEF Based
    <3> QED BY <1>2, <3>1, AfterSpecs
  <2>2. CASE meta[current] # UNDEFINED
    <3>1. map = meta[current] /\ MapApart(current)
      BY <1>1, <2>2 DEF Based, MapsApart
    <3> QED BY <1>3, <3>1 DEF MapApart
  <2> QED BY <2>1, <2>2
<1>4. meta[d][q] # result
  <2>1. CASE TakesOver(place, map)
    <3>1. result = map[place] /\ place \in DOMAIN map
      BY <1>1, <2>1 DEF Merges, TakesOver
    <3> QED BY <1>3, <3>1
  <2>2. CASE ~TakesOver(place, map)
    <3>1. result = spec
      BY <1>1, <2>2 DEF Merges
    <3>2. SUFFICES ASSUME meta[d][q] = spec PROVE FALSE
      BY <3>1
    <3>3. spec \in 1..Len(object) /\ os[spec] = object[spec]
      BY <1>2, <3>2, AfterSpecs
    <3>4. Applied(spec)
      BY <3>3, AppliedAfter
    <3>5. object[spec].target = d
      <4>1. MapApart(d)
        BY <1>1 DEF MapsApart
      <4> QED BY <3>2, <3>4, <4>1 DEF MapApart
    <3>6. object[spec].target \in {UNDEFINED, current}
      BY <1>1, <3>1, <3>3 DEF Merges
    <3>7. d # UNDEFINED
      <4>1. UNDEFINED \notin Nat /\ d \in Nat
        <5>1. UNDEFINED \notin Nat
          BY Zenon DEF Merging, Factories!FactoryAssumption
        <5> QED BY <5>1 DEF Classes
      <4> QED BY <4>1
    <3> QED BY <3>5, <3>6, <3>7
  <2> QED BY <2>1, <2>2
<1> QED BY <1>3, <1>4

LEMMA MergedTypes ==
  ASSUME NEW place, NEW objects, NEW spec, NEW map, NEW os, NEW result,
         Merging(place, objects, spec, map, os, result)
  PROVE  MetaTypes'
<1>1. MetaTypes /\ Merges(place, objects, spec, map, os, result) /\ place \in Places
  BY DEF Merging, DInv
<1>2. UNCHANGED <<kind, allowInheritance, current, raised>>
  BY <1>1 DEF Merges
<1>3. Places' = Places /\ Applications' = Applications
  BY <1>2 DEF Places, Applications
<1>4. /\ kind \in Factories!Kinds /\ allowInheritance \in BOOLEAN /\ current \in Classes
      /\ index \in [Classes -> [Members -> Int]]
  BY <1>1 DEF MetaTypes
<1>5. ASSUME NEW c \in Classes, meta'[c] # UNDEFINED
      PROVE  meta'[c] \in [DOMAIN meta'[c] -> 1..Len(object')] /\ DOMAIN meta'[c] \subseteq Places
  <2>1. CASE c = current
    <3>1. PICK D : D = DOMAIN map \cup {place}
      OBVIOUS
    <3>2. meta'[c] \in [D -> 1..Len(os)] /\ DOMAIN meta'[c] = D
      BY <2>1, <3>1, AfterMaps
    <3>3. D \subseteq Places
      BY <3>1, AfterMaps
    <3>4. Len(object') = Len(os)
      BY AfterSpecs
    <3> QED BY <3>2, <3>3, <3>4
  <2>2. CASE c # current
    <3>1. meta'[c] = meta[c]
      BY <2>2, AfterMaps
    <3>2. meta[c] \in [DOMAIN meta[c] -> 1..Len(object)] /\ DOMAIN meta[c] \subseteq Places
      BY <1>1, <1>5, <3>1, MapType
    <3>3. 1..Len(object) \subseteq 1..Len(object')
      BY AfterSpecs
    <3> QED BY <3>1, <3>2, <3>3
  <2> QED BY <2>1, <2>2
<1>6. index' \in [Classes -> [Members -> Int]]
  <2>1. CASE kind # "methodParameter"
    BY <1>1, <1>4, <2>1 DEF Merges
  <2>2. CASE kind = "methodParameter"
    <3>1. place[1] \in Members
      BY <1>1, <2>2 DEF Places
    <3>2. index' = [index EXCEPT ![current][place[1]] = @ - 1]
      BY <1>1, <2>2 DEF Merges
    <3> QED BY <1>4, <3>1, <3>2
  <2> QED BY <2>1, <2>2
<1>7. ASSUME NEW c \in Classes, NEW i \in DOMAIN applied'[c]
      PROVE  applied'[c][i].spec \in 1..Len(object')
  <2>2. PICK s : s = applied'[c][i].spec
    OBVIOUS
  <2>3. AppliedTo(c, s)'
    BY <1>7, <2>2 DEF AppliedTo
  <2>4. AppliedTo(c, s) \/ s = spec
    BY <2>3, AppliedAfter
  <2>5. AppliedTo(c, s) => s \in 1..Len(object)
    BY AppliedAfter DEF Applied
  <2> QED BY <2>2, <2>4, <2>5, AfterSpecs
<1>8. /\ kind' \in Factories!Kinds /\ allowInheritance' \in BOOLEAN /\ current' \in Classes
      /\ object' \in Seq(Specs) /\ meta' = [c \in Classes |-> meta'[c]]
      /\ applied' \in [Classes -> Seq(Applications)]
  BY <1>2, <1>4, AfterSpecs, AfterMaps, AfterApplied
<1> QED BY <1>2, <1>3, <1>5, <1>6, <1>7, <1>8 DEF MetaTypes

(* The map of the class after the step: what is in it bears its name if it *)
(* has been applied.                                                       *)
LEMMA MergedMap ==
  ASSUME NEW place, NEW objects, NEW spec, NEW map, NEW os, NEW result,
         Merging(place, objects, spec, map, os, result),
         NEW p \in DOMAIN map, map[p] # result
  PROVE  /\ object'[map[p]] = os[map[p]]
         /\ os[map[p]].target \in {UNDEFINED, current}
         /\ Applied(map[p])' => os[map[p]].target = current
<1>1. /\ MetaTypes /\ MapsApart /\ current \in Classes /\ Based(objects, map, os)
      /\ Given(objects, spec) /\ DInv /\ Factories!FactoryAssumption
  BY DEF Merging, Merges, DInv, MetaTypes
<1>2. map[p] \in 1..Len(os)
  BY AfterMaps
<1>3. object'[map[p]] = os[map[p]]
  BY <1>2, AfterSpecs
<1>4. os[map[p]].target \in {UNDEFINED, current}
  BY <1>1, BaseTargets
<1>5. ASSUME Applied(map[p])' PROVE os[map[p]].target = current
  <2>0. PICK s : s = map[p]
    OBVIOUS
  <2>1. CASE meta[current] = UNDEFINED
    <3>1. s > Len(objects)
      BY <1>1, <2>0, <2>1 DEF Based
    <3>2. Applied(s) \/ s = spec
      BY <1>5, <2>0, AppliedAfter
    <3>3. s \in 1..Len(object) \/ s = spec
      BY <3>2, AppliedAfter
    <3> QED BY <3>1, <3>3, AfterSpecs
  <2>2. CASE meta[current] # UNDEFINED
    <3>1. map = meta[current] /\ MapApart(current)
      BY <1>1, <2>2 DEF Based, MapsApart
    <3>2. s \in 1..Len(object) /\ os[s] = object[s]
      BY <1>1, <2>0, <2>2, <3>1, MapType, AfterSpecs
    <3>3. Applied(s)
      BY <1>5, <2>0, <3>2, AppliedAfter
    <3> QED BY <2>0, <3>1, <3>2, <3>3 DEF MapApart
  <2> QED BY <2>1, <2>2
<1> QED BY <1>3, <1>4, <1>5

LEMMA MergedMapsApart ==
  ASSUME NEW place, NEW objects, NEW spec, NEW map, NEW os, NEW result,
         Merging(place, objects, spec, map, os, result),
         NEW c \in Classes, meta'[c] # UNDEFINED
  PROVE  MapApart(c)'
<1>1. /\ MetaTypes /\ MapsApart /\ current \in Classes /\ Based(objects, map, os)
      /\ current' = current
  BY DEF Merging, Merges, DInv, MetaTypes
<1>2. SUFFICES ASSUME NEW p \in DOMAIN meta'[c], NEW s, s = meta'[c][p]
               PROVE  /\ object'[s].target \in {UNDEFINED, c}
                      /\ Applied(s)' => object'[s].target = c
                      /\ \A d \in Classes : d # c /\ meta'[d] # UNDEFINED =>
                           \A q \in DOMAIN meta'[d] : meta'[d][q] # s
  BY DEF MapApart, Applied, AppliedTo, Classes
<1>4. CASE c = current
  <2>1. \A d \in Classes : d # c => meta'[d] = meta[d]
    BY <1>4, AfterMaps
  <2>2. p \in DOMAIN map \cup {place}
    BY <1>2, <1>4, AfterMaps
  <2>3. CASE s = result
    <3>1. object'[s].target = c
      BY <1>4, <2>3, AfterSpecs
    <3>2. \A d \in Classes : d # c /\ meta'[d] # UNDEFINED => \A q \in DOMAIN meta'[d] : meta'[d][q] # s
      BY <1>4, <2>1, <2>3, ResultApart
    <3> QED BY <1>2, <3>1, <3>2
  <2>4. CASE s # result
    <3>1. p \in DOMAIN map /\ s = map[p]
      <4>1. p \in DOMAIN meta'[current] /\ s = meta'[current][p]
        BY <1>2, <1>4
      <4> QED BY <2>4, <4>1, AfterMap
    <3>2. /\ object'[s].target \in {UNDEFINED, c}
          /\ Applied(s)' => object'[s].target = c
      BY <1>4, <2>4, <3>1, MergedMap
    <3>3. \A d \in Classes : d # c /\ meta'[d] # UNDEFINED => \A q \in DOMAIN meta'[d] : meta'[d][q] # s
      BY <1>4, <2>1, <3>1, ResultApart
    <3> QED BY <1>2, <3>2, <3>3
  <2> QED BY <2>3, <2>4
<1>5. CASE c # current
  <2>1. meta'[c] = meta[c] /\ p \in DOMAIN meta[c] /\ s = meta[c][p]
    BY <1>2, <1>5, AfterMaps
  <2>2. MapApart(c) /\ s \in 1..Len(object)
    BY <1>1, <1>2, <2>1, MapType DEF MapsApart
  <2>3. s # result
    BY <1>5, <2>1, ResultApart
  <2>4. object'[s] = object[s]
    BY <2>2, <2>3, AfterSpecs
  <2>5. Applied(s)' => Applied(s)
    BY <2>2, AppliedAfter
  <2>6. /\ object'[s].target \in {UNDEFINED, c}
        /\ Applied(s)' => object'[s].target = c
    BY <2>1, <2>2, <2>4, <2>5 DEF MapApart
  <2>7. ASSUME NEW d \in Classes, d # c, meta'[d] # UNDEFINED, NEW q \in DOMAIN meta'[d]
        PROVE  meta'[d][q] # s
    <3>1. CASE d # current
      <4>1. meta'[d] = meta[d]
        BY <3>1, AfterMaps
      <4> QED BY <2>1, <2>2, <2>7, <4>1 DEF MapApart
    <3>2. CASE d = current
      <4>1. meta'[d][q] = result \/ (q \in DOMAIN map /\ meta'[d][q] = map[q])
        BY <2>7, <3>2, AfterMap
      <4>2. \A r \in DOMAIN map : s # map[r]
        BY <1>5, <2>1, ResultApart
      <4> QED BY <2>3, <4>1, <4>2
    <3> QED BY <3>1, <3>2
  <2> QED BY <1>2, <2>6, <2>7
<1> QED BY <1>4, <1>5

LEMMA MergedNames ==
  ASSUME NEW place, NEW objects, NEW spec, NEW map, NEW os, NEW result,
         Merging(place, objects, spec, map, os, result),
         NEW s \in 1..Len(object'), Applied(s)'
  PROVE  Named(s)'
<1>1. /\ MetaTypes /\ MapsApart /\ current \in Classes /\ Based(objects, map, os)
      /\ Merges(place, objects, spec, map, os, result)
      /\ current' = current /\ Given(objects, spec)
  BY DEF Merging, Merges, DInv, MetaTypes
<1>0. current \in Nat /\ UNDEFINED \notin Nat
  <2>1. UNDEFINED \notin Nat
    BY Zenon DEF Merging, Factories!FactoryAssumption
  <2> QED BY <1>1, <2>1 DEF Classes
<1>2. PICK t : t = object'[s].target
  OBVIOUS
<1>3. SUFFICES ASSUME t # UNDEFINED PROVE t \in Classes /\ t <= current /\ AppliedTo(t, s)'
  <2>1. Named(s)' <=> (t # UNDEFINED => t <= current /\ \E i \in DOMAIN applied'[t] : applied'[t][i].spec = s)
    BY <1>1, <1>2 DEF Named, AppliedTo
  <2>2. t \in Classes => (AppliedTo(t, s)' <=> \E i \in DOMAIN applied'[t] : applied'[t][i].spec = s)
    BY DEF AppliedTo
  <2> QED BY <2>1, <2>2
<1>4. ASSUME Applied(s), object[s].target = t
      PROVE  t \in Classes /\ t <= current /\ AppliedTo(t, s)'
  <2>1. s \in 1..Len(object)
    BY <1>4, AppliedAfter
  <2>2. Named(s)
    BY <1>1, <1>4, <2>1 DEF MapsApart
  <2>3. t <= current /\ AppliedTo(t, s)
    BY <1>3, <1>4, <2>2 DEF Named
  <2>4. object[s] \in Specs
    <3>1. object \in Seq(Specs)
      BY <1>1 DEF MetaTypes
    <3> QED BY <2>1, <3>1, ElementOfSeq
  <2>5. t \in Classes
    BY <1>3, <1>4, <2>4 DEF Specs
  <2> QED BY <2>3, <2>5, AppliedAfter
<1>5. Applied(s) \/ s = spec
  BY AppliedAfter
<1>6. CASE s = result
  <2>1. t = current
    BY <1>2, <1>6, AfterSpecs
  <2>2. AppliedTo(t, s)'
    <3>1. CASE s = spec
      BY <1>1, <2>1, <3>1, AppliedAfter
    <3>2. CASE s # spec
      <4>1. Applied(s) /\ s \in 1..Len(object)
        BY <1>5, <3>2, AppliedAfter
      <4>2. place \in DOMAIN map /\ s = map[place]
        BY <1>1, <1>6, <3>2 DEF Merges, TakesOver
      <4>3. meta[current] # UNDEFINED
        <5>1. meta[current] = UNDEFINED => s > Len(objects)
          BY <1>1, <4>2 DEF Based
        <5> QED BY <4>1, <5>1, AfterSpecs
      <4>4. map = meta[current] /\ MapApart(current)
        BY <1>1, <4>3 DEF Based, MapsApart
      <4>5. object[s].target = current
        BY <4>1, <4>2, <4>4 DEF MapApart
      <4> QED BY <1>4, <2>1, <4>1, <4>5
    <3> QED BY <3>1, <3>2
  <2> QED BY <1>0, <1>1, <2>1, <2>2
<1>7. CASE s # result
  <2>1. object'[s] = os[s]
    BY <1>7, AfterSpecs
  <2>2. CASE Applied(s)
    <3>1. os[s] = object[s]
      BY <2>2, AppliedAfter, AfterSpecs
    <3> QED BY <1>2, <1>4, <2>1, <2>2, <3>1
  <2>3. CASE ~Applied(s)
    <3>1. s = spec /\ spec > Len(object)
      <4>1. s = spec
        BY <1>5, <2>3
      <4> QED BY <1>1, <2>3, <4>1, GivenSpec
    <3> QED BY <1>2, <1>3, <2>1, <3>1, AfterSpecs
  <2> QED BY <2>2, <2>3
<1> QED BY <1>6, <1>7

LEMMA MergedApart ==
  ASSUME NEW place, NEW objects, NEW spec, NEW map, NEW os, NEW result,
         Merging(place, objects, spec, map, os, result)
  PROVE  MapsApart'
<1>1. /\ MetaTypes /\ MapsApart /\ current \in Classes /\ Factories!Target(place) /\ place \in Places
      /\ Merges(place, objects, spec, map, os, result)
      /\ current' = current /\ kind' = kind
  BY DEF Merging, Merges, DInv, MetaTypes
<1>2. Decorated'
  <2>1. Decorated /\ current \in Int
    BY <1>1 DEF MapsApart, Classes
  <2>2. applied'[current] # <<>>
    <3>1. 1 \in DOMAIN applied'[current]
      BY AfterApplied
    <3>2. DOMAIN <<>> = {}
      OBVIOUS
    <3> QED BY <3>1, <3>2
  <2>3. ASSUME NEW c \in Classes
        PROVE  /\ meta'[c] = UNDEFINED <=> applied'[c] = <<>>
               /\ c > current => meta'[c] = UNDEFINED
    <3>1. CASE c = current
      <4>1. meta'[current] # UNDEFINED
        BY AfterMaps
      <4> QED BY <2>1, <2>2, <3>1, <4>1
    <3>2. CASE c # current
      BY <2>1, <3>2, AfterMaps, AfterApplied DEF Decorated
    <3> QED BY <3>1, <3>2
  <2> QED BY <1>1, <2>3 DEF Decorated, Classes
<1>3. CountsDown'
  <2>1. SUFFICES ASSUME kind = "methodParameter", NEW c \in Classes, NEW i \in DOMAIN applied'[c]
                 PROVE  applied'[c][i].place[2] > index'[c][applied'[c][i].place[1]]
    BY <1>1 DEF CountsDown, Classes
  <2>2. /\ index' = [index EXCEPT ![current][place[1]] = @ - 1]
        /\ index \in [Classes -> [Members -> Int]]
        /\ place[2] = index[current][place[1]] /\ place[1] \in Members
    BY <1>1, <2>1 DEF Merges, MetaTypes, Factories!Target, Places
  <2>3. \A d \in Classes : \A m \in Members :
          /\ index[d][m] \in Int /\ index'[d][m] \in Int /\ index'[d][m] <= index[d][m]
          /\ d = current /\ m = place[1] => index'[d][m] = index[d][m] - 1
    BY <2>2
  <2>4. CASE i \in DOMAIN applied[c] /\ applied'[c][i] = applied[c][i]
    <3>1. PICK old : old = applied[c][i].place
      OBVIOUS
    <3>2. old[2] > index[c][old[1]]
      BY <1>1, <2>1, <2>4, <3>1 DEF MapsApart, CountsDown
    <3>3. old \in Places
      <4>1. applied[c] \in Seq(Applications)
        BY AfterApplied
      <4>2. applied[c][i] \in Applications
        BY <2>4, <4>1, ElementOfSeq
      <4> QED BY <3>1, <4>2 DEF Applications
    <3>4. old[1] \in Members /\ old[2] \in Int
      BY <2>1, <3>3 DEF Places
    <3> QED BY <2>3, <2>4, <3>1, <3>2, <3>4
  <2>5. CASE c = current /\ applied'[c][i] = Application(place, spec, os)
    <3>1. applied'[c][i].place = place
      BY <2>5 DEF Application
    <3> QED BY <1>1, <2>2, <2>3, <2>5, <3>1
  <2>6. \/ i \in DOMAIN applied[c] /\ applied'[c][i] = applied[c][i]
        \/ c = current /\ applied'[c][i] = Application(place, spec, os)
    <3>1. CASE c # current
      BY <2>1, <3>1, AfterApplied
    <3>2. CASE c = current
      BY <2>1, <3>2, AfterApplied
    <3> QED BY <3>1, <3>2
  <2> QED BY <2>4, <2>5, <2>6
<1>4. \A c \in Classes : meta'[c] # UNDEFINED => MapApart(c)'
  BY MergedMapsApart
<1>5. \A s \in 1..Len(object') : Applied(s)' => Named(s)'
  BY MergedNames
<1> QED BY <1>2, <1>3, <1>4, <1>5 DEF MapsApart, Classes

(* The bases keep their metadata.                                          *)
LEMMA EarlierMetadata ==
  ASSUME NEW place, NEW objects, NEW spec, NEW map, NEW os, NEW result,
         Merging(place, objects, spec, map, os, result), NEW d \in Nat, d < current
  PROVE  Metadata(d)' = Metadata(d)
<1>1. MetaTypes /\ current \in Classes /\ Depth \in Nat
  <2>1. Depth \in Nat
    BY Zenon DEF Merging, Factories!FactoryAssumption
  <2> QED BY <2>1 DEF Merging, DInv, MetaTypes
<1>2. \A e \in 1..d : e \in Classes /\ e # current
  BY <1>1 DEF Classes
<1>3. \A e \in 1..d : meta'[e] = meta[e]
  BY <1>2, AfterMaps
<1>4. PICK S : S = {e \in 1..d : meta[e] # UNDEFINED}
  OBVIOUS
<1>5. S = {e \in 1..d : meta'[e] # UNDEFINED}
  BY <1>3, <1>4
<1>6. S # {} => Max(S) \in S
  <2>1. S \in SUBSET (1..d)
    BY <1>4
  <2> QED BY <2>1, LeastAndGreatest
<1>7. PICK from : from = GetMetadata(d)
  OBVIOUS
<1>8. from = IF S = {} THEN Empty ELSE meta[Max(S)]
  BY <1>4, <1>7 DEF GetMetadata
<1>9. GetMetadata(d)' = IF S = {} THEN Empty ELSE meta'[Max(S)]
  BY <1>5 DEF GetMetadata, Empty
<1>10. GetMetadata(d)' = from
  BY <1>3, <1>4, <1>6, <1>8, <1>9
<1>11. ASSUME NEW p \in DOMAIN from PROVE object'[from[p]] = object[from[p]]
  <2>1. S # {}
    BY <1>8, <1>11 DEF Empty
  <2>2. PICK e \in Classes : e # current /\ meta[e] # UNDEFINED /\ from = meta[e]
    BY <1>2, <1>4, <1>6, <1>8, <2>1
  <2>3. from[p] \in 1..Len(object)
    BY <1>1, <1>11, <2>2, MapType
  <2>4. from[p] # result
    BY <1>11, <2>2, ResultApart
  <2>5. from[p] \in 1..Len(os)
    BY <2>3, AfterSpecs
  <2> QED BY <2>3, <2>4, <2>5, AfterSpecs
<1>12. Metadata(d) = [p \in DOMAIN from |-> object[from[p]].fields]
  BY <1>7 DEF Metadata
<1>13. Metadata(d)' = [p \in DOMAIN from |-> object'[from[p]].fields]
  BY <1>10 DEF Metadata
<1> QED BY <1>11, <1>12, <1>13

(* Functions that have been applied twice remain so.                       *)
LEMMA AppliedKept ==
  ASSUME NEW place, NEW objects, NEW spec, NEW map, NEW os, NEW result,
         Merging(place, objects, spec, map, os, result),
         NEW d \in Classes, NEW i \in DOMAIN applied[d]
  PROVE  i \in DOMAIN applied'[d] /\ applied'[d][i] = applied[d][i]
<1>1. CASE d # current
  BY <1>1, AfterApplied
<1>2. CASE d = current
  BY <1>2, AfterApplied
<1> QED BY <1>1, <1>2

LEMMA ShownBefore ==
  ASSUME NEW place, NEW objects, NEW spec, NEW map, NEW os, NEW result,
         Merging(place, objects, spec, map, os, result), NEW c \in Shown'
  PROVE  c \in Shown /\ (c = current => ~AppliedTo(current, spec))
<1>1. c \in Classes /\ Depth \in Nat /\ current \in Classes
  <2>1. Depth \in Nat
    BY Zenon DEF Merging, Factories!FactoryAssumption
  <2> QED BY <2>1 DEF Shown, Merging, DInv, MetaTypes
<1>2. ASSUME NEW d \in 1..c, NEW e \in 1..c, NEW i \in DOMAIN applied'[d], NEW j \in DOMAIN applied'[e],
             applied'[d][i].spec = applied'[e][j].spec
      PROVE  d = e /\ i = j
  BY <1>2 DEF Shown, Shared
<1>3. 1..c \subseteq Classes
  BY <1>1 DEF Classes
<1>4. c \in Shown
  <2>1. SUFFICES ASSUME NEW d \in 1..c, NEW e \in 1..c, NEW i \in DOMAIN applied[d], NEW j \in DOMAIN applied[e],
                        applied[d][i].spec = applied[e][j].spec
                 PROVE  <<d, i>> = <<e, j>>
    BY <1>1 DEF Shown, Shared
  <2>2. /\ i \in DOMAIN applied'[d] /\ applied'[d][i] = applied[d][i]
        /\ j \in DOMAIN applied'[e] /\ applied'[e][j] = applied[e][j]
    BY <1>3, AppliedKept
  <2> QED BY <1>2, <2>1, <2>2
<1>5. ASSUME c = current, AppliedTo(current, spec) PROVE FALSE
  <2>1. PICK i \in DOMAIN applied[current] : applied[current][i].spec = spec
    BY <1>5 DEF AppliedTo
  <2>2. PICK j : j = Len(applied[current]) + 1
    OBVIOUS
  <2>3. /\ i \in 1..Len(applied[current]) /\ Len(applied[current]) \in Nat
        /\ j \in DOMAIN applied'[current] /\ applied'[current][j] = Application(place, spec, os)
    BY <2>2, AfterApplied
  <2>4. applied'[current][j].spec = spec
    BY <2>3 DEF Application
  <2>5. i \in DOMAIN applied'[current] /\ applied'[current][i].spec = spec
    BY <1>1, <2>1, AppliedKept
  <2>6. c \in 1..c
    BY <1>1 DEF Classes
  <2>7. i = j
    BY <1>2, <1>5, <2>3, <2>4, <2>5, <2>6
  <2> QED BY <2>2, <2>3, <2>7
<1> QED BY <1>4, <1>5

(* What is merged into a class, from its base and its own.                 *)
MergedFrom(base, own, fields, inheriting) ==
  [p \in DOMAIN base \cup own |->
     IF p \notin own THEN base[p]
     ELSE IF p \in DOMAIN base \cap inheriting THEN Assign(base[p], fields[p])
     ELSE fields[p]]

LEMMA OwnFieldsOf ==
  ASSUME NEW s, NEW i \in DOMAIN s,
         \A j, k \in DOMAIN s : s[j].place = s[k].place => j = k
  PROVE  (CHOOSE a \in Range(s) : a.place = s[i].place) = s[i]
<1>1. s[i] \in Range(s)
  BY DEF Range
<1>2. \A a \in Range(s) : a.place = s[i].place => a = s[i]
  BY DEF Range
<1> QED BY <1>1, <1>2

(* The metadata are merged the same way from the same.                     *)
LEMMA SameMerged ==
  ASSUME NEW c, applied'[c] = applied[c], kind' = kind, allowInheritance' = allowInheritance,
         Metadata(c - 1)' = Metadata(c - 1)
  PROVE  /\ OwnPlaces(c)' = OwnPlaces(c)
         /\ Merged(c, InheritingPlaces(c))' = Merged(c, InheritingPlaces(c))
<1>1. InheritingPlaces(c)' = InheritingPlaces(c)
  BY DEF InheritingPlaces, Places, IsFirst
<1>2. OwnPlaces(c)' = OwnPlaces(c)
  BY DEF OwnPlaces
<1>3. \A p : OwnFields(c, p)' = OwnFields(c, p)
  BY Zenon DEF OwnFields
<1>4. PICK base, own, fields, inh :
        /\ base = IF applied[c] = <<>> \/ allowInheritance THEN Metadata(c - 1) ELSE Empty
        /\ own = OwnPlaces(c) /\ inh = InheritingPlaces(c)
        /\ fields = [p \in own |-> OwnFields(c, p)]
  OBVIOUS
<1>5. Merged(c, InheritingPlaces(c)) = MergedFrom(base, own, fields, inh)
  BY <1>4 DEF Merged, MergedFrom
<1>6. /\ base = (IF applied[c] = <<>> \/ allowInheritance THEN Metadata(c - 1) ELSE Empty)'
      /\ own = OwnPlaces(c)' /\ inh = InheritingPlaces(c)'
      /\ fields = [p \in own |-> OwnFields(c, p)']
  <2>1. base = (IF applied[c] = <<>> \/ allowInheritance THEN Metadata(c - 1) ELSE Empty)'
    BY <1>4 DEF Empty
  <2> QED BY <1>1, <1>2, <1>3, <1>4, <2>1
<1>7. Merged(c, InheritingPlaces(c))' = MergedFrom(base, own, fields, inh)
  BY <1>6 DEF Merged, MergedFrom
<1> QED BY <1>2, <1>5, <1>7

(* The bases' maps are as they should be after the step.                   *)
LEMMA RightBelow ==
  ASSUME NEW place, NEW objects, NEW spec, NEW map, NEW os, NEW result,
         Merging(place, objects, spec, map, os, result),
         NEW c \in Shown', c # current, meta'[c] # UNDEFINED
  PROVE  MapRight(c)'
<1>1. /\ c \in Classes /\ current \in Classes /\ MetaTypes /\ MapsApart
      /\ \A d \in Shown : meta[d] # UNDEFINED => MapRight(d)
      /\ Merges(place, objects, spec, map, os, result)
  BY DEF Shown, Merging, DInv, MetaTypes
<1>2. meta'[c] = meta[c] /\ applied'[c] = applied[c]
  BY <1>1, AfterMaps, AfterApplied
<1>3. kind' = kind /\ allowInheritance' = allowInheritance
  BY <1>1 DEF Merges
<1>4. MapRight(c)
  BY <1>1, <1>2, ShownBefore
<1>5. c < current
  <2>1. ~(c > current)
    BY <1>1, <1>2 DEF MapsApart, Decorated
  <2> QED BY <1>1, <2>1 DEF Classes
<1>6. Metadata(c)' = Metadata(c) /\ Metadata(c - 1)' = Metadata(c - 1)
  <2>1. c \in Nat /\ c - 1 \in Nat /\ c - 1 < current /\ current \in Nat
    BY <1>1, <1>5 DEF Classes
  <2> QED BY <1>5, <2>1, EarlierMetadata
<1>7. Merged(c, InheritingPlaces(c))' = Merged(c, InheritingPlaces(c))
  BY <1>2, <1>3, <1>6, SameMerged
<1>8. \A p \in DOMAIN meta[c] : object'[meta[c][p]] = object[meta[c][p]]
  <2>1. SUFFICES ASSUME NEW p \in DOMAIN meta[c] PROVE object'[meta[c][p]] = object[meta[c][p]]
    OBVIOUS
  <2>2. meta[c][p] \in 1..Len(object) /\ meta[c] # UNDEFINED
    BY <1>1, <1>2, MapType
  <2>3. meta[c][p] # result
    BY <1>1, <2>2, ResultApart
  <2> QED BY <2>2, <2>3, AfterSpecs
<1>9. OwnPlaces(c)' = OwnPlaces(c)
  BY <1>2 DEF OwnPlaces
<1> QED BY <1>2, <1>4, <1>6, <1>7, <1>8, <1>9 DEF MapRight

(* The class that is decorated, unless it shares a function with a base:   *)
(* the map before the step, with the fields that it should have.           *)
MapBefore(map, os, place, result) ==
  LET own == OwnPlaces(current)
      fields == [p \in own |-> OwnFields(current, p)] IN
  /\ place \notin own /\ own \subseteq DOMAIN map
  /\ \A p, q \in DOMAIN map : map[p] = map[q] => p = q
  /\ \A p \in DOMAIN map : p # place => map[p] # result
  /\ \A p \in DOMAIN map : os[map[p]].target = current <=> p \in own
  /\ \A i, j \in DOMAIN applied[current] :
       applied[current][i].place = applied[current][j].place => i = j
  /\ [p \in DOMAIN map |-> os[map[p]].fields] =
       MergedFrom(BaseFields, own, fields, InheritingPlaces(current))

LEMMA BeforeFirst ==
  ASSUME NEW place, NEW objects, NEW spec, NEW map, NEW os, NEW result,
         Merging(place, objects, spec, map, os, result),
         current \in Shown, meta[current] = UNDEFINED
  PROVE  MapBefore(map, os, place, result)
<1>1. /\ MapsApart /\ current \in Classes /\ Based(objects, map, os)
      /\ Merges(place, objects, spec, map, os, result)
  BY DEF Merging, Merges, DInv, MetaTypes
<1>2. applied[current] = <<>> /\ DOMAIN applied[current] = {}
  <2>1. applied[current] = <<>>
    BY <1>1 DEF MapsApart, Decorated
  <2> QED BY <2>1
<1>3. OwnPlaces(current) = {}
  BY <1>2 DEF OwnPlaces, Range
<1>4. /\ DOMAIN map = DOMAIN BaseFields
      /\ \A p \in DOMAIN map : /\ map[p] > Len(objects)
                               /\ os[map[p]].target = UNDEFINED
                               /\ os[map[p]].fields = BaseFields[p]
      /\ \A p, q \in DOMAIN map : map[p] = map[q] => p = q
  BY <1>1 DEF Based
<1>5. current # UNDEFINED
  <2>1. UNDEFINED \notin Nat
    BY Zenon DEF Merging, Factories!FactoryAssumption
  <2> QED BY <1>1, <2>1 DEF Classes
<1>6. \A p \in DOMAIN map : p # place => map[p] # result
  <2>1. SUFFICES ASSUME NEW p \in DOMAIN map, p # place, map[p] = result PROVE FALSE
    OBVIOUS
  <2>2. result = spec \/ (place \in DOMAIN map /\ result = map[place])
    BY <1>1 DEF Merges, TakesOver
  <2>3. result = spec
    BY <1>4, <2>1, <2>2
  <2>4. spec \in 1..Len(objects) /\ Len(objects) \in Nat
    BY AfterSpecs
  <2> QED BY <1>4, <2>1, <2>3, <2>4
<1>7. PICK base : base = BaseFields
  OBVIOUS
<1>8. [p \in DOMAIN map |-> os[map[p]].fields] = [p \in DOMAIN base |-> base[p]]
  BY <1>4, <1>7
<1>9. \A fields, inh : MergedFrom(base, {}, fields, inh) = [p \in DOMAIN base |-> base[p]]
  BY DEF MergedFrom
<1> QED BY <1>2, <1>3, <1>4, <1>5, <1>6, <1>7, <1>8, <1>9 DEF MapBefore

LEMMA BeforeLater ==
  ASSUME NEW place, NEW objects, NEW spec, NEW map, NEW os, NEW result,
         Merging(place, objects, spec, map, os, result),
         current \in Shown, ~AppliedTo(current, spec), meta[current] # UNDEFINED
  PROVE  MapBefore(map, os, place, result)
<1>1. /\ MetaTypes /\ MapsApart /\ current \in Classes /\ Based(objects, map, os)
      /\ Merges(place, objects, spec, map, os, result)
      /\ MapRight(current) /\ Factories!Target(place) /\ place \in Places /\ Given(objects, spec)
  BY DEF Merging, Merges, DInv, MetaTypes
<1>2. map = meta[current] /\ os = objects
  BY <1>1 DEF Based
<1>3. applied[current] # <<>>
  BY <1>1 DEF MapsApart, Decorated
<1>4. \A p \in DOMAIN map : map[p] \in 1..Len(object) /\ os[map[p]] = object[map[p]]
  <2>1. \A p \in DOMAIN map : map[p] \in 1..Len(object)
    BY <1>1, <1>2, MapType
  <2> QED BY <2>1, AfterSpecs
<1>5. \A p \in DOMAIN map : os[map[p]].target = current <=> p \in OwnPlaces(current)
  BY <1>1, <1>2, <1>4 DEF MapRight
<1>6. PICK base, own, fields, inh :
        /\ base = BaseFields /\ own = OwnPlaces(current) /\ inh = InheritingPlaces(current)
        /\ fields = [p \in own |-> OwnFields(current, p)]
  OBVIOUS
<1>7. [p \in DOMAIN map |-> os[map[p]].fields] = MergedFrom(base, own, fields, inh)
  <2>1. GetMetadata(current) = map
    <3>1. Depth \in Nat
      BY Zenon DEF Merging, Factories!FactoryAssumption
    <3> QED BY <1>1, <1>2, <3>1, MetadataFrom DEF Classes
  <2>2. Metadata(current) = [p \in DOMAIN map |-> os[map[p]].fields]
    BY <1>4, <2>1 DEF Metadata
  <2>3. Merged(current, InheritingPlaces(current)) = MergedFrom(base, own, fields, inh)
    BY <1>3, <1>6 DEF Merged, MergedFrom, BaseFields
  <2> QED BY <1>1, <2>2, <2>3 DEF MapRight
<1>8. DOMAIN map = DOMAIN base \cup own
  BY <1>7 DEF MergedFrom
<1>9. place \notin own
  <2>1. SUFFICES ASSUME place \in own PROVE FALSE
    OBVIOUS
  <2>2. place \in DOMAIN map /\ os[map[place]].target = current
    BY <1>5, <1>6, <1>8, <2>1
  <2>3. kind = "methodParameter"
    <3>1. kind \in Factories!Kinds
      BY <1>1 DEF MetaTypes
    <3> QED BY <1>1, <2>2, <3>1 DEF Merges, Factories!Kinds
  <2>4. place[2] = index[current][place[1]]
    BY <1>1, <2>3 DEF Factories!Target
  <2>5. PICK i \in DOMAIN applied[current] : applied[current][i].place = place
    BY <1>6, <2>1 DEF OwnPlaces, Range
  <2>6. place[2] > index[current][place[1]]
    BY <1>1, <2>3, <2>5 DEF MapsApart, CountsDown
  <2>7. place[2] \in Int
    BY <1>1, <2>3 DEF Places
  <2> QED BY <2>4, <2>6, <2>7
<1>10. \A p \in DOMAIN map : p # place => map[p] # result
  <2>1. SUFFICES ASSUME NEW p \in DOMAIN map, p # place, map[p] = result PROVE FALSE
    OBVIOUS
  <2>2. CASE TakesOver(place, map)
    <3>1. place \in DOMAIN map /\ result = map[place]
      BY <1>1, <2>2 DEF Merges, TakesOver
    <3> QED BY <1>1, <1>2, <2>1, <3>1 DEF MapRight
  <2>3. CASE ~TakesOver(place, map)
    <3>1. map[p] = spec /\ spec \in 1..Len(object)
      BY <1>1, <1>4, <2>1, <2>3 DEF Merges
    <3>2. Applied(spec)
      BY <1>1, <3>1, GivenSpec
    <3>3. object[spec].target = current
      BY <1>1, <1>2, <3>1, <3>2 DEF MapsApart, MapApart
    <3>4. Named(spec)
      BY <1>1, <3>1, <3>2 DEF MapsApart
    <3>5. current # UNDEFINED
      <4>1. UNDEFINED \notin Nat
        BY Zenon DEF Merging, Factories!FactoryAssumption
      <4> QED BY <1>1, <4>1 DEF Classes
    <3>6. AppliedTo(current, spec)
      BY <3>3, <3>4, <3>5 DEF Named
    <3> QED BY <3>6
  <2> QED BY <2>2, <2>3
<1>11. /\ \A p, q \in DOMAIN map : map[p] = map[q] => p = q
       /\ \A i, j \in DOMAIN applied[current] :
            applied[current][i].place = applied[current][j].place => i = j
  BY <1>1, <1>2 DEF MapRight
<1> QED BY <1>5, <1>6, <1>7, <1>8, <1>9, <1>10, <1>11 DEF MapBefore

(* What has been applied to the class, after the step.                     *)
LEMMA OwnAfter ==
  ASSUME NEW place, NEW objects, NEW spec, NEW map, NEW os, NEW result,
         Merging(place, objects, spec, map, os, result), MapBefore(map, os, place, result),
         NEW c \in Classes, c = current
  PROVE  /\ OwnPlaces(c)' = OwnPlaces(c) \cup {place}
         /\ \A p \in OwnPlaces(c) : OwnFields(c, p)' = OwnFields(c, p)
         /\ OwnFields(c, place)' = os[spec].fields
         /\ \A i, j \in DOMAIN applied'[c] : applied'[c][i].place = applied'[c][j].place => i = j
         /\ \A p : IsFirst(c, p)' <=> IF applied[c] = <<>> THEN p = place ELSE IsFirst(c, p)
<1>1. PICK before, after, n : before = applied[c] /\ after = applied'[c] /\ n = Len(before)
  OBVIOUS
<1>2. PICK a : a = Application(place, spec, os)
  OBVIOUS
<1>3. a.place = place /\ a.fields = os[spec].fields
  BY <1>2 DEF Application
<1>4. /\ n \in Nat /\ DOMAIN before = 1..n /\ DOMAIN after = 1..(n + 1)
      /\ \A i \in 1..n : after[i] = before[i]
      /\ after[n + 1] = a
  BY <1>1, <1>2, AfterApplied
<1>5. /\ OwnPlaces(c) = {before[i].place : i \in 1..n}
      /\ OwnPlaces(c)' = {after[i].place : i \in 1..(n + 1)}
  BY <1>1, <1>4 DEF OwnPlaces, Range
<1>6. OwnPlaces(c)' = OwnPlaces(c) \cup {place}
  <2>1. {after[i].place : i \in 1..(n + 1)} = {before[i].place : i \in 1..n} \cup {place}
    BY <1>3, <1>4
  <2> QED BY <1>5, <2>1
<1>7. place \notin OwnPlaces(c) /\ \A i, j \in 1..n : before[i].place = before[j].place => i = j
  BY <1>1, <1>4 DEF MapBefore
<1>8. \A i \in 1..n : before[i].place # place
  BY <1>5, <1>7
<1>9. \A i, j \in 1..(n + 1) : after[i].place = after[j].place => i = j
  <2>1. \A i \in 1..(n + 1) : i \in 1..n \/ i = n + 1
    BY <1>4
  <2> QED BY <1>3, <1>4, <1>7, <1>8, <2>1
<1>10. ASSUME NEW i \in 1..(n + 1) PROVE OwnFields(c, after[i].place)' = after[i].fields
  <2>1. PICK p : p = after[i].place
    OBVIOUS
  <2>2. (CHOOSE b \in Range(after) : b.place = after[i].place) = after[i]
    BY <1>4, <1>9, OwnFieldsOf
  <2>3. OwnFields(c, p)' = (CHOOSE b \in Range(after) : b.place = p).fields
    BY <1>1 DEF OwnFields
  <2> QED BY <2>1, <2>2, <2>3
<1>11. ASSUME NEW i \in 1..n PROVE OwnFields(c, before[i].place) = before[i].fields
  <2>1. (CHOOSE b \in Range(before) : b.place = before[i].place) = before[i]
    BY <1>4, <1>7, OwnFieldsOf
  <2>2. OwnFields(c, before[i].place) = (CHOOSE b \in Range(before) : b.place = before[i].place).fields
    BY <1>1 DEF OwnFields
  <2> QED BY <2>1, <2>2
<1>12. \A p \in OwnPlaces(c) : OwnFields(c, p)' = OwnFields(c, p)
  <2>1. SUFFICES ASSUME NEW p \in OwnPlaces(c) PROVE OwnFields(c, p)' = OwnFields(c, p)
    OBVIOUS
  <2>2. PICK i \in 1..n : before[i].place = p
    BY <1>5
  <2>3. i \in 1..(n + 1) /\ after[i] = before[i]
    BY <1>4
  <2>4. OwnFields(c, p) = before[i].fields
    BY <1>11, <2>2
  <2>5. OwnFields(c, p)' = before[i].fields
    BY <1>10, <2>2, <2>3
  <2> QED BY <2>4, <2>5
<1>13. OwnFields(c, place)' = os[spec].fields
  <2>1. n + 1 \in 1..(n + 1)
    BY <1>4
  <2> QED BY <1>3, <1>4, <1>10, <2>1
<1>14. \A p : IsFirst(c, p)' <=> IF applied[c] = <<>> THEN p = place ELSE IsFirst(c, p)
  <2>1. before \in Seq(Applications)
    BY <1>1, AfterApplied
  <2>2. before = <<>> <=> n = 0
    BY <1>1, <2>1
  <2>3. after # <<>>
    <3>1. 1 \in DOMAIN after
      BY <1>4
    <3>2. DOMAIN <<>> = {}
      OBVIOUS
    <3> QED BY <3>1, <3>2
  <2>4. \A p : IsFirst(c, p)' <=> after[1].place = p
    BY <1>1, <2>3 DEF IsFirst
  <2>5. \A p : IsFirst(c, p) <=> before # <<>> /\ before[1].place = p
    BY <1>1 DEF IsFirst
  <2>6. CASE n = 0
    BY <1>1, <1>3, <1>4, <2>2, <2>4, <2>6
  <2>7. CASE n # 0
    <3>1. after[1] = before[1]
      BY <1>4, <2>7
    <3> QED BY <1>1, <2>2, <2>4, <2>5, <2>7, <3>1
  <2> QED BY <2>6, <2>7
<1> QED BY <1>1, <1>4, <1>6, <1>9, <1>12, <1>13, <1>14

(* The fields that the place gets are its own, merged into those of the    *)
(* base if it inherits.                                                    *)
LEMMA PlaceFields ==
  ASSUME NEW place, NEW objects, NEW spec, NEW map, NEW os, NEW result,
         Merging(place, objects, spec, map, os, result), MapBefore(map, os, place, result),
         NEW c \in Classes, c = current
  PROVE  object'[result].fields =
           IF place \in DOMAIN BaseFields \cap InheritingPlaces(c)'
           THEN Assign(BaseFields[place], os[spec].fields) ELSE os[spec].fields
<1>1. /\ MapsApart /\ current \in Classes /\ place \in Places /\ kind \in Factories!Kinds
      /\ Merges(place, objects, spec, map, os, result) /\ Based(objects, map, os)
  BY DEF Merging, Merges, DInv, MetaTypes
<1>2. object'[result].fields = Assign(os[result].fields, os[spec].fields)
  BY AfterSpecs
<1>3. Assign(os[spec].fields, os[spec].fields) = os[spec].fields
  <2>1. os[spec] \in Specs
    BY AfterSpecs
  <2>2. PICK f : f = os[spec].fields
    OBVIOUS
  <2>3. f \in FieldMaps
    BY <2>1, <2>2 DEF Specs
  <2>4. Assign(f, f) = f
    BY <2>3 DEF FieldMaps, Assign
  <2> QED BY <2>2, <2>4
<1>4. place \in InheritingPlaces(c)' <=> (kind = "method" => IsFirst(c, place)')
  <2>1. kind' = kind /\ Places' = Places
    BY <1>1 DEF Merges, Places
  <2> QED BY <1>1, <2>1 DEF InheritingPlaces
<1>5. PICK base, own, fields, inh :
        /\ base = BaseFields /\ own = OwnPlaces(current) /\ inh = InheritingPlaces(current)
        /\ fields = [p \in own |-> OwnFields(current, p)]
  OBVIOUS
<1>6. /\ place \notin own
      /\ [p \in DOMAIN map |-> os[map[p]].fields] = MergedFrom(base, own, fields, inh)
  BY <1>5 DEF MapBefore
<1>7. DOMAIN map = DOMAIN base \cup own
  BY <1>6 DEF MergedFrom
<1>8. place \in DOMAIN base => place \in DOMAIN map /\ os[map[place]].fields = base[place] /\ allowInheritance
  <2>1. SUFFICES ASSUME place \in DOMAIN base
                 PROVE  place \in DOMAIN map /\ os[map[place]].fields = base[place] /\ allowInheritance
    OBVIOUS
  <2>2. MergedFrom(base, own, fields, inh)[place] = base[place]
    BY <1>6, <2>1 DEF MergedFrom
  <2>3. os[map[place]].fields = base[place]
    BY <1>6, <1>7, <2>1, <2>2
  <2>4. allowInheritance
    BY <1>5, <2>1 DEF BaseFields, Empty
  <2> QED BY <1>7, <2>1, <2>3, <2>4
<1>9. place \notin DOMAIN base => place \notin DOMAIN map
  BY <1>6, <1>7
<1>10. CASE TakesOver(place, map)
  <2>1. place \in DOMAIN base /\ result = map[place]
    BY <1>1, <1>9, <1>10 DEF Merges, TakesOver
  <2>2. place \in InheritingPlaces(c)'
    <3>1. CASE meta[current] = UNDEFINED
      <4>1. applied[c] = <<>>
        BY <1>1, <3>1 DEF MapsApart, Decorated
      <4> QED BY <1>4, <4>1, OwnAfter
    <3>2. CASE kind \in {"parameter", "methodParameter"}
      BY <1>4, <3>2
    <3> QED BY <1>10, <3>1, <3>2 DEF TakesOver
  <2> QED BY <1>2, <1>5, <1>8, <2>1, <2>2
<1>11. CASE ~TakesOver(place, map)
  <2>1. result = spec
    BY <1>1, <1>11 DEF Merges
  <2>2. ~(place \in DOMAIN base /\ place \in InheritingPlaces(c)')
    <3>1. SUFFICES ASSUME place \in DOMAIN base, place \in InheritingPlaces(c)' PROVE FALSE
      OBVIOUS
    <3>2. place \in DOMAIN map /\ allowInheritance
      BY <1>8, <3>1
    <3>3. meta[current] # UNDEFINED /\ kind \notin {"parameter", "methodParameter"}
      BY <1>11, <3>2 DEF TakesOver
    <3>4. kind = "method"
      BY <1>1, <3>2, <3>3 DEF Merges, Factories!Kinds
    <3>5. IsFirst(c, place)' /\ applied[c] # <<>>
      BY <1>1, <1>4, <3>1, <3>3, <3>4 DEF MapsApart, Decorated
    <3>6. IsFirst(c, place)
      BY <3>5, OwnAfter
    <3>7. place \in OwnPlaces(c)
      <4>1. applied[c] \in Seq(Applications)
        BY AfterApplied
      <4>2. 1 \in DOMAIN applied[c]
        BY <3>5, <4>1
      <4> QED BY <3>6, <4>2 DEF IsFirst, OwnPlaces, Range
    <3> QED BY <1>5, <1>6, <3>7
  <2> QED BY <1>2, <1>3, <1>5, <2>1, <2>2
<1> QED BY <1>10, <1>11

LEMMA RightNow ==
  ASSUME NEW place, NEW objects, NEW spec, NEW map, NEW os, NEW result,
         Merging(place, objects, spec, map, os, result), MapBefore(map, os, place, result),
         NEW c \in Classes, c = current
  PROVE  MapRight(c)'
<1>1. /\ MetaTypes /\ Merges(place, objects, spec, map, os, result)
      /\ kind' = kind /\ allowInheritance' = allowInheritance /\ place \in Places
  BY DEF Merging, Merges, DInv
<1>2. PICK D : D = DOMAIN map \cup {place}
  OBVIOUS
<1>3. PICK m : m = meta'[c]
  OBVIOUS
<1>4. /\ DOMAIN m = D /\ \A p \in D : \/ p = place /\ m[p] = result
                                      \/ p # place /\ p \in DOMAIN map /\ m[p] = map[p]
  <2>1. DOMAIN m = D
    BY <1>2, <1>3, AfterMaps
  <2>2. \A p \in DOMAIN meta'[current] :
          \/ p = place /\ meta'[current][p] = result
          \/ p # place /\ p \in DOMAIN map /\ meta'[current][p] = map[p]
    BY AfterMap
  <2> QED BY <1>3, <2>1, <2>2
<1>5. /\ \A p, q \in DOMAIN map : map[p] = map[q] => p = q
      /\ \A p \in DOMAIN map : p # place => map[p] # result
      /\ \A p \in DOMAIN map : os[map[p]].target = c <=> p \in OwnPlaces(c)
  BY DEF MapBefore
<1>6. \A p, q \in D : m[p] = m[q] => p = q
  BY <1>4, <1>5
<1>7. /\ object'[result].target = c
      /\ \A p \in DOMAIN map : p # place => object'[map[p]] = os[map[p]]
  BY <1>5, AfterSpecs, MergedMap
<1>8. \A p \in D : object'[m[p]].target = c <=> p \in OwnPlaces(c)'
  <2>1. OwnPlaces(c)' = OwnPlaces(c) \cup {place}
    BY OwnAfter
  <2> QED BY <1>4, <1>5, <1>7, <2>1
<1>9. Metadata(c)' = [p \in D |-> object'[m[p]].fields]
  <2>1. PICK S : S = {d \in 1..c : meta'[d] # UNDEFINED}
    OBVIOUS
  <2>2. c \in Nat /\ c \in S /\ S \in SUBSET (1..c)
    <3>1. meta'[c] # UNDEFINED
      BY AfterMaps
    <3> QED BY <2>1, <3>1 DEF Classes
  <2>3. Max(S) = c
    <3>1. Max(S) \in S /\ \A d \in S : d <= Max(S)
      BY <2>2, LeastAndGreatest
    <3>2. PICK k : k = Max(S)
      OBVIOUS
    <3>3. k \in 1..c /\ c <= k
      BY <2>2, <3>1, <3>2
    <3> QED BY <2>2, <3>2, <3>3
  <2>4. GetMetadata(c)' = IF S = {} THEN Empty ELSE meta'[Max(S)]
    BY <2>1 DEF GetMetadata, Empty
  <2>5. GetMetadata(c)' = m
    BY <1>3, <2>2, <2>3, <2>4
  <2> QED BY <1>4, <2>5 DEF Metadata
<1>10. PICK base, own, fields, inh :
         /\ base = BaseFields /\ own = OwnPlaces(current) /\ inh = InheritingPlaces(current)
         /\ fields = [p \in own |-> OwnFields(current, p)]
  OBVIOUS
<1>11. PICK newOwn, newFields, newInh :
         /\ newOwn = OwnPlaces(c)' /\ newInh = InheritingPlaces(c)'
         /\ newFields = [p \in newOwn |-> OwnFields(c, p)']
  OBVIOUS
<1>12. Merged(c, InheritingPlaces(c))' = MergedFrom(base, newOwn, newFields, newInh)
  <2>1. Metadata(c - 1)' = Metadata(c - 1)
    <3>1. c - 1 \in Nat /\ c - 1 < c
      BY DEF Classes
    <3> QED BY <3>1, EarlierMetadata
  <2>2. applied'[c] # <<>>
    <3>1. 1 \in DOMAIN applied'[c]
      BY AfterApplied
    <3>2. DOMAIN <<>> = {}
      OBVIOUS
    <3> QED BY <3>1, <3>2
  <2>3. base = IF applied'[c] = <<>> \/ allowInheritance' THEN Metadata(c - 1)' ELSE Empty
    BY <1>1, <1>10, <2>1, <2>2 DEF BaseFields
  <2>4. base = (IF applied[c] = <<>> \/ allowInheritance THEN Metadata(c - 1) ELSE Empty)'
    BY <2>3 DEF Empty
  <2> QED BY <1>11, <2>4 DEF Merged, MergedFrom
<1>13. /\ place \notin own
       /\ [p \in DOMAIN map |-> os[map[p]].fields] = MergedFrom(base, own, fields, inh)
  BY <1>10 DEF MapBefore
<1>14. DOMAIN map = DOMAIN base \cup own
  BY <1>13 DEF MergedFrom
<1>15. /\ newOwn = own \cup {place} /\ newFields[place] = os[spec].fields
       /\ \A p \in own : newFields[p] = fields[p] /\ (p \in newInh <=> p \in inh)
  <2>1. newOwn = own \cup {place}
    BY <1>10, <1>11, OwnAfter
  <2>2. newFields[place] = os[spec].fields
    BY <1>11, <2>1, OwnAfter
  <2>3. \A p \in own : newFields[p] = fields[p]
    <3>1. \A p \in own : OwnFields(c, p)' = OwnFields(c, p)
      BY <1>10, OwnAfter
    <3> QED BY <1>10, <1>11, <2>1, <3>1
  <2>4. own # {} => applied[c] # <<>>
    BY <1>10 DEF OwnPlaces, Range
  <2>5. \A p \in own : IsFirst(c, p)' <=> IsFirst(c, p)
    BY <2>4, OwnAfter
  <2>6. Places' = Places
    BY <1>1 DEF Places
  <2>7. \A p \in own : p \in newInh <=> p \in inh
    BY <1>1, <1>10, <1>11, <2>5, <2>6 DEF InheritingPlaces
  <2> QED BY <2>1, <2>2, <2>3, <2>7
<1>16. object'[result].fields =
         IF place \in DOMAIN base \cap newInh THEN Assign(base[place], os[spec].fields) ELSE os[spec].fields
  BY <1>10, <1>11, PlaceFields
<1>17. PICK merged : merged = MergedFrom(base, newOwn, newFields, newInh)
  OBVIOUS
<1>18. merged = [p \in D |-> merged[p]]
  BY <1>2, <1>14, <1>15, <1>17 DEF MergedFrom
<1>19. ASSUME NEW p \in D PROVE object'[m[p]].fields = merged[p]
  <2>1. CASE p = place
    <3>1. merged[place] = IF place \in DOMAIN base \cap newInh
                          THEN Assign(base[place], newFields[place]) ELSE newFields[place]
      BY <1>15, <1>17 DEF MergedFrom
    <3> QED BY <1>4, <1>15, <1>16, <2>1, <3>1
  <2>2. CASE p # place
    <3>1. p \in DOMAIN map /\ m[p] = map[p] /\ object'[m[p]] = os[map[p]]
      BY <1>4, <1>7, <2>2
    <3>2. os[map[p]].fields = MergedFrom(base, own, fields, inh)[p]
      BY <1>13, <3>1
    <3>3. merged[p] = MergedFrom(base, own, fields, inh)[p]
      <4>1. p \in DOMAIN base \cup own /\ p \in DOMAIN base \cup newOwn
        BY <1>14, <1>15, <3>1
      <4>2. p \in newOwn <=> p \in own
        BY <1>15, <2>2
      <4>3. CASE p \notin own
        BY <1>17, <4>1, <4>2, <4>3 DEF MergedFrom
      <4>4. CASE p \in own
        <5>1. newFields[p] = fields[p] /\ (p \in newInh <=> p \in inh)
          BY <1>15, <4>4
        <5> QED BY <1>17, <4>1, <4>2, <4>4, <5>1 DEF MergedFrom
      <4> QED BY <4>3, <4>4
    <3> QED BY <3>1, <3>2, <3>3
  <2> QED BY <2>1, <2>2
<1>20. Metadata(c)' = Merged(c, InheritingPlaces(c))'
  BY <1>9, <1>12, <1>17, <1>18, <1>19
<1>21. \A i, j \in DOMAIN applied'[c] : applied'[c][i].place = applied'[c][j].place => i = j
  BY OwnAfter
<1>22. /\ \A p, q \in DOMAIN meta'[c] : meta'[c][p] = meta'[c][q] => p = q
       /\ \A p \in DOMAIN meta'[c] : object'[meta'[c][p]].target = c <=> p \in OwnPlaces(c)'
  BY <1>3, <1>4, <1>6, <1>8
<1> QED BY <1>20, <1>21, <1>22 DEF MapRight

LEMMA MergedInv ==
  ASSUME NEW place, NEW objects, NEW spec, NEW map, NEW os, NEW result,
         Merging(place, objects, spec, map, os, result), raised = UNDEFINED
  PROVE  DInv'
<1>1. MetaTypes' /\ MapsApart'
  BY MergedTypes, MergedApart
<1>2. raised' = UNDEFINED
  BY DEF Merging, Merges
<1>3. ASSUME NEW c \in Shown', meta'[c] # UNDEFINED PROVE MapRight(c)'
  <2>1. CASE c # current
    BY <1>3, <2>1, RightBelow
  <2>2. CASE c = current
    <3>1. c \in Classes /\ current \in Shown /\ ~AppliedTo(current, spec)
      BY <1>3, <2>2, ShownBefore DEF Shown
    <3>2. MapBefore(map, os, place, result)
      BY <3>1, BeforeFirst, BeforeLater
    <3> QED BY <2>2, <3>1, <3>2, RightNow
  <2> QED BY <2>1, <2>2
<1>4. RaisedRightly'
  BY <1>2 DEF RaisedRightly
<1> QED BY <1>1, <1>3, <1>4 DEF DInv

(* What the invariant says of the maps depends on no more than this.       *)
LEMMA Unchanged ==
  ASSUME UNCHANGED <<kind, allowInheritance, object, meta, applied>>
  PROVE  /\ \A c : Metadata(c)' = Metadata(c) /\ MapRight(c)' <=> MapRight(c)
         /\ \A c : MapApart(c)' <=> MapApart(c)
         /\ \A s : Applied(s)' <=> Applied(s)
         /\ Shown' = Shown /\ Places' = Places
<1>1. \A c : Metadata(c)' = Metadata(c)
  BY DEF Metadata, GetMetadata, Empty
<1>2. ASSUME NEW c PROVE MapRight(c)' <=> MapRight(c)
  <2>2. Metadata(c - 1)' = Metadata(c - 1)
    BY <1>1
  <2>3. /\ OwnPlaces(c)' = OwnPlaces(c)
        /\ Merged(c, InheritingPlaces(c))' = Merged(c, InheritingPlaces(c))
    BY <2>2, SameMerged
  <2> QED BY <1>1, <2>3, Zenon DEF MapRight
<1>3. \A s : Applied(s)' <=> Applied(s)
  BY DEF Applied, AppliedTo, Classes
<1>4. \A c : MapApart(c)' <=> MapApart(c)
  BY DEF MapApart, Applied, AppliedTo, Classes
<1>5. Shown' = Shown /\ Places' = Places
  BY DEF Shown, Shared, Classes, Places
<1> QED BY <1>1, <1>2, <1>3, <1>4, <1>5

(*-------------------------------------------------------------------------*)
(* DecoratorFactories: the other steps                                     *)
(*-------------------------------------------------------------------------*)

(* An error says why.                                                      *)
LEMMA Failing ==
  ASSUME DInv, NEW place, NEW spec, place \in Places => Excused(place, spec),
         raised' = [place |-> place, spec |-> spec],
         UNCHANGED <<kind, allowInheritance, current, object, meta, index, applied>>
  PROVE  DInv'
<1>1. MetaTypes /\ MapsApart /\ \A c \in Shown : meta[c] # UNDEFINED => MapRight(c)
  BY DEF DInv
<1>2. MetaTypes'
  BY <1>1 DEF MetaTypes, Applications, Places, Factories!Kinds
<1>3. MapsApart'
  <2>1. Decorated' /\ CountsDown'
    BY <1>1 DEF MapsApart, Decorated, CountsDown
  <2>2. \A c \in Classes : meta'[c] # UNDEFINED => MapApart(c)'
    BY <1>1, Unchanged DEF MapsApart
  <2>3. \A s \in 1..Len(object') : Applied(s)' => Named(s)'
    <3>1. \A s \in 1..Len(object) : Applied(s) => Named(s)
      BY <1>1 DEF MapsApart
    <3> QED BY <3>1, Unchanged DEF Named, AppliedTo
  <2> QED BY <2>1, <2>2, <2>3 DEF MapsApart, Classes
<1>4. \A c \in Shown' : meta'[c] # UNDEFINED => MapRight(c)'
  BY <1>1, Unchanged
<1>5. RaisedRightly'
  <2>1. raised'.place = place /\ raised'.spec = spec
    OBVIOUS
  <2>2. /\ Foreign' = Foreign /\ (Shared(current)' <=> Shared(current))
        /\ OwnPlaces(current)' = OwnPlaces(current)
    BY DEF Foreign, Shared, OwnPlaces
  <2>3. DOMAIN Metadata(current)' = DOMAIN Metadata(current)
    BY DEF Metadata, GetMetadata, Empty
  <2> QED BY <2>1, <2>2, <2>3, Unchanged DEF RaisedRightly, Excused
<1> QED BY <1>2, <1>3, <1>4, <1>5 DEF DInv

LEMMA Extending ==
  ASSUME Factories!FactoryAssumption, DInv, Factories!Extend
  PROVE  DInv'
<1>1. /\ MetaTypes /\ MapsApart /\ \A c \in Shown : meta[c] # UNDEFINED => MapRight(c)
      /\ current \in Classes
  BY DEF DInv, MetaTypes
<1>2. /\ raised' = UNDEFINED /\ current' = current + 1 /\ current < Depth
      /\ UNCHANGED <<kind, allowInheritance, object, meta, index, applied>>
  BY DEF Factories!Extend
<1>3. current \in Int /\ current' \in Classes
  <2>1. Depth \in Nat
    BY Zenon DEF Factories!FactoryAssumption
  <2> QED BY <1>1, <1>2, <2>1 DEF Classes
<1>4. MetaTypes'
  BY <1>1, <1>2, <1>3 DEF MetaTypes, Applications, Places, Factories!Kinds
<1>5. MapsApart'
  <2>1. Decorated'
    <3>1. \A c \in Classes : c > current' => c > current
      BY <1>2, <1>3 DEF Classes
    <3> QED BY <1>1, <1>2, <3>1 DEF MapsApart, Decorated, Classes
  <2>2. CountsDown'
    BY <1>1, <1>2 DEF MapsApart, CountsDown, Classes
  <2>3. \A c \in Classes : meta'[c] # UNDEFINED => MapApart(c)'
    BY <1>1, <1>2, Unchanged DEF MapsApart
  <2>4. ASSUME NEW s \in 1..Len(object'), Applied(s)' PROVE Named(s)'
    <3>1. Named(s) /\ s \in 1..Len(object)
      BY <1>1, <1>2, <2>4, Unchanged DEF MapsApart
    <3>2. PICK t : t = object[s].target
      OBVIOUS
    <3>3. t # UNDEFINED => t <= current /\ AppliedTo(t, s)
      BY <3>1, <3>2 DEF Named
    <3>4. t # UNDEFINED => t \in Int
      <4>1. object[s] \in Specs
        BY <1>1, <3>1, ElementOfSeq DEF MetaTypes
      <4> QED BY <3>2, <4>1 DEF Specs, Classes
    <3>5. t # UNDEFINED => t <= current'
      BY <1>2, <1>3, <3>3, <3>4
    <3> QED BY <1>2, <3>2, <3>3, <3>5 DEF Named, AppliedTo
  <2> QED BY <2>1, <2>2, <2>3, <2>4 DEF MapsApart, Classes
<1>6. \A c \in Shown' : meta'[c] # UNDEFINED => MapRight(c)'
  BY <1>1, <1>2, Unchanged
<1>7. RaisedRightly'
  BY <1>2 DEF RaisedRightly
<1> QED BY <1>4, <1>5, <1>6, <1>7 DEF DInv

LEMMA MetaInitial ==
  ASSUME Factories!FactoryAssumption, Factories!Init
  PROVE  DInv
<1>1. /\ Depth \in Nat \ {0} /\ Parameters \in Nat
  BY Zenon DEF Factories!FactoryAssumption
<1>2. /\ kind \in Factories!Kinds /\ allowInheritance \in BOOLEAN
      /\ current = 1 /\ object = <<>> /\ raised = UNDEFINED
      /\ meta = [c \in Classes |-> UNDEFINED]
      /\ index = [c \in Classes |-> [m \in Members |-> Parameters - 1]]
      /\ applied = [c \in Classes |-> <<>>]
  BY SameMetadata DEF Factories!Init
<1>3. \A c \in Classes : meta[c] = UNDEFINED /\ applied[c] = <<>> /\ DOMAIN applied[c] = {}
  BY <1>2
<1>4. MetaTypes
  <2>1. applied \in [Classes -> Seq(Applications)]
    BY <1>2
  <2>2. index \in [Classes -> [Members -> Int]]
    BY <1>1, <1>2
  <2>3. current \in Classes /\ object \in Seq(Specs)
    BY <1>1, <1>2 DEF Classes
  <2>4. meta = [c \in Classes |-> meta[c]]
    BY <1>2
  <2> QED BY <1>2, <1>3, <2>1, <2>2, <2>3, <2>4 DEF MetaTypes
<1>5. MapsApart
  <2>1. Decorated /\ CountsDown
    BY <1>3 DEF Decorated, CountsDown
  <2>2. \A s : ~Applied(s)
    BY <1>3 DEF Applied, AppliedTo
  <2> QED BY <1>3, <2>1, <2>2 DEF MapsApart
<1>6. RaisedRightly
  BY <1>2 DEF RaisedRightly
<1>7. \A c \in Shown : meta[c] = UNDEFINED
  BY <1>3 DEF Shown
<1> QED BY <1>4, <1>5, <1>6, <1>7 DEF DInv

LEMMA MetaSteps ==
  ASSUME Factories!FactoryAssumption, DInv, Factories!Next
  PROVE  DInv'
<1>1. ASSUME NEW place \in Places, NEW objects, NEW spec, Given(objects, spec),
             Factories!CanApply, Factories!Target(place), Factories!Merge(place, objects, spec)
      PROVE  DInv'
  <2>1. raised = UNDEFINED
    BY <1>1 DEF Factories!CanApply
  <2>2. CASE \E map, os, result : Merges(place, objects, spec, map, os, result)
    <3>1. PICK map, os, result : Merges(place, objects, spec, map, os, result)
      BY <2>2
    <3>2. Merging(place, objects, spec, map, os, result)
      BY <1>1, <3>1 DEF Merging
    <3> QED BY <2>1, <3>2, MergedInv
  <2>3. CASE /\ raised' = [place |-> place, spec |-> spec] /\ Excused(place, spec)
             /\ UNCHANGED <<kind, allowInheritance, current, object, meta, index, applied>>
    BY <2>3, Failing
  <2> QED BY <1>1, <2>2, <2>3, MergeOutcome
<1>2. ASSUME NEW place \in Places, NEW fields \in Fields, Factories!Decorate(place, fields)
      PROVE  DInv'
  <2>1. PICK value : value = <<current, Len(applied[current]) + 1>>
    OBVIOUS
  <2>2. PICK new : new = [fields |-> [f \in fields |-> value], target |-> UNDEFINED]
    OBVIOUS
  <2>3. new \in Specs
    <3>1. value \in Nat \X Nat
      <4>1. current \in Classes /\ applied \in [Classes -> Seq(Applications)]
        BY DEF DInv, MetaTypes
      <4>2. current \in Nat /\ Len(applied[current]) \in Nat
        BY <4>1 DEF Classes
      <4> QED BY <2>1, <4>2
    <3>2. fields \in SUBSET UNION Fields
      OBVIOUS
    <3>3. [f \in fields |-> value] \in FieldMaps
      BY <3>1, <3>2 DEF FieldMaps
    <3> QED BY <2>2, <3>3 DEF Specs
  <2>4. Given(Append(object, new), Len(object) + 1)
    BY <2>2, <2>3 DEF Given
  <2>5. /\ Factories!CanApply /\ Factories!Target(place)
        /\ Factories!Merge(place, Append(object, new), Len(object) + 1)
    BY <1>2, <2>1, <2>2 DEF Factories!Decorate
  <2> QED BY <1>1, <2>4, <2>5
<1>3. ASSUME NEW place \in Places, NEW c \in 1..current, NEW i \in DOMAIN applied[c],
             Factories!DecorateAgain(place, applied[c][i])
      PROVE  DInv'
  <2>1. c \in Classes
    <3>1. Depth \in Nat
      BY Zenon DEF Factories!FactoryAssumption
    <3>2. current \in Classes
      BY DEF DInv, MetaTypes
    <3> QED BY <1>3, <3>1, <3>2 DEF Classes
  <2>2. Given(object, applied[c][i].spec)
    BY <1>3, <2>1 DEF Given, Applied, AppliedTo
  <2>3. /\ Factories!CanApply /\ Factories!Target(place)
        /\ Factories!Merge(place, object, applied[c][i].spec)
    BY <1>3 DEF Factories!DecorateAgain
  <2> QED BY <1>1, <2>2, <2>3
<1>4. ASSUME NEW m \in Members, Factories!Excess(m) PROVE DInv'
  <2>1. /\ raised' = [place |-> UNDEFINED, spec |-> UNDEFINED]
        /\ UNCHANGED <<kind, allowInheritance, current, object, meta, index, applied>>
    BY <1>4 DEF Factories!Excess, Factories!Fail
  <2>2. UNDEFINED \notin Places
    <3>0. UNDEFINED \notin Members \X (0..Parameters) /\ UNDEFINED # <<"">>
      BY Zenon DEF Factories!FactoryAssumption
    <3>1. Parameters \in Nat
      BY Zenon DEF Factories!FactoryAssumption
    <3>2. 0..(Parameters - 1) \subseteq 0..Parameters /\ 0 \in 0..Parameters
      BY <3>1
    <3>3. Places \subseteq ({<<"">>} \cup Members \X (0..Parameters))
      BY <3>2 DEF Places
    <3> QED BY <3>0, <3>3
  <2> QED BY <2>1, <2>2, Failing
<1>5. ASSUME Factories!Extend PROVE DInv'
  BY <1>5, Extending
<1> QED BY <1>2, <1>3, <1>4, <1>5, SameMetadata, Zenon DEF Factories!Next

LEMMA MetaStutters ==
  ASSUME Factories!FactoryAssumption, DInv, UNCHANGED Factories!vars
  PROVE  DInv'
<1>1. UNCHANGED <<kind, allowInheritance, current, object, meta, index, applied, raised>>
  BY DEF Factories!vars
<1>2. MetaTypes /\ MapsApart /\ RaisedRightly /\ \A c \in Shown : meta[c] # UNDEFINED => MapRight(c)
  BY DEF DInv
<1>3. MetaTypes'
  BY <1>1, <1>2 DEF MetaTypes, Applications, Places, Factories!Kinds
<1>4. MapsApart'
  <2>1. Decorated' /\ CountsDown'
    BY <1>1, <1>2 DEF MapsApart, Decorated, CountsDown
  <2>2. \A c \in Classes : meta'[c] # UNDEFINED => MapApart(c)'
    BY <1>1, <1>2, Unchanged DEF MapsApart
  <2>3. \A s \in 1..Len(object') : Applied(s)' => Named(s)'
    <3>1. \A s \in 1..Len(object) : Applied(s) => Named(s)
      BY <1>2 DEF MapsApart
    <3> QED BY <1>1, <3>1, Unchanged DEF Named, AppliedTo
  <2> QED BY <1>1, <2>1, <2>2, <2>3 DEF MapsApart, Classes
<1>5. \A c \in Shown' : meta'[c] # UNDEFINED => MapRight(c)'
  BY <1>1, <1>2, Unchanged
<1>6. RaisedRightly'
  <2>2. /\ Foreign' = Foreign /\ (Shared(current)' <=> Shared(current))
        /\ OwnPlaces(current)' = OwnPlaces(current)
    BY <1>1 DEF Foreign, Shared, OwnPlaces
  <2>3. DOMAIN Metadata(current)' = DOMAIN Metadata(current)
    BY <1>1 DEF Metadata, GetMetadata, Empty
  <2> QED BY <1>1, <1>2, <2>2, <2>3, Unchanged DEF RaisedRightly, Excused
<1> QED BY <1>3, <1>4, <1>5, <1>6 DEF DInv

LEMMA MetaPromised ==
  ASSUME Factories!FactoryAssumption, DInv
  PROVE  MetadataMerged
<1>1. /\ MetaTypes /\ MapsApart /\ RaisedRightly
      /\ \A c \in Shown : meta[c] # UNDEFINED => MapRight(c)
  BY DEF DInv
<1>2. ASSUME NEW c \in Shown PROVE Metadata(c) = Merged(c, InheritingPlaces(c))
  <2>1. CASE meta[c] # UNDEFINED
    BY <1>1, <2>1 DEF MapRight
  <2>2. CASE meta[c] = UNDEFINED
    <3>1. c \in Classes /\ applied[c] = <<>>
      BY <1>1, <2>2 DEF Shown, MapsApart, Decorated
    <3>2. Depth \in Nat
      BY Zenon DEF Factories!FactoryAssumption
    <3> QED BY <1>1, <2>2, <3>1, <3>2, Undecorated
  <2> QED BY <2>1, <2>2
<1> QED BY <1>1, <1>2, Zenon DEF MetadataMerged, RaisedRightly, Excused, InheritingPlaces

(* What is applied to a class is merged into the metadata of its base, and *)
(* the bases keep theirs, however many classes, members and functions.     *)
THEOREM MetadataMergedAlways ==
  ASSUME Factories!FactoryAssumption
  PROVE  Factories!Spec => []MetadataMerged
<1>1. Factories!Init => DInv
  BY MetaInitial
<1>2. DInv /\ [Factories!Next]_(Factories!vars) => DInv'
  BY MetaSteps, MetaStutters
<1>3. DInv => MetadataMerged
  BY MetaPromised
<1> QED BY <1>1, <1>2, <1>3, PTL DEF Factories!Spec

(* No two classes share a spec, which a decorator of one could change for  *)
(* the other, whether a decorator function is applied repeatedly or not.   *)
THEOREM MetadataApart ==
  ASSUME Factories!FactoryAssumption
  PROVE  Factories!Spec => []MapsApart
<1>1. Factories!Init => DInv
  BY MetaInitial
<1>2. DInv /\ [Factories!Next]_(Factories!vars) => DInv'
  BY MetaSteps, MetaStutters
<1>3. DInv => MapsApart
  BY DEF DInv
<1> QED BY <1>1, <1>2, <1>3, PTL DEF Factories!Spec

=============================================================================
