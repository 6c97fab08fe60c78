------------------------- MODULE BindingResolution -------------------------
(***************************************************************************)
(* Resolving bindings in a chain of contexts: the scopes, the value cache  *)
(* and the session that detects circular dependencies                      *)
(* (Binding.getValue in packages/context/src/binding.ts, with Context and  *)
(* ResolutionSession).                                                     *)
(*                                                                         *)
(* A value is calculated by a factory: at once, or asynchronously, when it *)
(* first awaits something and then the values of its dependencies, one     *)
(* after the other, in its session.  An action is the code between two     *)
(* awaits.  The calls of get() and the running factories are the tasks.    *)
(***************************************************************************)
EXTENDS Naturals, SequencesExt, FiniteSetsExt

CONSTANTS
  Contexts,
  Chain,          \* each context's chain: itself, its parent, up to the root
  ContextScope,   \* Context.scope
  Bindings,
  Key,            \* the key of a binding
  Owner,          \* the context that it is bound in
  Scope,          \* its scope
  Immediate,      \* the bindings whose value is calculated at once
  Deps,           \* the keys that the factory of a binding resolves, in order
  Wanted,         \* the context and the key of a call of get()
  MayFail,        \* whether a factory may throw or reject
  MaxRequests,    \* bound on the calls of get()
  MaxResets,      \* bound on refreshes and new sources of bindings
  NULL

Keys == {Key[b] : b \in Bindings} \cup UNION {ToSet(Deps[b]) : b \in Bindings}

ASSUME ContextAssumption ==
  \A c \in Contexts :
    Chain[c] \in Seq(Contexts) /\ Chain[c] # <<>> /\ Head(Chain[c]) = c
ASSUME BindingAssumption ==
  /\ Owner \in [Bindings -> Contexts]
  /\ \A a, b \in Bindings : Owner[a] = Owner[b] /\ Key[a] = Key[b] => a = b
  /\ \A b \in Bindings : Deps[b] \in Seq(Keys)
  /\ \A b \in Immediate : Deps[b] = <<>>
  /\ \A w \in Wanted : w[1] \in Contexts
  /\ NULL \notin Bindings \cup Contexts

VARIABLES
  tasks,        \* calls and factories, in the order in which they began
  cache,        \* the promise that a binding caches for a context: a task
  generation,   \* how often it has been reset
  requests, resets

vars == <<tasks, cache, generation, requests, resets>>

Init ==
  /\ tasks = <<>>
  /\ cache = [b \in Bindings |-> [c \in Contexts |-> 0]]
  /\ generation = [b \in Bindings |-> [c \in Contexts |-> 0]]
  /\ requests = 0
  /\ resets = 0

(***************************************************************************)
(* Contexts.                                                               *)
(***************************************************************************)

(* The first context of the chain of c that is among S.                    *)
Nearest(c, S) ==
  LET I == {i \in 1..Len(Chain[c]) : Chain[c][i] \in S}
  IN IF I = {} THEN NULL ELSE Chain[c][Min(I)]

Binds(c, k) == \E b \in Bindings : Owner[b] = c /\ Key[b] = k

(* The context of the chain of c that binds key k.                         *)
OwnerContext(c, k) == Nearest(c, {d \in Contexts : Binds(d, k)})

(* getBinding.                                                             *)
Lookup(c, k) ==
  IF OwnerContext(c, k) = NULL THEN NULL
  ELSE CHOOSE b \in Bindings : Owner[b] = OwnerContext(c, k) /\ Key[b] = k

ScopedContext(c, scope) == Nearest(c, {d \in Contexts : ContextScope[d] = scope})

(* Mutant: singletons are calculated in the context of the caller.         *)
CurrentContext(c, b) == c

ResolutionContext(c, b) ==
  IF Scope[b] = "singleton" THEN OwnerContext(c, Key[b])
  ELSE IF Scope[b] \in {"transient", "context"} THEN c
  ELSE IF Scope[b] = "request" /\ ScopedContext(c, "request") = NULL THEN c
  ELSE ScopedContext(c, Scope[b])

Visible == [c \in Contexts |-> ToSet(Chain[c])]

(* getResolutionContext: NULL where it throws, because there is no context *)
(* of that scope, or none that sees the owner of the binding.              *)
CheckedContext ==
  [c \in Contexts |-> [b \in Bindings |->
     LET r == ResolutionContext(c, b) IN
     IF r = NULL THEN NULL
     ELSE IF OwnerContext(c, Key[b]) \in Visible[r] THEN r ELSE NULL]]

(***************************************************************************)
(* Tasks.                                                                  *)
(***************************************************************************)

Task(b, c, path, left, at) ==
  [binding |-> b, ctx |-> c, generation |-> IF b = NULL THEN 0 ELSE generation[b][c],
   path |-> path, left |-> left, awaits |-> 0, at |-> at]

(* Somebody calls get().                                                   *)
Request(c, k) ==
  /\ requests < MaxRequests
  /\ requests' = requests + 1
  /\ tasks' = Append(tasks, Task(NULL, c, <<>>, <<Lookup(c, k)>>, "running"))
  /\ UNCHANGED <<cache, generation, resets>>

(* Task i is about to resolve the next one of its dependencies.            *)
Resolves(i) ==
  /\ tasks[i].at = "running"
  /\ tasks[i].awaits = 0
  /\ tasks[i].left # <<>>

Wants(i) == Head(tasks[i].left)

(* Where the value that task i wants is calculated and cached.             *)
Place(i) ==
  IF Wants(i) = NULL THEN NULL ELSE CheckedContext[tasks[i].ctx][Wants(i)]

Cached(i) == cache[Wants(i)][Place(i)]

(* Mutant: a cached promise is returned without looking at the session.    *)
UncachedCircular(i) == Wants(i) \in ToSet(tasks[i].path) /\ Cached(i) = 0

(* pushBinding: the binding is on the stack already.                       *)
Circular(i) == Wants(i) \in ToSet(tasks[i].path)

Rejects(i, why) == tasks' = [tasks EXCEPT ![i].at = why]

(* There is no such binding, or not in its scope.                          *)
ResolveInVain(i) ==
  /\ Resolves(i)
  /\ Place(i) = NULL
  /\ Rejects(i, "unresolvable")
  /\ UNCHANGED <<cache, generation, requests, resets>>

DetectCircular(i) ==
  /\ Resolves(i)
  /\ Place(i) # NULL
  /\ Circular(i)
  /\ Rejects(i, "circular")
  /\ UNCHANGED <<cache, generation, requests, resets>>

(* The promise in the cache is awaited.                                    *)
UseCached(i) ==
  /\ Resolves(i)
  /\ Place(i) # NULL
  /\ ~Circular(i)
  /\ Cached(i) # 0
  /\ tasks' = [tasks EXCEPT ![i].awaits = Cached(i)]
  /\ UNCHANGED <<cache, generation, requests, resets>>

(* _cacheValue: also a promise, unless the binding is transient.           *)
CacheValue(b, c, task) ==
  IF Scope[b] = "transient" THEN cache ELSE [cache EXCEPT ![b][c] = task]

(* Mutant: what has been resolved before stays on the stack.               *)
SharedPath(i, b) ==
  LET resolved == {j \in DOMAIN tasks : tasks[j].path # <<>>
                                        /\ Front(tasks[j].path) = tasks[i].path}
  IN tasks[i].path \o SetToSeq({tasks[j].binding : j \in resolved} \ {b}) \o <<b>>

(* The session in which the factory of b runs.                             *)
PathTo(i, b) == Append(tasks[i].path, b)

MustCalculate(i) ==
  /\ Resolves(i)
  /\ Place(i) # NULL
  /\ ~Circular(i)
  /\ Cached(i) = 0

(* Mutant: dependencies are resolved in the context of the caller.         *)
CallersContext(i) == tasks[i].ctx

(* resolutionMetadata.context.                                             *)
FactoryContext(i) == Place(i)

(* The factory begins; a value that is there at once is awaited just the   *)
(* same.                                                                   *)
Calculate(i) ==
  LET b == Wants(i)
      c == FactoryContext(i)
      needs == [k \in 1..Len(Deps[b]) |-> Lookup(c, Deps[b][k])]
      new == Task(b, c, PathTo(i, b), needs,
                  IF b \in Immediate THEN "fulfilled" ELSE "running")
  IN /\ MustCalculate(i)
     /\ tasks' = Append([tasks EXCEPT ![i].awaits = Len(tasks) + 1], new)
     /\ cache' = CacheValue(b, Place(i), Len(tasks) + 1)
     /\ UNCHANGED <<generation, requests, resets>>

(* A factory that throws at once leaves nothing in the cache.              *)
Throw(i) ==
  /\ MayFail
  /\ MustCalculate(i)
  /\ Wants(i) \in Immediate
  /\ Rejects(i, "failed")
  /\ UNCHANGED <<cache, generation, requests, resets>>

(* What a task awaits is there, or has been rejected.                      *)
Continue(i) ==
  LET j == tasks[i].awaits IN
  /\ tasks[i].at = "running"
  /\ j # 0
  /\ tasks[j].at # "running"
  /\ IF tasks[j].at = "fulfilled"
     THEN tasks' = [tasks EXCEPT ![i].awaits = 0, ![i].left = Tail(@)]
     ELSE Rejects(i, "failed")
  /\ UNCHANGED <<cache, generation, requests, resets>>

(* A task has all that it needs; a factory may still reject.               *)
Finish(i) ==
  /\ tasks[i].at = "running"
  /\ tasks[i].awaits = 0
  /\ tasks[i].left = <<>>
  /\ \/ Rejects(i, "fulfilled")
     \/ MayFail /\ tasks[i].binding # NULL /\ Rejects(i, "failed")
  /\ UNCHANGED <<cache, generation, requests, resets>>

(***************************************************************************)
(* Resetting the cache.  A reset that drops nothing changes nothing.       *)
(***************************************************************************)

Reset(b, dropped, renewed) ==
  /\ resets < MaxResets
  /\ \E d \in renewed : cache[b][d] # 0
  /\ resets' = resets + 1
  /\ cache' = [cache EXCEPT ![b] = [d \in Contexts |->
                 IF d \in dropped THEN 0 ELSE cache[b][d]]]
  /\ generation' = [generation EXCEPT ![b] = [d \in Contexts |->
                      IF d \in renewed THEN generation[b][d] + 1 ELSE generation[b][d]]]
  /\ UNCHANGED <<tasks, requests>>

(* Mutant: refreshes the context of the caller.                            *)
RefreshedHere(c, b) == {c}

(* The contexts whose cached value is dropped by refresh(c).               *)
Refreshed(c, b) ==
  IF Scope[b] = "transient" THEN {} ELSE Contexts \cap {ResolutionContext(c, b)}

(* refresh() is about the value that a get() in context c would see.       *)
Refresh(c, b) == Reset(b, Refreshed(c, b), Contexts \cap {ResolutionContext(c, b)})

(* The binding gets another source: to(), toClass(), ...                   *)
SetSource(b) == Reset(b, Contexts, Contexts)

Step(i) ==
  \/ ResolveInVain(i)
  \/ DetectCircular(i)
  \/ UseCached(i)
  \/ Calculate(i)
  \/ Throw(i)
  \/ Continue(i)
  \/ Finish(i)

Next ==
  \/ \E w \in Wanted : Request(w[1], w[2])
  \/ \E i \in DOMAIN tasks : Step(i)
  \/ \E c \in Contexts, b \in Bindings : Refresh(c, b)
  \/ \E b \in Bindings : SetSource(b)

(* Factories settle, and continuations run: as every step brings its task  *)
(* forward, the event loop has nothing left to do in the end.              *)
Fairness == WF_vars(\E i \in DOMAIN tasks : Step(i))

Spec == Init /\ [][Next]_vars
FairSpec == Spec /\ Fairness

-----------------------------------------------------------------------------
(***************************************************************************)
(* Properties.                                                             *)
(***************************************************************************)

Outcomes == {"fulfilled", "circular", "unresolvable", "failed"}

TaskType ==
  [binding : Bindings \cup {NULL}, ctx : Contexts, generation : Nat,
   path : Seq(Bindings), left : Seq(Bindings \cup {NULL}),
   awaits : Nat, at : {"running"} \cup Outcomes]

(* Every variable has its type.                                            *)
TypeOK ==
  /\ tasks \in Seq(TaskType)
  /\ cache \in [Bindings -> [Contexts -> 0..Len(tasks)]]
  /\ generation \in [Bindings -> [Contexts -> Nat]]
  /\ requests \in Nat /\ resets \in Nat
  /\ \A i \in 1..Len(tasks) : tasks[i].awaits \in 0..Len(tasks)

(* BindingScope: the value of a singleton is calculated once for the       *)
(* context that owns it, and one in another scope than transient once for  *)
(* each context, however many calls and factories ask for it before the    *)
(* promise is settled, unless it is reset.                                 *)
CalculatedOnce ==
  \A i, j \in DOMAIN tasks :
    LET b == tasks[i].binding IN
    (/\ i # j
     /\ b # NULL
     /\ b = tasks[j].binding
     /\ tasks[i].generation = tasks[j].generation
     /\ Scope[b] = "singleton" \/ tasks[i].ctx = tasks[j].ctx)
      => Scope[b] = "transient"

(* A value that was being calculated when its binding was refreshed or got *)
(* another source never comes back into the cache.                         *)
CacheCurrent ==
  \A b \in Bindings, c \in Contexts :
    cache[b][c] # 0 =>
      /\ tasks[cache[b][c]].generation = generation[b][c]
      /\ tasks[cache[b][c]].binding = b
      /\ tasks[cache[b][c]].ctx = c

(* A value that outlives a request holds nothing of it: what a factory     *)
(* gets is calculated in its own context or in one above, and belongs to   *)
(* a binding of such a context, whoever asked for the value first.         *)
Confined ==
  \A i \in DOMAIN tasks :
    LET j == tasks[i].awaits IN
    j # 0 => /\ tasks[j].ctx \in Visible[tasks[i].ctx]
             /\ Owner[tasks[j].binding] \in Visible[tasks[j].ctx]

DepKeys(k) == UNION {ToSet(Deps[b]) : b \in {b \in Bindings : Key[b] = k}}
Closed(S) == \A k \in S : DepKeys(k) \subseteq S
DependOnThemselves ==
  {k \in Keys : \A S \in SUBSET Keys : DepKeys(k) \subseteq S /\ Closed(S) => k \in S}

(* A circular dependency is reported only if there is one.                 *)
OnlyRealCycles ==
  \A i \in DOMAIN tasks :
    tasks[i].at = "circular" => Key[Head(tasks[i].left)] \in DependOnThemselves

(* What task i awaits, what that awaits, and so on, n tasks further.       *)
Behind(i, n) ==
  LET next[k \in 0..n] ==
        IF k = 0 THEN i ELSE IF next[k - 1] = 0 THEN 0 ELSE tasks[next[k - 1]].awaits
  IN next[n]

(* The circle of running tasks that task i is behind of, or is part of.    *)
Circle(i) == {Behind(i, n) : n \in Len(tasks)..2 * Len(tasks)}

(* Neither of two tasks has been begun, directly or not, by the other.     *)
Apart(i, j) ==
  /\ ~IsPrefix(tasks[i].path, tasks[j].path)
  /\ ~IsPrefix(tasks[j].path, tasks[i].path)

(* Tasks that wait for each other in a circle have not all been begun one  *)
(* by the other: a session notices a circle that is within it, also when   *)
(* promises of other sessions are in between.                              *)
CirclesApart ==
  \A C \in SUBSET DOMAIN tasks :
    C # {} /\ (\A i \in C : tasks[i].awaits \in C) => \E i, j \in C : Apart(i, j)

Deadlocked(i) ==
  /\ \A j \in Circle(i) : j # 0 /\ tasks[j].at = "running"
  /\ \E j, k \in Circle(i) : Apart(j, k)

(* Every call of get() is answered and every factory settles: a call whose *)
(* factories depend on each other in a circle is rejected, also if they    *)
(* await promises that others have put in the cache.  Except for those     *)
(* that wait, in a circle, for factories begun by different calls, each of *)
(* which has entered the circle at another place: no session knows that.   *)
(* (The calls are bounded: at some time there has been the last one.)      *)
RequestsSettle ==
  <>[](\A i \in DOMAIN tasks : tasks[i].at = "running" => Deadlocked(i))

(* Dependency-injection.md: "LoopBack can detect circular dependencies and *)
(* report the path", without the exception: does not hold.                 *)
EveryRequestSettles == <>[](\A i \in DOMAIN tasks : tasks[i].at # "running")

=============================================================================
