---------------------------- MODULE ContextView ----------------------------
(***************************************************************************)
(* Reading the values of an open view, by several callers at once          *)
(* (values(), resolve() and bindings of ContextView in                     *)
(* packages/context/src/context-view.ts), while bindings come and go and   *)
(* the notifications that invalidate the cache arrive later.               *)
(*                                                                         *)
(* An action is the code between two awaits.                               *)
(***************************************************************************)
EXTENDS ViewPromise

CONSTANTS
  Deferred,     \* the candidates whose value is a promise
  Readers,      \* the callers of values()
  MayFail,      \* whether a deferred value may be rejected
  MaxChanges    \* bound on the number of bindings added and removed

ASSUME ViewAssumption ==
  /\ Deferred \cup Absent \cup Singletons \subseteq Candidates
  /\ NULL \notin Candidates /\ NULL \notin Seq(Candidates)

VARIABLES
  reader,       \* how far the call of each reader is
  overtaken,    \* history: the calls under way since when another reader
                \* has found the bindings anew
  changes

vars == <<bound, pending, view, outdated, reader, overtaken, changes>>

(* Of bindings, those whose values are promises.                           *)
Promised(bindings) == {b \in ToSet(bindings) \cap Deferred : ~Disowned(b)}

Init ==
  /\ bound \in {<<>>} \cup {<<b>> : b \in Candidates}
  /\ pending = 0
  /\ view = V!Refreshed
  /\ outdated = FALSE
  /\ reader = [r \in Readers |-> [at |-> "idle", values |-> <<>>]]
  /\ overtaken = {}
  /\ changes = 0

(* A binding is added or removed.                                          *)
Change(b) ==
  /\ changes < MaxChanges
  /\ bound' = IF b \in ToSet(bound)
              THEN Filtered(bound, {i \in DOMAIN bound : bound[i] # b})
              ELSE Append(bound, b)
  /\ pending' = pending + 1
  /\ changes' = changes + 1
  /\ UNCHANGED <<view, outdated, reader, overtaken>>

(* Mutant: the view keeps its bindings.                                    *)
ObserveValues ==
  /\ pending > 0
  /\ pending' = pending - 1
  /\ view' = [view EXCEPT !.values = NULL]
  /\ outdated' = FALSE
  /\ UNCHANGED <<bound, reader, overtaken, changes>>

(* observe: a notification arrives.                                        *)
Observe ==
  /\ pending > 0
  /\ pending' = pending - 1
  /\ view' = V!Refreshed
  /\ outdated' = FALSE
  /\ UNCHANGED <<bound, reader, overtaken, changes>>

(* The readers that are waiting for values, and those of them that are     *)
(* overtaken when somebody reads the bindings now.                         *)
Resolving == {r \in Readers : reader[r].at = "resolving"}
Overtaken == IF view.bindings = NULL THEN Resolving ELSE overtaken

(* The getter `bindings`, used on its own.                                 *)
ReadBindings ==
  /\ view' = V!WithBindings(view, bound)
  /\ overtaken' = Overtaken
  /\ UNCHANGED <<bound, pending, outdated, reader, changes>>

(* values(), up to its nextTick.                                           *)
Call(r) ==
  /\ reader[r].at = "idle"
  /\ reader' = [reader EXCEPT ![r].at = "tick"]
  /\ UNCHANGED <<bound, pending, view, outdated, overtaken, changes>>

(* After it: the cached values are returned; or those of the bindings are, *)
(* and cached, at once; or they are waited for.                            *)
ReturnCached(r) ==
  /\ reader[r].at = "tick"
  /\ view.values # NULL
  /\ reader' = [reader EXCEPT ![r].at = "idle"]
  /\ UNCHANGED <<bound, pending, view, outdated, overtaken, changes>>

ResolveNow(r) ==
  LET v == V!WithBindings(view, bound) IN
  /\ reader[r].at = "tick"
  /\ view.values = NULL
  /\ Promised(v.bindings) = {}
  /\ view' = V!WithValues(v, ValuesOf(v.bindings))
  /\ outdated' = FALSE
  /\ reader' = [reader EXCEPT ![r].at = "idle"]
  /\ overtaken' = Overtaken
  /\ UNCHANGED <<bound, pending, changes>>

ResolveLater(r) ==
  LET v == V!WithBindings(view, bound) IN
  /\ reader[r].at = "tick"
  /\ view.values = NULL
  /\ Promised(v.bindings) # {}
  /\ view' = v
  /\ reader' = [reader EXCEPT ![r] = [at |-> "resolving",
                                      values |-> ValuesOf(v.bindings)]]
  /\ overtaken' = Overtaken
  /\ UNCHANGED <<bound, pending, outdated, changes>>

(* The values are there: they are cached with the bindings that are cached *)
(* by now.                                                                 *)
Resolved(r) ==
  /\ reader[r].at = "resolving"
  /\ view' = V!WithValues(view, reader[r].values)
  /\ outdated' = IF view.bindings = NULL THEN outdated ELSE r \in overtaken
  /\ reader' = [reader EXCEPT ![r] = [at |-> "idle", values |-> <<>>]]
  /\ overtaken' = overtaken \ {r}
  /\ UNCHANGED <<bound, pending, changes>>

Rejected(r) ==
  /\ MayFail
  /\ reader[r].at = "resolving"
  /\ reader' = [reader EXCEPT ![r] = [at |-> "idle", values |-> <<>>]]
  /\ overtaken' = overtaken \ {r}
  /\ UNCHANGED <<bound, pending, view, outdated, changes>>

Next ==
  \/ \E b \in Candidates : Change(b)
  \/ Observe \/ ReadBindings
  \/ \E r \in Readers :
       \/ Call(r) \/ ReturnCached(r) \/ ResolveNow(r) \/ ResolveLater(r)
       \/ Resolved(r) \/ Rejected(r)

Spec == Init /\ [][Next]_vars

-----------------------------------------------------------------------------
(***************************************************************************)
(* Properties.                                                             *)
(***************************************************************************)

(* Every variable has its type.                                            *)
TypeOK ==
  /\ bound \in BoundedSeq(Candidates, MaxChanges + 1)
  /\ pending \in 0..MaxChanges
  /\ view.bindings # NULL => ToSet(view.bindings) \subseteq Candidates
  /\ view.values # NULL => ToSet(V!CachedValues(view)) \subseteq Candidates \cup {NULL}
  /\ \A r \in Readers : /\ reader[r].at \in {"idle", "tick", "resolving"}
                        /\ ToSet(reader[r].values) \subseteq Candidates
  /\ overtaken \subseteq Resolving
  /\ outdated \in BOOLEAN
=============================================================================
