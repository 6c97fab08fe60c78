----------------------------- MODULE TagIndexer -----------------------------
(***************************************************************************)
(* The registries of a context and its parent (packages/context), and the *)
(* index that the ContextTagIndexer of each keeps by listening to the      *)
(* events of the context and of its bindings, while bindings are added,    *)
(* replaced, removed and tagged.                                           *)
(***************************************************************************)
EXTENDS IndexPromise, Naturals, FiniteSets

CONSTANTS
  MaxTagged,    \* bound on the tags that all bindings have together
  MaxChanges    \* bound on the calls that change a registry

(* What is absent is neither the value of a tag nor a set of bindings.     *)
TagAssumption ==
  /\ IsFiniteSet(TagNames)
  /\ ABSENT \notin TagValues /\ \A bindings \in SUBSET Bindings : bindings # ABSENT

VARIABLES
  listening,    \* listening[c]: whose 'changed' event the indexer of c hears
  changes

vars == <<tagMap, registry, bindingsIndexedByTag, listening, closed, changes>>

Init ==
  /\ tagMap = [b \in Bindings |-> [n \in TagNames |-> ABSENT]]
  /\ registry = [c \in Contexts |-> {}]
  /\ bindingsIndexedByTag = [c \in Contexts |-> [n \in TagNames |-> ABSENT]]
  /\ listening = [c \in Contexts |-> {}]
  /\ closed = {}
  /\ changes = 0

(*-------------------------------------------------------------------------*)
(* The index                                                               *)
(*-------------------------------------------------------------------------*)

RemoveTagIndex(index, bindings) ==
  [n \in TagNames |-> IF index[n] = ABSENT THEN ABSENT ELSE index[n] \ bindings]

UpdateTagIndexForBinding(index, b, names) ==
  [n \in TagNames |->
     IF n \notin names THEN RemoveTagIndex(index, {b})[n]
     ELSE {b} \cup (IF index[n] = ABSENT THEN {} ELSE index[n])]

(*-------------------------------------------------------------------------*)
(* Calls                                                                   *)
(*-------------------------------------------------------------------------*)

(* Mutant: 'changed' is still heard from a binding that has been removed.  *)
KeepListening(c, removed, added) == listening[c] \cup added

Listen(c, removed, added) == (listening[c] \ removed) \cup added

(* The listener of the context: 'unbind' for those removed, then 'bind';   *)
(* index is what becomes of the index.                                     *)
Notify(c, index, removed, added) ==
  IF c \in closed THEN UNCHANGED <<bindingsIndexedByTag, listening>>
  ELSE /\ bindingsIndexedByTag' = [bindingsIndexedByTag EXCEPT ![c] = index]
       /\ listening' = [listening EXCEPT ![c] = Listen(c, removed, added)]

Change == changes < MaxChanges /\ changes' = changes + 1

(* Adding the binding that is there already says nothing to anyone.        *)
Add(c, b) ==
  LET existing == {e \in registry[c] : e.key = b.key}
      without == RemoveTagIndex(bindingsIndexedByTag[c], existing)
  IN
  /\ b \notin registry[c]
  /\ Change
  /\ registry' = [registry EXCEPT ![c] = (@ \ existing) \cup {b}]
  /\ Notify(c, UpdateTagIndexForBinding(without, b, tagNames(b)), existing, {b})
  /\ UNCHANGED <<tagMap, closed>>

Unbind(c, b) ==
  /\ b \in registry[c]
  /\ Change
  /\ registry' = [registry EXCEPT ![c] = @ \ {b}]
  /\ Notify(c, RemoveTagIndex(bindingsIndexedByTag[c], {b}), {b}, {})
  /\ UNCHANGED <<tagMap, closed>>

(* Whoever hears 'changed' indexes the binding anew, closed or not.        *)
Tag(b, n, v) ==
  /\ tagMap[b][n] # v
  /\ tagMap' = [tagMap EXCEPT ![b][n] = v]
  /\ Cardinality({x \in Bindings \X TagNames : tagMap'[x[1]][x[2]] # ABSENT}) <= MaxTagged
  /\ bindingsIndexedByTag' = [c \in Contexts |->
       IF b \notin listening[c] THEN bindingsIndexedByTag[c]
       ELSE UpdateTagIndexForBinding(bindingsIndexedByTag[c], b, tagNames(b)')]
  /\ UNCHANGED <<registry, listening, closed, changes>>

Close(c) ==
  /\ c \notin closed
  /\ closed' = closed \cup {c}
  /\ UNCHANGED <<tagMap, registry, bindingsIndexedByTag, listening, changes>>

Next ==
  \/ \E c \in Contexts :
       \/ Close(c)
       \/ \E b \in Bindings : Add(c, b) \/ Unbind(c, b)
  \/ \E b \in Bindings, n \in TagNames, v \in TagValues : Tag(b, n, v)

Spec == Init /\ [][Next]_vars
=============================================================================
