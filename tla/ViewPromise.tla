---------------------------- MODULE ViewPromise ----------------------------
(***************************************************************************)
(* What an open view (packages/context/src/context-view.ts) promises: the  *)
(* bindings of its context, what the view has cached of them, and how the  *)
(* two must agree.  What happens to them is in ContextView.                *)
(***************************************************************************)
EXTENDS ArrayMethods

CONSTANTS
  Candidates,   \* the bindings that match the view's filter
  Absent,       \* those whose value is null
  Singletons,   \* those in the singleton scope
  NULL

VARIABLES
  bound,        \* the matching bindings of the context, in order
  pending,      \* notifications on the way to the view
  view,         \* the cache of the view
  outdated      \* history: the cached values come from an overtaken call

V == INSTANCE ViewCache

(* getValue is undefined for a singleton that no context owns any more.    *)
Disowned(b) == b \in Singletons /\ b \notin ToSet(bound)

(* The value that a binding resolves to, at once or later.                 *)
Value(b) == IF b \in Absent \/ Disowned(b) THEN NULL ELSE b

(* resolve() drops the values that are null.                               *)
ValuesOf(bindings) ==
  Filtered([i \in DOMAIN bindings |-> Value(bindings[i])],
           {i \in DOMAIN bindings : Value(bindings[i]) # NULL})

(* The values of the bindings of the context as the cache holds them: in   *)
(* order, and then undefined for each value that resolve() has dropped.    *)
ValuesInCache ==
  [i \in DOMAIN bound |->
     IF i \in DOMAIN ValuesOf(bound) THEN ValuesOf(bound)[i] ELSE NULL]

(* ContextView: "maintain a live list of matching bindings and their       *)
(* resolved values".  Once the view has been told of all changes, however  *)
(* many callers read it at the same time and whatever changed meanwhile:   *)
(* the bindings that it has cached are those of the context, and the       *)
(* values are theirs.  Except for values cached by a call that was still   *)
(* waiting for them when another reader found the bindings anew: nothing   *)
(* in the code keeps those out.                                            *)
LiveList ==
  pending = 0 =>
    /\ view.bindings # NULL => view.bindings = bound
    /\ view.values # NULL /\ ~outdated => V!CachedValues(view) = ValuesInCache

(* Without the exception, as the documentation has it: does not hold.      *)
AlwaysLive ==
  pending = 0 /\ view.values # NULL => V!CachedValues(view) = ValuesInCache

=============================================================================
