----------------------------- MODULE ViewCache -----------------------------
(***************************************************************************)
(* The cache of a ContextView (packages/context/src/context-view.ts): the  *)
(* bindings found in the context, in the order in which they were found,   *)
(* and their values, a Map keyed by binding that keeps insertion order.    *)
(***************************************************************************)
EXTENDS Sequences, Naturals

CONSTANT NULL     \* undefined and null

(* Nothing is cached: the new view, and refresh().                         *)
Refreshed == [bindings |-> NULL, values |-> NULL]

(* The getter `bindings`: finds the bindings unless they are cached.       *)
WithBindings(view, found) ==
  IF view.bindings = NULL THEN [view EXCEPT !.bindings = found] ELSE view

(* updateCachedValues: pairs the values with the bindings that are cached  *)
(* now, position by position; nothing if none are.                         *)
WithValues(view, list) ==
  IF view.bindings = NULL THEN view
  ELSE [view EXCEPT !.values =
          [i \in DOMAIN view.bindings |->
             [binding |-> view.bindings[i],
              value |-> IF i \in DOMAIN list THEN list[i] ELSE NULL]]]

(* getCachedValues: the values of the map, in insertion order.             *)
CachedValues(view) == [i \in DOMAIN view.values |-> view.values[i].value]

(* Each cached value is the value of its binding.                          *)
Paired(view, Value(_)) ==
  view.values # NULL =>
    \A i \in DOMAIN view.values :
      view.values[i].value = Value(view.values[i].binding)

=============================================================================
