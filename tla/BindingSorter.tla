--------------------------- MODULE BindingSorter ---------------------------
(***************************************************************************)
(* Sorting of bindings by phase (packages/context/src/binding-sorter.ts),  *)
(* used for life cycle observers, global interceptors and middleware.      *)
(***************************************************************************)
EXTENDS ArrayMethods

(* compareByOrder: the difference of the positions in order if one of the  *)
(* two phases has one, so that a phase without position comes first; else  *)
(* the alphabetical order of the names, of which alphabet is the list.     *)
CompareByOrder(a, b, order, alphabet) ==
  LET i1 == IndexOf(order, a)
      i2 == IndexOf(order, b)
  IN IF i1 # 0 \/ i2 # 0
     THEN i1 - i2
     ELSE IndexOf(alphabet, a) - IndexOf(alphabet, b)

(* sortBindingsByPhase: Array.prototype.sort is stable.                    *)
SortBindingsByPhase(bindings, phase, order, alphabet) ==
  LET Before(i, j) ==
        LET c == CompareByOrder(phase[bindings[i]], phase[bindings[j]],
                                order, alphabet)
        IN c < 0 \/ (c = 0 /\ i < j)
      indices == InOrder(DOMAIN bindings, Before)
  IN [k \in DOMAIN bindings |-> bindings[indices[k]]]

=============================================================================
