---------------------------- MODULE WhereBuilder ----------------------------
(***************************************************************************)
(* WhereBuilder of packages/filter, with which the repositories of         *)
(* relations constrain what their callers ask for (constraint-utils.ts).   *)
(*                                                                         *)
(* A where is a map from keys: a property has the set of its values that   *)
(* are admitted, whatever the operator (eq, gt, inq, ...) says it; "and"   *)
(* and "or" have a sequence of wheres.  A model that has a property with   *)
(* the name of one of these two is left out, as is an empty list for them: *)
(* what that means is up to the connector.                                 *)
(***************************************************************************)
EXTENDS Naturals, Sequences, Functions

CONSTANTS
  Properties,   \* names of properties
  Values,       \* their values
  Restrictions, \* the sets of values that conditions admit
  MaxCalls      \* bound on the calls of the builder

VARIABLES
  where,        \* what has been built
  admitted,     \* history: the entities that every call so far admits
  calls

vars == <<where, admitted, calls>>

Entities == [Properties -> Values]

(* What the callers say: conditions on some properties, or on none; in the *)
(* lists, two that are about a property each.                              *)
Conditions == UNION {[ps -> Restrictions] : ps \in SUBSET Properties}
Clauses == UNION {[{p} -> Restrictions] : p \in Properties}
Lists == [1..2 -> Clauses]

RECURSIVE Admits(_, _)
Admits(w, entity) ==
  \A k \in DOMAIN w :
    CASE k = "and" -> \A i \in DOMAIN w[k] : Admits(w[k][i], entity)
      [] k = "or" -> \E i \in DOMAIN w[k] : Admits(w[k][i], entity)
      [] OTHER -> entity[k] \in w[k]

(* A builder starts from the where it is given, such as a caller's filter. *)
Init ==
  /\ where \in Conditions
  /\ admitted = {e \in Entities : Admits(where, e)}
  /\ calls = 0

(* Object.assign: the later entry of a key wins.                           *)
Assign(v, w) == [k \in DOMAIN v \cup DOMAIN w |-> IF k \in DOMAIN w THEN w[k] ELSE v[k]]

(* Mutant: keys that conflict are not looked for.                          *)
Overwrite(w) == where' = Assign(where, w)

(* A where that has a key already becomes one side of an "and".            *)
AddClause(w) ==
  where' = IF DOMAIN w \cap DOMAIN where # {} THEN [k \in {"and"} |-> <<where, w>>]
           ELSE Assign(where, w)

Call(w) ==
  /\ calls < MaxCalls
  /\ calls' = calls + 1
  /\ AddClause(w)
  /\ admitted' = {e \in admitted : Admits(w, e)}

(* impose(), which constrainFilter and constrainWhere call.                *)
Impose(w) == Call(w)

(* eq, neq, gt, gte, lt, lte, inq, nin, between, exists, like, ...         *)
Condition(p, values) == Call([k \in {p} |-> values])
And(list) == Call([k \in {"and"} |-> list])
Or(list) == Call([k \in {"or"} |-> list])

Next ==
  \/ \E w \in Conditions : Impose(w)
  \/ \E p \in Properties, values \in Restrictions : Condition(p, values)
  \/ \E list \in Lists : And(list) \/ Or(list)

Spec == Init /\ [][Next]_vars
-----------------------------------------------------------------------------
(* Constraints hold: what has been built admits the entities that each of  *)
(* the calls admits and no other, however often they name the same         *)
(* property, "and" or "or".  So nothing a caller of a constrained          *)
(* repository asks for lifts the constraint, and the constraint adds       *)
(* nothing of its own.                                                     *)
ConstraintsHold ==
  \A entity \in Entities : Admits(where, entity) <=> entity \in admitted
=============================================================================
