---------------------------- MODULE MCSequential ----------------------------
(***************************************************************************)
(* Values for model checking the algorithms that nothing interrupts: the   *)
(* routers, the tag index, the where builder and the decorator factories.  *)
(* They do not interact; a behaviour is one of one of them.                *)
(***************************************************************************)
EXTENDS Routers, IndexPromise, MetadataPromise, TLC

CONSTANTS
  MaxTagged, MaxChanges,
  Properties, Values, Restrictions, MaxCalls,
  Fields, MaxApplied

VARIABLES
  algorithm,
  listening, changes,
  where, admitted, calls,
  index

tagVars == <<tagMap, registry, bindingsIndexedByTag, listening, closed, changes>>
whereVars == <<where, admitted, calls>>
decoratorVars ==
  <<kind, allowInheritance, current, object, meta, index, applied, raised>>

TagIndex == INSTANCE TagIndexer
AnyIndex == INSTANCE TagIndexer WITH closed <- {}   \* for Init: closed or not
Builder == INSTANCE WhereBuilder
Factories == INSTANCE DecoratorFactories

ASSUME TagIndex!TagAssumption
ASSUME Factories!FactoryAssumption

(* Two bindings have the same key.                                         *)
ThreeBindings == [key : {"a"}, id : {1, 2}] \cup [key : {"b"}, id : {1}]
OneEach == {{v} : v \in Values}

SeqInit ==
  /\ algorithm \in {"routers", "tags", "where", "decorators"}
  /\ Init /\ AnyIndex!Init /\ Builder!Init /\ Factories!Init
  \* The others stay in one of their initial states, the index in a closed one,
  \* of which there is nothing to check.
  /\ closed = IF algorithm = "tags" THEN {} ELSE Contexts
  /\ algorithm # "routers" => strict = TRUE
  /\ algorithm # "where" => where = [k \in {} |-> NONE]
  /\ algorithm # "decorators" => kind = "class" /\ allowInheritance

SeqNext ==
  /\ UNCHANGED algorithm
  /\ \/ /\ algorithm = "routers" /\ Next
        /\ UNCHANGED <<tagVars, whereVars, decoratorVars>>
     \/ /\ algorithm = "tags" /\ TagIndex!Next
        /\ UNCHANGED <<vars, whereVars, decoratorVars>>
     \/ /\ algorithm = "where" /\ Builder!Next
        /\ UNCHANGED <<vars, tagVars, decoratorVars>>
     \/ /\ algorithm = "decorators" /\ Factories!Next
        /\ UNCHANGED <<vars, tagVars, whereVars>>

SeqSpec ==
  /\ SeqInit
  /\ [][SeqNext]_<<algorithm, vars, tagVars, whereVars, decoratorVars>>

(* A where that has been built admits what each of the calls admits and no *)
(* more (see WhereBuilder).                                                *)
ConstraintsHold == algorithm = "where" => Builder!ConstraintsHold

(* The routers can be exchanged (see Routers).                             *)
SameRoutes == algorithm = "routers" => RoutersAgree

Symmetry ==
  Permutations(Variables) \cup Permutations(TagNames) \cup Permutations(TagValues)
    \cup Permutations(Properties) \cup Permutations(Values) \cup Permutations(Members)
=============================================================================
