------------------------- MODULE DecoratorFactories -------------------------
(***************************************************************************)
(* The decorator factories of packages/metadata: what is kept about the    *)
(* classes of a chain, base first, and about their members, as one         *)
(* decorator is applied to them.  Specs that are no objects, or instances  *)
(* of classes, which are not cloned, are left out, as are the factories    *)
(* that collect arrays.                                                    *)
(***************************************************************************)
EXTENDS MetadataPromise, ArrayMethods

CONSTANTS
  Fields,       \* the sets of fields that specs have
  MaxApplied    \* bound on the applications of the decorator

(* UNDEFINED is neither a number nor a map.                                *)
FactoryAssumption ==
  /\ Depth \in Nat \ {0} /\ Parameters \in Nat
  /\ UNDEFINED \notin Nat
  /\ \A places \in SUBSET ({<<"">>} \cup Members \X (0..Parameters)) :
       UNDEFINED \notin [places -> Nat]
  /\ UNDEFINED \notin Members \X (0..Parameters) /\ UNDEFINED # <<"">>

VARIABLES
  index         \* index[c][m]: MethodParameterDecoratorFactory counts down

vars == <<kind, allowInheritance, current, object, meta, index, applied, raised>>

Kinds == {"class", "property", "method", "parameter", "methodParameter"}

Init ==
  /\ kind \in Kinds /\ allowInheritance \in BOOLEAN
  /\ current = 1
  /\ object = <<>>
  /\ meta = [c \in Classes |-> UNDEFINED]
  /\ index = [c \in Classes |-> [m \in Members |-> Parameters - 1]]
  /\ applied = [c \in Classes |-> <<>>]
  /\ raised = UNDEFINED

Entry(map, place) == IF place \in DOMAIN map THEN map[place] ELSE UNDEFINED
With(map, place, spec) ==
  [p \in DOMAIN map \cup {place} |-> IF p = place THEN spec ELSE map[p]]

(* Mutant: the specs in the map are not cloned.                            *)
CloneShallow(objects, map) == [map |-> map, objects |-> objects]

(* cloneDeep: new specs, without the hidden target; sharing is kept.       *)
CloneDeep(objects, map) ==
  LET specs == InOrder(Range(map), <) IN
  [map |-> [p \in DOMAIN map |-> Len(objects) + IndexOf(specs, map[p])],
   objects |-> objects \o [i \in DOMAIN specs |->
                             [fields |-> objects[specs[i]].fields, target |-> UNDEFINED]]]

(* inherit and withTarget: the spec that the place gets is the inherited   *)
(* one with the fields of the own one, or else the own one.  The target of *)
(* a spec cannot be redefined.                                             *)
Inherit(inherited, spec) ==
  IF allowInheritance /\ inherited # UNDEFINED THEN inherited ELSE spec
Retargeted(objects, c, spec) == objects[spec].target \notin {UNDEFINED, c}
WithTarget(objects, c, result, spec) ==
  [objects EXCEPT ![result] =
     [fields |-> Assign(objects[result].fields, objects[spec].fields), target |-> c]]

(* mergeWithOwn of each factory: when it reports a duplicate, and which    *)
(* entry of the map it lets the spec inherit from.                         *)
Duplicate(map, objects, c, place) ==
  \/ kind \in {"class", "property"} /\ place \in DOMAIN map
  \/ kind \in {"method", "parameter"} /\ place \in DOMAIN map /\ objects[map[place]].target = c
OwnEntry(map, place) ==
  IF kind \in {"parameter", "methodParameter"} THEN Entry(map, place) ELSE UNDEFINED

Fail(place, spec) ==
  /\ raised' = [place |-> place, spec |-> spec]
  /\ UNCHANGED <<kind, allowInheritance, current, object, meta, index, applied>>

(* DecoratorFactory.decorate: a class without metadata of its own starts   *)
(* from a copy of those of its bases.                                      *)
Merge(place, objects, spec) ==
  LET c == current
      inheriting == meta[c] = UNDEFINED /\ allowInheritance
      base == IF inheriting THEN CloneDeep(objects, GetMetadata(c))
              ELSE [map |-> IF meta[c] = UNDEFINED THEN Empty ELSE meta[c], objects |-> objects]
      result == Inherit(IF inheriting THEN Entry(base.map, place)
                        ELSE OwnEntry(base.map, place), spec)
  IN IF (~inheriting /\ Duplicate(base.map, base.objects, c, place))
          \/ Retargeted(base.objects, c, result)
     THEN Fail(place, spec)
     ELSE /\ object' = WithTarget(base.objects, c, result, spec)
          /\ meta' = [meta EXCEPT ![c] = With(base.map, place, result)]
          /\ index' = IF kind # "methodParameter" THEN index
                      ELSE [index EXCEPT ![c][place[1]] = @ - 1]
          /\ applied' = [applied EXCEPT ![c] = Append(@,
               [place |-> place, spec |-> spec, fields |-> objects[spec].fields])]
          /\ UNCHANGED <<kind, allowInheritance, current, raised>>

CanApply ==
  raised = UNDEFINED /\ MapThenSumSet(LAMBDA c : Len(applied[c]), Classes) < MaxApplied

(* Decorators of methods that are about parameters take the last one that  *)
(* has none yet.                                                           *)
Target(place) ==
  kind = "methodParameter" => place[2] = index[current][place[1]]

(* decorator(spec): the spec is cloned, as cloneInputSpec is on by default.*)
Decorate(place, fields) ==
  /\ CanApply /\ Target(place)
  /\ LET value == <<current, Len(applied[current]) + 1>> IN
     Merge(place,
           Append(object, [fields |-> [f \in fields |-> value], target |-> UNDEFINED]),
           Len(object) + 1)

(* A decorator function that has been applied before has its spec still.   *)
DecorateAgain(place, a) ==
  /\ CanApply /\ Target(place)
  /\ Merge(place, object, a.spec)

(* No parameter of the method is left.                                     *)
Excess(m) ==
  /\ CanApply /\ kind = "methodParameter"
  /\ index[current][m] + 1 = 0
  /\ Fail(UNDEFINED, UNDEFINED)

Extend ==
  /\ raised = UNDEFINED /\ current < Depth
  /\ current' = current + 1
  /\ UNCHANGED <<kind, allowInheritance, object, meta, index, applied, raised>>

Next ==
  \/ \E place \in Places :
       \/ \E fields \in Fields : Decorate(place, fields)
       \/ \E c \in 1..current, i \in 1..MaxApplied :
            i \in DOMAIN applied[c] /\ DecorateAgain(place, applied[c][i])
  \/ \E m \in Members : Excess(m)
  \/ Extend

Spec == Init /\ [][Next]_vars
=============================================================================
