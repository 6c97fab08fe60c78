-------------------------- MODULE MetadataPromise --------------------------
(***************************************************************************)
(* What the decorator factories of packages/metadata promise: the metadata *)
(* that are kept about the classes of a chain, base first, and their       *)
(* members, given what has been applied to them.  How they come about is   *)
(* in DecoratorFactories.                                                  *)
(*                                                                         *)
(* Metadata are kept on a class as a map from places to specs: the class   *)
(* itself, its properties or methods, or their parameters, with the index  *)
(* of a parameter.  What matters is which maps share a spec, as specs are  *)
(* changed in place: `object` is the store of all specs, and maps refer to *)
(* them by number.  A spec is an object with some fields; the value of a   *)
(* field tells which application of the decorator it is from.              *)
(***************************************************************************)
EXTENDS Naturals, Sequences, FiniteSetsExt, Functions

CONSTANTS
  Depth,        \* the number of classes in the chain
  Members,      \* names of properties or methods
  Parameters,   \* the number of parameters of each method
  UNDEFINED

VARIABLES
  kind,         \* of the decorator
  allowInheritance,
  current,      \* the class whose decorators run
  object,       \* sequence of specs
  meta,         \* meta[c]: the map of a class, or UNDEFINED
  applied,      \* history: applied[c] is the sequence of what was applied
  raised        \* the place and the spec for which an error has ended it all

Classes == 1..Depth
Places == IF kind = "class" THEN {<<"">>}
          ELSE IF kind \in {"property", "method"} THEN Members \X {0}
          ELSE Members \X (0..Parameters - 1)
Empty == [p \in {} |-> UNDEFINED]

(* Reflector.getMetadata: the map of the class, or of its closest base.    *)
GetMetadata(c) ==
  LET decorated == {d \in 1..c : meta[d] # UNDEFINED} IN
  IF decorated = {} THEN Empty ELSE meta[Max(decorated)]
Metadata(c) ==
  LET map == GetMetadata(c) IN [p \in DOMAIN map |-> object[map[p]].fields]

(* What has been applied to a class itself.                                *)
OwnPlaces(c) == {a.place : a \in Range(applied[c])}
OwnFields(c, place) == (CHOOSE a \in Range(applied[c]) : a.place = place).fields
IsFirst(c, place) == applied[c] # <<>> /\ applied[c][1].place = place

(* The fields of both, those of the second prevail.                        *)
Assign(base, own) ==
  [f \in DOMAIN base \cup DOMAIN own |-> IF f \in DOMAIN own THEN own[f] ELSE base[f]]

(* The metadata of a class, calculated from those of its base and from the *)
(* fields that have been given to its places, of which some take over the  *)
(* fields of the base.                                                     *)
Merged(c, inheriting) ==
  LET base == IF applied[c] = <<>> \/ allowInheritance THEN Metadata(c - 1) ELSE Empty
      own == OwnPlaces(c)
  IN [p \in DOMAIN base \cup own |->
        IF p \notin own THEN base[p]
        ELSE IF p \in DOMAIN base \cap inheriting THEN Assign(base[p], OwnFields(c, p))
        ELSE OwnFields(c, p)]

(* Whether a decorator function is applied twice up to a class.            *)
Shared(c) ==
  \E d, e \in 1..c : \E i \in DOMAIN applied[d], j \in DOMAIN applied[e] :
    <<d, i>> # <<e, j>> /\ applied[d][i].spec = applied[e][j].spec
Shown == {c \in Classes : ~Shared(c)}
Foreign == UNION {{a.spec : a \in Range(applied[c])} : c \in 1..current - 1}

(* Whatever is applied to a class and its members, in any order, its       *)
(* metadata are those of its base with its own merged in, and those of its *)
(* bases stay as they are, although specs are changed in place: as long as *)
(* each decorator function is applied once to the class or its bases.  An  *)
(* error means that the place is decorated already, or that a function is  *)
(* applied repeatedly.  Two factories fall short of what the documentation *)
(* says of all: of the methods that a class decorates anew only the first  *)
(* inherits, and the inherited properties cannot be decorated anew once    *)
(* the class has metadata of its own.                                      *)
MetadataMerged ==
  /\ \A c \in Shown :
       Metadata(c) = Merged(c, {p \in Places : kind = "method" => IsFirst(c, p)})
  /\ raised # UNDEFINED /\ raised.place \in Places =>
       \/ raised.place \in OwnPlaces(current)
       \/ raised.spec \in Foreign \/ Shared(current)
       \/ kind = "property" /\ raised.place \in DOMAIN Metadata(current)

(* packages/metadata/README.md, "Customize inheritance of metadata": "we   *)
(* merge the `spec` argument from the decorator function into the          *)
(* inherited value from base classes", and errors are thrown "if the same  *)
(* decorator function is applied to a given target member [...] more than  *)
(* once".                                                                  *)
MergedAsDocumented ==
  /\ \A c \in Shown : Metadata(c) = Merged(c, Places)
  /\ raised # UNDEFINED /\ raised.place \in Places =>
       \/ raised.place \in OwnPlaces(current)
       \/ raised.spec \in Foreign \/ Shared(current)
=============================================================================
