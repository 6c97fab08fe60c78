---------------------------- MODULE IndexPromise ----------------------------
(***************************************************************************)
(* Finding bindings by their tags (packages/context): the registries of a  *)
(* context and its parent, and the search through the index that each      *)
(* keeps, which must find what a search through the registries would.      *)
(* What changes them is in TagIndexer.                                     *)
(*                                                                         *)
(* A binding is a record of its key and of a number that tells it from     *)
(* others with that key; the same binding may be in both contexts.  What a *)
(* filter asks for is a name, a pattern, which is the set of the names it  *)
(* matches, or a map of names to values.  Locked bindings are left out.    *)
(***************************************************************************)
EXTENDS SequencesExt

CONSTANTS
  Bindings,     \* records with a key and an id
  TagNames, TagValues,
  ABSENT        \* for undefined

VARIABLES
  tagMap,       \* tagMap[b][n]: the tags of a binding
  registry,     \* registry[c]: the bindings of a context
  bindingsIndexedByTag,   \* [c][n]: a set of bindings, or ABSENT
  closed        \* the contexts whose index has been closed

Contexts == {"child", "parent"}
tagNames(b) == {n \in TagNames : tagMap[b][n] # ABSENT}

TagFilters == [name : TagNames] \cup [pattern : SUBSET TagNames]
           \cup UNION {[tags : [names -> TagValues]] : names \in (SUBSET TagNames) \ {{}}}

(* filterByTag                                                             *)
Passes(filter, b) ==
  IF "name" \in DOMAIN filter THEN filter.name \in tagNames(b)
  ELSE IF "pattern" \in DOMAIN filter THEN tagNames(b) \cap filter.pattern # {}
  ELSE \A n \in DOMAIN filter.tags : tagMap[b][n] = filter.tags[n]

(* For a pattern, whatever has a name that it matches.  Else the names are *)
(* visited one by one, up to one that no entry, or nothing that passes, is *)
(* found under; found is what is under each of the names visited.          *)
FindByTagIndex(c, filter) ==
  LET Matched(n) == {b \in bindingsIndexedByTag[c][n] : Passes(filter, b)}
      Found(n) == bindingsIndexedByTag[c][n] # ABSENT
  IN IF "pattern" \in DOMAIN filter
     THEN UNION {Matched(n) : n \in {m \in filter.pattern : Found(m)}}
     ELSE LET names == SetToSeq(IF "name" \in DOMAIN filter THEN {filter.name}
                                ELSE DOMAIN filter.tags)
              visited == {i \in DOMAIN names :
                            \A j \in 1..i : Found(names[j]) /\ Matched(names[j]) # {}}
          IN {b \in Bindings : visited # {} /\ \A i \in visited : b \in Matched(names[i])}

MergeWithParent(children, parents) ==
  children \cup {p \in parents : \A b \in children : b.key # p.key}

(* Context._findByTagIndex, and what Context.find does with a filter that  *)
(* is not for tags.                                                        *)
FindByTag(c, filter) ==
  IF c = "parent" THEN FindByTagIndex("parent", filter)
  ELSE MergeWithParent(FindByTagIndex("child", filter), FindByTagIndex("parent", filter))
FindBindings(c, filter) ==
  LET Matching(d) == {b \in registry[d] : Passes(filter, b)} IN
  IF c = "parent" THEN Matching("parent")
  ELSE MergeWithParent(Matching("child"), Matching("parent"))

(* The index is no more than an index: until the context, or its parent,   *)
(* is closed, findByTag() returns what a search through the registries     *)
(* with the same filter would, whatever has been added, replaced, removed, *)
(* added again and tagged in between, before or after it was bound, in one *)
(* context or in both.                                                     *)
IndexIsTrue ==
  \A c \in Contexts, filter \in TagFilters :
    (closed \cap {c, "parent"} = {}) => FindByTag(c, filter) = FindBindings(c, filter)

=============================================================================
