-------------------------- MODULE InclusionResolvers --------------------------
(***************************************************************************)
(* How related models are put into the result of a query                   *)
(* (packages/repository/src/relations).  The resolver of a relation        *)
(* fetches the targets of all entities at once and distributes them over   *)
(* the entities in memory.  A query returns a subsequence of a table; the  *)
(* empty sequence also stands for undefined.                               *)
(***************************************************************************)
EXTENDS ArrayMethods

CONSTANT NONE

Take(limit, s) == IF limit = NONE \/ limit >= Len(s) THEN s ELSE SubSeq(s, 1, limit)
Values(s, name) == [i \in DOMAIN s |-> s[i][name]]

(* The first occurrence of each element.                                   *)
Deduplicate(s) == Filtered(s, {i \in DOMAIN s : \A j \in 1..(i - 1) : s[j] # s[i]})

(* What of the scope of an inclusion says how many: limits are positive.   *)
Unlimited == [limit |-> NONE, totalLimit |-> NONE]

(* Mutant: one query for all keys, with the limit of the scope.            *)
FindAtOnce(table, keyName, keys, scope, isThroughModelInclude) ==
  LET limit == IF scope.totalLimit # NONE THEN scope.totalLimit ELSE scope.limit
  IN Take(limit, SelectSeq(table, LAMBDA e : e[keyName] \in ToSet(keys)))

(* One query for all keys, with what limit there is: totalLimit in place   *)
(* of limit.  One for each key if the scope has a limit only, and not in   *)
(* or below the inclusion through a third model, whose query of targets    *)
(* hands its options on to the inclusions of these.                        *)
FindByForeignKeys(table, keyName, keys, scope, isThroughModelInclude) ==
  IF isThroughModelInclude \/ scope.limit = NONE \/ scope.totalLimit # NONE
  THEN Take(IF scope.totalLimit # NONE THEN scope.totalLimit ELSE scope.limit,
            SelectSeq(table, LAMBDA e : e[keyName] \in ToSet(keys)))
  ELSE FlattenSeq([i \in DOMAIN keys |->
         Take(scope.limit, SelectSeq(table, LAMBDA e : e[keyName] = keys[i]))])

(* The lookup map keeps the target that comes last, ...                    *)
FlattenTargetsOfOneToOneRelation(keys, found, keyName) ==
  [i \in DOMAIN keys |->
     LET mine == SelectSeq(found, LAMBDA e : e[keyName] = keys[i])
     IN IF mine = <<>> THEN NONE ELSE mine[Len(mine)]]

(* ... or all of them.                                                     *)
FlattenTargetsOfOneToManyRelation(keys, found, keyName) ==
  [i \in DOMAIN keys |-> SelectSeq(found, LAMBDA e : e[keyName] = keys[i])]

FetchHasManyModels(keys, table, keyName, scope, isThroughModelInclude) ==
  FlattenTargetsOfOneToManyRelation(
    keys, FindByForeignKeys(table, keyName, keys, scope, isThroughModelInclude), keyName)

(* The n-th element of its type: how often shift() has been called.        *)
Nth(entities, i) ==
  Cardinality({j \in 1..i : entities[j].type = entities[i].type})

(* belongsTo and hasOne: the entities are grouped by the type of their     *)
(* target, and the targets of each type are shifted back in turn.          *)
FetchBelongsToModel(entities, table, id) ==
  LET IdsOf(type) == Values(SelectSeq(entities, LAMBDA e : e.type = type), id)
      Targets(type) ==
        FlattenTargetsOfOneToOneRelation(
          IdsOf(type),
          FindByForeignKeys(table[type], id, Deduplicate(IdsOf(type)), Unlimited, FALSE), id)
  IN [i \in DOMAIN entities |-> Targets(entities[i].type)[Nth(entities, i)]]

(* referencesMany: chains are the arrays of ids that the entities hold.    *)
FetchReferencesMany(chains, table, id) ==
  LET found ==
        FindByForeignKeys(table, id, Deduplicate(FlattenSeq(chains)), Unlimited, FALSE)
  IN [i \in DOMAIN chains |->
        SelectSeq(FlattenTargetsOfOneToOneRelation(chains[i], found, id),
                  LAMBDA t : t # NONE)]

(* hasManyThrough: the links of all entities, the targets of all links;    *)
(* each entity gets its own in the order of the latter, up to the limit.   *)
FetchHasManyThroughModels(keys, links, keyFrom, table, id, scope) ==
  LET through == FetchHasManyModels(keys, links, keyFrom, Unlimited, FALSE)
      allIds == Deduplicate(Values(FlattenSeq(through), id))
      found ==
        FindByForeignKeys(table, id, allIds, [scope EXCEPT !.limit = NONE], TRUE)
  IN [i \in DOMAIN keys |->
        Take(scope.limit, SelectSeq(found, LAMBDA t : t[id] \in ToSet(Values(through[i], id))))]

(* The same for a polymorphic relation: the links are grouped by the type  *)
(* of their target, and the targets found of each type shifted in turn.    *)
FetchPolymorphicThroughModels(keys, links, keyFrom, table, id) ==
  LET through == FetchHasManyModels(keys, links, keyFrom, Unlimited, FALSE)
      all == FlattenSeq(through)
      Before(i) == Len(FlattenSeq(SubSeq(through, 1, i - 1)))
      Found(type) ==
        FindByForeignKeys(table[type], id,
          Values(SelectSeq(all, LAMBDA e : e.type = type), id), Unlimited, FALSE)
      Shifted(at) ==
        LET found == Found(all[at].type) n == Nth(all, at)
        IN IF n > Len(found) THEN <<>> ELSE <<found[n]>>
  IN [i \in DOMAIN keys |->
        FlattenSeq([j \in DOMAIN through[i] |-> Shifted(Before(i) + j)])]
=============================================================================
