---------------------------- MODULE EntityRelations ----------------------------
(***************************************************************************)
(* The repository of a hasManyThrough relation                             *)
(* (packages/repository/src/relations/has-many): targets that belong to    *)
(* sources through a third model, whose instances are the links.  Each     *)
(* operation is several queries to two tables, without a transaction: any  *)
(* of them may fail, and other operations may come in between.             *)
(*                                                                         *)
(* A target has a type and an id; targets of different types live in       *)
(* different repositories and may have the same id.  A link holds the id   *)
(* and, as the discriminator, the type.                                    *)
(***************************************************************************)
EXTENDS InclusionResolvers

CONSTANTS
  Sources,
  Types,        \* of targets
  Ids,          \* of targets: numbers
  Hot,          \* the targets that match the condition of a delete()
  Clients,      \* callers of operations
  MaxOperations \* bound on the number of operations

ASSUME RelationsAssumption ==
  /\ Ids \subseteq Nat
  /\ Hot \subseteq Types \X Ids
  /\ NONE \notin Nat

Targets == Types \X Ids

VARIABLES
  links,        \* the through table, in the order of its keys
  keys,         \* how many keys it has generated
  target,       \* what has become of each target
  client,       \* the operation that each client runs
  operations,   \* how many have been called
  ever          \* who has been linked to what, for the properties

vars == <<links, keys, target, client, operations, ever>>

Idle == [at |-> "idle", source |-> NONE, target |-> NONE, hot |-> FALSE,
         todo |-> <<>>, job |-> 1, ids |-> {}, from |-> 0, alone |-> FALSE]

Init ==
  /\ links = <<>>
  /\ keys = 0
  /\ target = [t \in Targets |-> "absent"]
  /\ client = [c \in Clients |-> Idle]
  /\ operations = 0
  /\ ever = {}

(*-------------------------------------------------------------------------*)
(* Tables                                                                  *)
(*-------------------------------------------------------------------------*)

TargetOf(link) == <<link.type, link.id>>
Present == {t \in Targets : target[t] = "present"}

(* A table of targets, in the order of their ids.                          *)
Table(type) ==
  LET ids == SetToSortSeq({id \in Ids : <<type, id>> \in Present}, <)
  IN [i \in DOMAIN ids |-> [type |-> type, id |-> ids[i]]]
Tables == [type \in Types |-> Table(type)]

(* create() of the through repository: constrained to the source.          *)
CreateLink(s, t) ==
  /\ links' = Append(links, [key |-> keys, source |-> s, type |-> t[1], id |-> t[2]])
  /\ keys' = keys + 1
  /\ ever' = ever \cup {<<s, t>>}

DeleteLinks(gone) ==
  /\ links' = Filtered(links, {i \in DOMAIN links : links[i] \notin gone})
  /\ UNCHANGED keys

(*-------------------------------------------------------------------------*)
(* Operations                                                              *)
(*-------------------------------------------------------------------------*)

At(c, at) == client[c].at = at
Settles(c) == client' = [client EXCEPT ![c] = Idle]

(* What c calls; the operations that others run at the time overlap.       *)
Calls(c, record) ==
  /\ At(c, "idle")
  /\ operations < MaxOperations
  /\ operations' = operations + 1
  /\ LET alone == \A d \in Clients : At(d, "idle") IN
     client' = [d \in Clients |->
                  IF d = c THEN [record EXCEPT !.alone = alone]
                  ELSE [client[d] EXCEPT !.alone = FALSE]]

(* create(): the target first, with an id that the repository generates.   *)
Create(c, s, t) ==
  /\ target[t] = "absent"
  /\ Calls(c, [Idle EXCEPT !.at = "linking", !.source = s, !.target = t])
  /\ target' = [target EXCEPT ![t] = "present"]
  /\ UNCHANGED <<links, keys, ever>>

LinkCreated(c) ==
  /\ At(c, "linking")
  /\ CreateLink(client[c].source, client[c].target)
  /\ Settles(c)
  /\ UNCHANGED <<target, operations>>

(* link() does not look whether the target is there, or linked already.    *)
Link(c, s, t) ==
  /\ target[t] # "absent"
  /\ Calls(c, [Idle EXCEPT !.at = "linking", !.source = s, !.target = t])
  /\ UNCHANGED <<links, keys, target, ever>>

(* unlink() has the id of the target only.                                 *)
Unlink(c, s, t) ==
  /\ target[t] # "absent"
  /\ Calls(c, [Idle EXCEPT !.at = "unlinking", !.source = s, !.ids = {t[2]}])
  /\ UNCHANGED <<links, keys, target, ever>>

Linked(s) == {links[i].id : i \in {j \in DOMAIN links : links[j].source = s}}

(* unlinkAll() reads the links; without any it throws.                     *)
UnlinkAll(c, s) ==
  /\ Linked(s) # {}
  /\ Calls(c, [Idle EXCEPT !.at = "unlinking", !.source = s, !.ids = Linked(s)])
  /\ UNCHANGED <<links, keys, target, ever>>

(* Mutant: the target's constraint alone.                                  *)
UnlinkEverybody(c) ==
  /\ At(c, "unlinking")
  /\ DeleteLinks({l \in ToSet(links) : l.id \in client[c].ids})
  /\ Settles(c)
  /\ UNCHANGED <<target, operations, ever>>

DeleteLink(c) ==
  /\ At(c, "unlinking")
  /\ DeleteLinks({l \in ToSet(links) : l.source = client[c].source /\ l.id \in client[c].ids})
  /\ Settles(c)
  /\ UNCHANGED <<target, operations, ever>>

(* The links of a source by type, in the order in which types come up.     *)
Categorized(s) ==
  LET own == Filtered(links, {i \in DOMAIN links : links[i].source = s})
      types == Deduplicate(Values(own, "type"))
  IN [i \in DOMAIN types |->
        [type |-> types[i],
         ids |-> {own[j].id : j \in {k \in DOMAIN own : own[k].type = types[i]}}]]

(* delete(), with or without a condition: it reads the links, and for each *)
(* type deletes first links and then targets.                              *)
Delete(c, s, hot) ==
  /\ LET todo == Categorized(s) IN
     Calls(c, [Idle EXCEPT !.at = IF todo = <<>> THEN "idle" ELSE "deleting",
                 !.source = s, !.hot = hot, !.todo = todo, !.from = keys])
  /\ UNCHANGED <<links, keys, target, ever>>

Job(c) == client[c].todo[client[c].job]

(* With a condition: the targets that match it, anybody's.                 *)
FindMatching(c) ==
  /\ At(c, "deleting") /\ client[c].hot
  /\ client' = [client EXCEPT ![c].at = "matched",
                  ![c].ids = {id \in Ids : <<Job(c).type, id>> \in Present \cap Hot}]
  /\ UNCHANGED <<links, keys, target, operations, ever>>

DeleteOwnLinks(c) ==
  /\ At(c, "matched")
  /\ DeleteLinks({l \in ToSet(links) : l.source = client[c].source /\ l.id \in client[c].ids})
  /\ client' = [client EXCEPT ![c].at = "unlinked"]
  /\ UNCHANGED <<target, operations, ever>>

(* Without: all links of the source, and anybody's to targets that go.     *)
DeleteAllLinks(c) ==
  /\ At(c, "deleting") /\ ~client[c].hot
  /\ DeleteLinks({l \in ToSet(links) : l.source = client[c].source \/ l.id \in Job(c).ids})
  /\ client' = [client EXCEPT ![c].at = "unlinked"]
  /\ UNCHANGED <<target, operations, ever>>

(* The next type, if there is one.                                         *)
Continues(c) ==
  client' = [client EXCEPT ![c] =
    IF @.job = Len(@.todo) THEN Idle
    ELSE [@ EXCEPT !.at = "deleting", !.job = client[c].job + 1, !.ids = {}]]

Doomed(c) ==
  {t \in Present : t[1] = Job(c).type /\ t[2] \in Job(c).ids
                   /\ (client[c].hot => t \in Hot)}

(* Mutant: the condition is not constrained to the targets of the source.  *)
DeleteMatching(c) ==
  /\ At(c, "unlinked")
  /\ target' = [t \in Targets |->
       IF t \in Doomed(c) \/ (client[c].hot /\ t \in Present \cap Hot)
       THEN "deleted" ELSE target[t]]
  /\ Continues(c)
  /\ UNCHANGED <<links, keys, operations, ever>>

DeleteTargets(c) ==
  /\ At(c, "unlinked")
  /\ target' = [t \in Targets |-> IF t \in Doomed(c) THEN "deleted" ELSE target[t]]
  /\ Continues(c)
  /\ UNCHANGED <<links, keys, operations, ever>>

(* A query is rejected, and with it the operation.                         *)
Fail(c) ==
  /\ ~At(c, "idle")
  /\ Settles(c)
  /\ UNCHANGED <<links, keys, target, operations, ever>>

Query(c) ==
  \/ LinkCreated(c) \/ DeleteLink(c)
  \/ FindMatching(c) \/ DeleteOwnLinks(c) \/ DeleteAllLinks(c) \/ DeleteTargets(c)
  \/ Fail(c)

Call(c) ==
  \E s \in Sources :
    \/ \E t \in Targets : Create(c, s, t) \/ Link(c, s, t) \/ Unlink(c, s, t)
    \/ UnlinkAll(c, s)
    \/ \E hot \in BOOLEAN : Delete(c, s, hot)

Next == \E c \in Clients : Query(c) \/ Call(c)

Spec == Init /\ [][Next]_vars
-----------------------------------------------------------------------------
Links ==
  [key : Nat, source : Sources, type : Types, id : Ids]
Jobs == [type : Types, ids : SUBSET Ids]

TypeOK ==
  /\ links \in Seq(Links)
  /\ target \in [Targets -> {"absent", "present", "deleted"}]
  /\ client \in [Clients ->
       [at : {"idle", "linking", "unlinking", "deleting", "matched", "unlinked"},
        source : Sources \cup {NONE}, target : Targets \cup {NONE}, hot : BOOLEAN,
        todo : Seq(Jobs), job : Nat, ids : SUBSET Ids, from : Nat, alone : BOOLEAN]]
  /\ keys \in Nat /\ operations \in Nat
  /\ ever \subseteq Sources \X Targets

(* delete() of a source deletes no target that was never its own.          *)
DeletesOwnTargets ==
  [][\A t \in Targets :
       target[t] = "present" /\ target'[t] = "deleted" =>
         \E c \in Clients : At(c, "unlinked") /\ <<client[c].source, t>> \in ever]_vars

(* When a target is deleted, the links to it are gone: except links made   *)
(* since the operation read them, and, when it deletes by a condition,     *)
(* those of other sources.                                                 *)
DeletedIsUnlinked ==
  [][\A c \in Clients, i \in DOMAIN links :
       At(c, "unlinked") /\ TargetOf(links[i]) \in Doomed(c)
       /\ target'[TargetOf(links[i])] = "deleted" =>
         \/ links[i].key >= client[c].from
         \/ client[c].hot /\ links[i].source # client[c].source]_vars

(* The links of one source survive the operations of another, unless one   *)
(* deletes a target of that id.                                            *)
Gone == {i \in DOMAIN links : \A j \in DOMAIN links' : links'[j].key # links[i].key}
SparesOthers ==
  [][\A i \in Gone : \E c \in Clients :
       \/ client[c].source = links[i].source
       \/ At(c, "deleting") /\ ~client[c].hot /\ links[i].id \in Job(c).ids]_vars

(* delete() without failure or overlap leaves neither a link of the source *)
(* nor a target that it was linked to, of any type; with a condition, none *)
(* that matches.                                                           *)
Spared(c, t) == client[c].hot /\ t \notin Hot
DeletesAll ==
  [][\A c \in Clients :
       At(c, "unlinked") /\ client[c].alone /\ client'[c].at = "idle" /\ target' # target =>
         /\ \A i \in DOMAIN links :
              links[i].source = client[c].source =>
                \/ Spared(c, TargetOf(links[i]))
                \/ client[c].hot /\ target'[TargetOf(links[i])] = "deleted"
         /\ \A n \in DOMAIN client[c].todo : \A id \in client[c].todo[n].ids :
              LET t == <<client[c].todo[n].type, id>> IN
              Spared(c, t) \/ target'[t] = "deleted"]_vars

(* delete(), which is several queries to two tables without a transaction, *)
(* removes what it must and nothing else, whatever other clients do or     *)
(* which of the queries fail: the three facts above.                       *)
DeletesRightly == DeletesOwnTargets /\ DeletedIsUnlinked /\ DeletesAll

(*-------------------------------------------------------------------------*)
(* Inclusion                                                               *)
(*-------------------------------------------------------------------------*)

Queries == SetToSeqs(Sources)
Limits == {NONE, 1}
Scopes == [limit : Limits, totalLimit : Limits]
Own(s) == SelectSeq(links, LAMBDA l : l.source = s)
IsPresent(l) == TargetOf(l) \in Present

(* The links of several sources: each its own, in order.  The limit        *)
(* applies to each source; a totalLimit, which replaces it, to all of them *)
(* together.  Below an inclusion through a third model, the limit applies  *)
(* to all of them, too, which is not right and not claimed here.           *)
HasManyRight ==
  \A sources \in Queries, scope \in Scopes, below \in BOOLEAN :
    ~below \/ scope.limit = NONE =>
    LET theirs == SelectSeq(links, LAMBDA l : l.source \in ToSet(sources)) IN
    FetchHasManyModels(sources, links, "source", scope, below) =
      [i \in DOMAIN sources |->
         IF scope.totalLimit = NONE THEN Take(scope.limit, Own(sources[i]))
         ELSE SelectSeq(Take(scope.totalLimit, theirs), LAMBDA l : l.source = sources[i])]

(* The target of each link, of several types, some of them shared or gone. *)
BelongsToRight ==
  FetchBelongsToModel(links, Tables, "id") =
    [i \in DOMAIN links |->
       IF IsPresent(links[i]) THEN [type |-> links[i].type, id |-> links[i].id]
       ELSE NONE]

(* The targets to which several holders have references: those that are    *)
(* there, in the order of the references.                                  *)
ReferencesManyRight ==
  \A sources \in Queries, type \in Types :
    LET Refs(s) == SelectSeq(Own(s), LAMBDA l : l.type = type) IN
    FetchReferencesMany([i \in DOMAIN sources |-> Values(Refs(sources[i]), "id")],
                        Table(type), "id") =
      [i \in DOMAIN sources |->
         LET there == SelectSeq(Refs(sources[i]), IsPresent)
         IN [n \in DOMAIN there |-> [type |-> type, id |-> there[n].id]]]

(* The targets of several sources through links of one type: each its own, *)
(* each once, up to the limit, of the first ones if there is a totalLimit. *)
HasManyThroughRight ==
  \A sources \in Queries, scope \in Scopes, type \in Types :
    LET through == SelectSeq(links, LAMBDA l : l.type = type)
        Reached(t, among) ==
          \E j \in DOMAIN through : through[j].source \in among /\ through[j].id = t.id
        theirs == SelectSeq(Table(type), LAMBDA t : Reached(t, ToSet(sources)))
    IN FetchHasManyThroughModels(sources, through, "source", Table(type), "id", scope) =
         [i \in DOMAIN sources |->
            Take(scope.limit, SelectSeq(Take(scope.totalLimit, theirs),
                                        LAMBDA t : Reached(t, {sources[i]})))]

(* Whatever the tables have become, with links that are duplicated, shared *)
(* or dangling: the resolvers, which fetch everything at once, give each   *)
(* entity what a query of its own would, limits included, with the one     *)
(* exception stated for hasMany.                                           *)
Includes ==
  HasManyRight /\ BelongsToRight /\ ReferencesManyRight /\ HasManyThroughRight

(* "Why the order is correct", of the comment in the resolver: shifting    *)
(* the targets of each type in the order of the links gives each source    *)
(* the targets that it is linked to.                                       *)
IncludesPolymorphic ==
  \A sources \in Queries :
    LET included == FetchPolymorphicThroughModels(sources, links, "source", Tables, "id") IN
    \A i \in DOMAIN sources :
      {TargetOf(included[i][n]) : n \in DOMAIN included[i]} =
        {TargetOf(links[j]) : j \in {k \in DOMAIN links :
           links[k].source = sources[i] /\ IsPresent(links[k])}}
=============================================================================
