-------------------------- MODULE ComponentProofs --------------------------
(***************************************************************************)
(* Proofs about four components that keep what others rely on: the         *)
(* repository of a relation (EntityRelations), a live view of a context    *)
(* (ContextView), the tag index of a context (TagIndexer) and the pooling  *)
(* service (ResourcePool).  Each has an inductive invariant of its own.    *)
(* The constants of the last three are free here, and what they are        *)
(* assumed to be is a hypothesis of the lemmas that need it.               *)
(***************************************************************************)
EXTENDS EntityRelations, ViewPromise, IndexPromise, PoolPromise, SequenceLemmas

CONSTANTS
  MaxChanges,                                                        \* View, Tags
  Deferred, Readers, MayFail,                                        \* View
  MaxTagged,                                                         \* Tags
  MaxResources, MaxFailures                                          \* Pool

VARIABLES
  changes,                                                           \* View, Tags
  reader, overtaken,                                                 \* View
  listening,                                                         \* Tags
  service, queue, failures                                           \* Pool

View == INSTANCE ContextView
Tags == INSTANCE TagIndexer
Pool == INSTANCE ResourcePool

(*-------------------------------------------------------------------------*)
(* EntityRelations: the invariant                                          *)
(*-------------------------------------------------------------------------*)

(* Whoever is linked to a target, or was, or is about to be: the target    *)
(* has been created.                                                       *)
EverLinked ==
  /\ \A i \in DOMAIN links :
       links[i].key < keys /\ <<links[i].source, TargetOf(links[i])>> \in ever
  /\ \A s \in Sources, t \in Targets : <<s, t>> \in ever => target[t] # "absent"
Linking(c) == At(c, "linking") =>
  /\ client[c].source \in Sources /\ client[c].target \in Targets
  /\ target[client[c].target] # "absent"

(* A delete() knows targets of its source only, and those of the types     *)
(* that it is done with are deleted.                                       *)
JobTarget(c, n, id) == <<client[c].todo[n].type, id>>
InDelete(c) == At(c, "deleting") \/ At(c, "matched") \/ At(c, "unlinked")
KnowsOwn(c) == InDelete(c) =>
  /\ client[c].source \in Sources
  /\ client[c].job \in 1..Len(client[c].todo)
  /\ client[c].from <= keys
  /\ \A n \in DOMAIN client[c].todo : \A id \in client[c].todo[n].ids :
       /\ <<client[c].source, JobTarget(c, n, id)>> \in ever
       /\ n < client[c].job => \/ Spared(c, JobTarget(c, n, id))
                               \/ target[JobTarget(c, n, id)] = "deleted"

(* With a condition: of the links that it has read, to targets that are    *)
(* there and match, it knows the ids.                                      *)
KnowsMatching(c) ==
  /\ At(c, "matched") => client[c].hot
  /\ (At(c, "matched") \/ At(c, "unlinked")) /\ client[c].hot =>
       \A i \in DOMAIN links :
         /\ links[i].key < client[c].from
         /\ links[i].type = Job(c).type
         /\ TargetOf(links[i]) \in Present \cap Hot
         => links[i].id \in client[c].ids

(* Of the links that it has read, those that it deletes are gone.          *)
HasUnlinked(c) == At(c, "unlinked") =>
  \A i \in DOMAIN links : links[i].key < client[c].from =>
    IF client[c].hot
    THEN links[i].source = client[c].source => links[i].id \notin client[c].ids
    ELSE links[i].source # client[c].source /\ links[i].id \notin Job(c).ids

(* Without others, it has read all links of its source.                    *)
KnowsAll(c) == InDelete(c) /\ client[c].alone =>
  /\ client[c].from = keys
  /\ \A d \in Clients : d # c => At(d, "idle")
  /\ \A i \in DOMAIN links : links[i].source = client[c].source =>
       \E n \in DOMAIN client[c].todo :
         client[c].todo[n].type = links[i].type /\ links[i].id \in client[c].todo[n].ids

RInv ==
  /\ TypeOK /\ EverLinked
  /\ \A c \in Clients :
       Linking(c) /\ KnowsOwn(c) /\ KnowsMatching(c) /\ HasUnlinked(c) /\ KnowsAll(c)

(* What every step does to the tables.                                     *)
TablesMove ==
  /\ keys' \in Nat /\ keys <= keys'
  /\ ever \subseteq ever'
  /\ \A j \in DOMAIN links' :
       links'[j].key >= keys \/ \E i \in DOMAIN links : links'[j] = links[i]
  /\ \A t \in Targets :
       /\ target[t] # "absent" => target'[t] # "absent"
       /\ target[t] = "deleted" => target'[t] = "deleted"
       /\ target[t] # "absent" /\ target'[t] = "present" => target[t] = "present"

Bystander(d) ==
  client'[d] = client[d] \/ client'[d] = [client[d] EXCEPT !.alone = FALSE]

(* What is known of each client, and of each link.                         *)
LEMMA ClientType ==
  ASSUME TypeOK, NEW c \in Clients
  PROVE  client[c] \in
       [at : {"idle", "linking", "unlinking", "deleting", "matched", "unlinked"},
        source : Sources \cup {NONE}, target : Targets \cup {NONE}, hot : BOOLEAN,
        todo : Seq(Jobs), job : Nat, ids : SUBSET Ids, from : Nat, alone : BOOLEAN]
BY DEF TypeOK

(* A client that does nothing in a step keeps its record, but for being    *)
(* alone.                                                                  *)
LEMMA BystanderKeeps ==
  ASSUME TypeOK, NEW d \in Clients, Bystander(d)
  PROVE  /\ client'[d].at = client[d].at /\ client'[d].source = client[d].source
         /\ client'[d].target = client[d].target /\ client'[d].hot = client[d].hot
         /\ client'[d].todo = client[d].todo /\ client'[d].job = client[d].job
         /\ client'[d].ids = client[d].ids /\ client'[d].from = client[d].from
         /\ client'[d].alone => client[d].alone
<1> DEFINE r == client[d]
<1>1. r \in [at : {"idle", "linking", "unlinking", "deleting", "matched", "unlinked"},
             source : Sources \cup {NONE}, target : Targets \cup {NONE}, hot : BOOLEAN,
             todo : Seq(Jobs), job : Nat, ids : SUBSET Ids, from : Nat, alone : BOOLEAN]
  BY ClientType
<1>2. client'[d] = r \/ client'[d] = [r EXCEPT !.alone = FALSE]
  BY DEF Bystander
<1> HIDE DEF r
<1>3. CASE client'[d] = r
  BY <1>3 DEF r
<1>4. CASE client'[d] = [r EXCEPT !.alone = FALSE]
  <2>1. /\ client'[d].at = r.at /\ client'[d].source = r.source
        /\ client'[d].target = r.target /\ client'[d].hot = r.hot
        /\ client'[d].todo = r.todo /\ client'[d].job = r.job
        /\ client'[d].ids = r.ids /\ client'[d].from = r.from
        /\ client'[d].alone = FALSE
    BY <1>1, <1>4
  <2> QED BY <2>1 DEF r
<1> QED BY <1>2, <1>3, <1>4, Zenon

LEMMA LinkType ==
  ASSUME TypeOK, NEW i \in DOMAIN links
  PROVE  /\ links[i] \in Links /\ links[i].key \in Nat /\ links[i].source \in Sources
         /\ links[i].type \in Types /\ links[i].id \in Ids
         /\ TargetOf(links[i]) \in Targets
<1>1. links \in Seq(Links)
  BY DEF TypeOK
<1>2. links[i] \in Links
  BY <1>1, ElementOfSeq
<1> QED BY <1>2 DEF Links, TargetOf, Targets

(* Who does nothing in a step keeps what it knows.                         *)
LEMMA BystandersKnow ==
  ASSUME RInv, TypeOK', TablesMove, NEW d \in Clients, Bystander(d)
  PROVE  Linking(d)' /\ KnowsOwn(d)' /\ KnowsMatching(d)' /\ HasUnlinked(d)'
<1>1. /\ client'[d].at = client[d].at /\ client'[d].source = client[d].source
      /\ client'[d].target = client[d].target /\ client'[d].hot = client[d].hot
      /\ client'[d].todo = client[d].todo /\ client'[d].job = client[d].job
      /\ client'[d].ids = client[d].ids /\ client'[d].from = client[d].from
  BY BystanderKeeps DEF RInv
<1>2. TypeOK /\ EverLinked /\ Linking(d) /\ KnowsOwn(d) /\ KnowsMatching(d) /\ HasUnlinked(d)
  BY DEF RInv
<1>3. client[d].todo \in Seq(Jobs) /\ client[d].job \in Nat /\ client[d].from \in Nat /\ keys \in Nat
  BY <1>2, ClientType DEF TypeOK
<1>4. Linking(d)'
  BY <1>1, <1>2 DEF Linking, At, TablesMove
<1>5. KnowsOwn(d)'
  <2> SUFFICES ASSUME InDelete(d)' PROVE KnowsOwn(d)'
    BY DEF KnowsOwn
  <2>1. InDelete(d)
    BY <1>1 DEF InDelete, At
  <2>2. client'[d].from <= keys'
    BY <1>1, <1>2, <1>3, <2>1 DEF KnowsOwn, TablesMove
  <2>3. ASSUME NEW n \in DOMAIN client[d].todo, NEW id \in client[d].todo[n].ids
        PROVE  /\ JobTarget(d, n, id)' = JobTarget(d, n, id)
               /\ JobTarget(d, n, id) \in Targets
               /\ Spared(d, JobTarget(d, n, id))' <=> Spared(d, JobTarget(d, n, id))
    <3>1. client[d].todo[n] \in Jobs
      BY <1>3, ElementOfSeq
    <3> QED BY <1>1, <3>1 DEF JobTarget, Jobs, Targets, Spared
  <2>4. ASSUME NEW n \in DOMAIN client[d].todo, NEW id \in client[d].todo[n].ids
        PROVE  /\ <<client[d].source, JobTarget(d, n, id)>> \in ever'
               /\ n < client[d].job => \/ Spared(d, JobTarget(d, n, id))
                                       \/ target'[JobTarget(d, n, id)] = "deleted"
    BY <1>2, <2>1, <2>3, <2>4 DEF KnowsOwn, TablesMove
  <2>5. client[d].source \in Sources /\ client[d].job \in 1..Len(client[d].todo)
    BY <1>2, <2>1 DEF KnowsOwn
  <2>6. \A n \in DOMAIN client'[d].todo : \A id \in client'[d].todo[n].ids :
           /\ <<client'[d].source, JobTarget(d, n, id)'>> \in ever'
           /\ n < client'[d].job => \/ Spared(d, JobTarget(d, n, id))'
                                    \/ target'[JobTarget(d, n, id)'] = "deleted"
    BY <1>1, <2>3, <2>4
  <2> QED BY <1>1, <2>2, <2>5, <2>6 DEF KnowsOwn
<1>6. ASSUME NEW j \in DOMAIN links', links'[j].key < client[d].from, InDelete(d)
      PROVE  \E i \in DOMAIN links : links'[j] = links[i]
  <2>1. client[d].from <= keys
    BY <1>2, <1>6 DEF KnowsOwn
  <2>2. links'[j].key \in Nat
    <3>1. links' \in Seq(Links)
      BY DEF TypeOK, Links
    <3>2. links'[j] \in Links
      BY <1>6, <3>1, ElementOfSeq
    <3> QED BY <3>2 DEF Links
  <2> QED BY <1>3, <1>6, <2>1, <2>2 DEF TablesMove
<1>7. KnowsMatching(d)'
  <2>1. At(d, "matched")' => client'[d].hot
    BY <1>1, <1>2 DEF KnowsMatching, At
  <2>2. ASSUME (At(d, "matched") \/ At(d, "unlinked"))', client'[d].hot,
               NEW j \in DOMAIN links', links'[j].key < client'[d].from,
               links'[j].type = Job(d)'.type,
               TargetOf(links'[j]) \in Present' \cap Hot
        PROVE  links'[j].id \in client'[d].ids
    <3>1. (At(d, "matched") \/ At(d, "unlinked")) /\ client[d].hot /\ InDelete(d)
      BY <1>1, <2>2 DEF At, InDelete
    <3>2. PICK i \in DOMAIN links : links'[j] = links[i]
      BY <1>1, <1>6, <2>2, <3>1
    <3>3. Job(d)' = Job(d)
      BY <1>1 DEF Job
    <3>4. TargetOf(links[i]) \in Present
      <4>1. TargetOf(links[i]) \in Targets /\ links[i].source \in Sources
        BY <1>2, LinkType
      <4>2. target[TargetOf(links[i])] # "absent"
        BY <1>2, <4>1 DEF EverLinked
      <4>3. target'[TargetOf(links[i])] = "present"
        BY <2>2, <3>2 DEF Present
      <4> QED BY <4>1, <4>2, <4>3 DEF TablesMove, Present
    <3> QED BY <1>1, <1>2, <2>2, <3>1, <3>2, <3>3, <3>4 DEF KnowsMatching
  <2> QED BY <2>1, <2>2 DEF KnowsMatching, TargetOf
<1>8. HasUnlinked(d)'
  <2> SUFFICES ASSUME At(d, "unlinked")', NEW j \in DOMAIN links', links'[j].key < client'[d].from
               PROVE  IF client'[d].hot
                      THEN links'[j].source = client'[d].source => links'[j].id \notin client'[d].ids
                      ELSE links'[j].source # client'[d].source /\ links'[j].id \notin Job(d)'.ids
    BY DEF HasUnlinked
  <2>1. At(d, "unlinked") /\ InDelete(d)
    BY <1>1 DEF At, InDelete
  <2>2. PICK i \in DOMAIN links : links'[j] = links[i]
    BY <1>1, <1>6, <2>1
  <2>3. Job(d)' = Job(d)
    BY <1>1 DEF Job
  <2> QED BY <1>1, <1>2, <2>1, <2>2, <2>3 DEF HasUnlinked
<1> QED BY <1>4, <1>5, <1>7, <1>8

(*-------------------------------------------------------------------------*)
(* Tables.                                                                 *)
(*-------------------------------------------------------------------------*)

(* deduplicate() keeps every element, once.                                *)
LEMMA DeduplicateKeeps ==
  ASSUME NEW T, NEW s \in Seq(T)
  PROVE  Deduplicate(s) \in Seq(T) /\ ToSet(Deduplicate(s)) = ToSet(s)
<1> DEFINE I == {i \in DOMAIN s : \A j \in 1..(i - 1) : s[j] # s[i]}
<1>1. I \in SUBSET (1..Len(s)) /\ DOMAIN s = 1..Len(s) /\ Len(s) \in Nat
  OBVIOUS
<1>2. Deduplicate(s) \in Seq(T) /\ ToSet(Deduplicate(s)) = {s[i] : i \in I}
  <2>1. Deduplicate(s) = Filtered(s, I)
    BY DEF Deduplicate
  <2> HIDE DEF I
  <2>2. Filtered(s, I) \in Seq(T)
    BY <1>1, FilteredKeeps
  <2>3. ToSet(Filtered(s, I)) = {s[i] : i \in I}
    BY <1>1, FilteredElements
  <2> QED BY <2>1, <2>2, <2>3
<1>3. ASSUME NEW i \in 1..Len(s)
      PROVE  \E k \in I : s[k] = s[i]
  <2> DEFINE J == {j \in 1..Len(s) : s[j] = s[i]}
  <2>1. J \subseteq Nat /\ J # {}
    BY <1>1
  <2>2. PICK k \in J : \A j \in J : k <= j
    BY <2>1, LeastOf
  <2>3. k \in 1..Len(s) /\ s[k] = s[i]
    BY <2>2
  <2>4. \A j \in 1..(k - 1) : s[j] # s[k]
    BY <1>1, <2>2, <2>3
  <2> QED BY <1>1, <2>3, <2>4
<1>4. ToSet(s) = {s[i] : i \in 1..Len(s)}
  BY <1>1 DEF ToSet
<1> QED BY <1>1, <1>2, <1>3, <1>4

(* What a delete() reads: the links of its source, by type.                *)
LEMMA CategorizedKnows ==
  ASSUME TypeOK, NEW s \in Sources
  PROVE  /\ Categorized(s) \in Seq(Jobs)
         /\ \A n \in DOMAIN Categorized(s) : \A id \in Categorized(s)[n].ids :
              \E i \in DOMAIN links :
                links[i].source = s /\ links[i].type = Categorized(s)[n].type /\ links[i].id = id
         /\ \A i \in DOMAIN links : links[i].source = s =>
              \E n \in DOMAIN Categorized(s) :
                Categorized(s)[n].type = links[i].type /\ links[i].id \in Categorized(s)[n].ids
<1> DEFINE I == {i \in DOMAIN links : links[i].source = s}
<1>1. links \in Seq(Links) /\ I \in SUBSET (1..Len(links)) /\ DOMAIN links = 1..Len(links)
  BY DEF TypeOK
<1>2. PICK own : own = Filtered(links, I)
  OBVIOUS
<1>3. own \in Seq(Links) /\ ToSet(own) = {links[i] : i \in I}
  <2>1. PICK J : J = I
    OBVIOUS
  <2>2. J \in SUBSET (1..Len(links)) /\ own = Filtered(links, J)
    BY <1>1, <1>2, <2>1
  <2>3. own \in Seq(Links)
    BY <1>1, <2>2, FilteredKeeps
  <2>4. ToSet(own) = {links[i] : i \in J}
    BY <1>1, <2>2, FilteredElements
  <2> QED BY <2>1, <2>3, <2>4
<1>4. PICK values : values = Values(own, "type")
  OBVIOUS
<1>5. /\ values \in Seq(Types) /\ DOMAIN values = DOMAIN own /\ DOMAIN own = 1..Len(own)
      /\ Len(own) \in Nat
      /\ \A j \in DOMAIN own : values[j] = own[j].type /\ own[j] \in Links
  <2>1. Len(own) \in Nat /\ DOMAIN own = 1..Len(own)
    BY <1>3
  <2>2. ASSUME NEW j \in 1..Len(own)
        PROVE  own[j] \in Links /\ own[j].type \in Types
    <3>1. own[j] \in Links
      BY <1>3, ElementOfSeq
    <3> QED BY <3>1 DEF Links
  <2>3. values = [j \in 1..Len(own) |-> own[j].type]
    BY <1>4, <2>1 DEF Values
  <2>4. values \in Seq(Types)
    BY <2>1, <2>2, <2>3, IsASeq
  <2> QED BY <2>1, <2>2, <2>3, <2>4
<1>6. PICK types : types = Deduplicate(values)
  OBVIOUS
<1>7. /\ types \in Seq(Types) /\ DOMAIN types = 1..Len(types) /\ Len(types) \in Nat
      /\ ToSet(types) = ToSet(values)
  <2>1. types \in Seq(Types) /\ ToSet(types) = ToSet(values)
    BY <1>5, <1>6, DeduplicateKeeps
  <2> QED BY <2>1
<1>8. Categorized(s) = [i \in DOMAIN types |->
        [type |-> types[i], ids |-> {own[j].id : j \in {k \in DOMAIN own : own[k].type = types[i]}}]]
  BY <1>2, <1>4, <1>6 DEF Categorized
<1>9. PICK todo : todo = Categorized(s)
  OBVIOUS
<1>10. /\ DOMAIN todo = 1..Len(types)
       /\ \A n \in 1..Len(types) :
            /\ todo[n].type = types[n]
            /\ todo[n].ids = {own[j].id : j \in {k \in DOMAIN own : own[k].type = types[n]}}
            /\ todo[n] = [type |-> todo[n].type, ids |-> todo[n].ids]
  <2> DEFINE ids(n) == {own[j].id : j \in {k \in DOMAIN own : own[k].type = types[n]}}
  <2>1. todo = [n \in 1..Len(types) |-> [type |-> types[n], ids |-> ids(n)]]
    BY <1>7, <1>8, <1>9
  <2> HIDE DEF ids
  <2>2. /\ DOMAIN todo = 1..Len(types)
        /\ \A n \in 1..Len(types) : todo[n].type = types[n] /\ todo[n].ids = ids(n)
                                   /\ todo[n] = [type |-> todo[n].type, ids |-> todo[n].ids]
    BY <2>1
  <2> QED BY <2>2 DEF ids
<1>11. todo \in Seq(Jobs)
  <2>1. \A n \in 1..Len(types) : types[n] \in Types
    BY <1>7, ElementOfSeq
  <2>2. \A j \in DOMAIN own : own[j].id \in Ids
    BY <1>5 DEF Links
  <2>3. \A n \in 1..Len(types) : todo[n] \in Jobs
    BY <1>10, <2>1, <2>2 DEF Jobs
  <2>4. todo = [n \in 1..Len(types) |-> todo[n]]
    BY <1>7, <1>8, <1>9
  <2> QED BY <1>7, <2>3, <2>4, IsASeq
<1>12. ASSUME NEW n \in DOMAIN todo, NEW id \in todo[n].ids
       PROVE  \E i \in DOMAIN links :
                links[i].source = s /\ links[i].type = todo[n].type /\ links[i].id = id
  <2>1. PICK j \in DOMAIN own : own[j].type = types[n] /\ own[j].id = id
    BY <1>10, <1>12
  <2>2. own[j] \in ToSet(own)
    BY <2>1 DEF ToSet
  <2>3. PICK i \in I : own[j] = links[i]
    BY <1>3, <2>2
  <2> QED BY <1>10, <1>12, <2>1, <2>3
<1>13. ASSUME NEW i \in DOMAIN links, links[i].source = s
       PROVE  \E n \in DOMAIN todo : todo[n].type = links[i].type /\ links[i].id \in todo[n].ids
  <2>1. links[i] \in ToSet(own)
    BY <1>3, <1>13
  <2>2. PICK j \in DOMAIN own : own[j] = links[i]
    BY <2>1 DEF ToSet
  <2>3. values[j] \in ToSet(types) /\ values[j] = links[i].type
    BY <1>5, <1>7, <2>2 DEF ToSet
  <2>4. PICK n \in 1..Len(types) : types[n] = links[i].type
    BY <1>7, <2>3 DEF ToSet
  <2>5. links[i].id \in todo[n].ids /\ todo[n].type = links[i].type
    BY <1>10, <2>2, <2>4
  <2> QED BY <1>10, <2>5
<1> QED BY <1>9, <1>11, <1>12, <1>13

(* Deleting links keeps the others.                                        *)
LEMMA LinksGo ==
  ASSUME TypeOK, NEW gone, DeleteLinks(gone)
  PROVE  /\ links' \in Seq(Links) /\ keys' = keys
         /\ \A j \in DOMAIN links' :
              \E i \in DOMAIN links : links'[j] = links[i] /\ links[i] \notin gone
         /\ \A i \in DOMAIN links : links[i] \notin gone => \E j \in DOMAIN links' : links'[j] = links[i]
<1> DEFINE I == {i \in DOMAIN links : links[i] \notin gone}
<1>1. links \in Seq(Links) /\ I \in SUBSET (1..Len(links)) /\ DOMAIN links = 1..Len(links)
  BY DEF TypeOK
<1>2. links' = Filtered(links, I) /\ keys' = keys
  BY DEF DeleteLinks
<1>3. PICK left : left = Filtered(links, I)
  OBVIOUS
<1>4. left \in Seq(Links) /\ ToSet(left) = {links[i] : i \in I}
  <2> HIDE DEF I
  <2>1. I \in SUBSET (1..Len(links)) /\ links \in Seq(Links)
    BY <1>1
  <2>2. Filtered(links, I) \in Seq(Links)
    BY <2>1, FilteredKeeps
  <2>3. ToSet(Filtered(links, I)) = {links[i] : i \in I}
    BY <2>1, FilteredElements
  <2> QED BY <1>3, <2>2, <2>3
<1>5. \A j \in DOMAIN left : \E i \in DOMAIN links : left[j] = links[i] /\ links[i] \notin gone
  <2>1. \A j \in DOMAIN left : left[j] \in ToSet(left)
    BY DEF ToSet
  <2> QED BY <1>4, <2>1
<1>6. \A i \in DOMAIN links : links[i] \notin gone => \E j \in DOMAIN left : left[j] = links[i]
  <2>1. \A i \in DOMAIN links : links[i] \notin gone => links[i] \in ToSet(left)
    BY <1>4
  <2> QED BY <2>1 DEF ToSet
<1> QED BY <1>2, <1>3, <1>4, <1>5, <1>6

(*-------------------------------------------------------------------------*)
(* Steps.                                                                  *)
(*-------------------------------------------------------------------------*)

ClientRecords ==
  [at : {"idle", "linking", "unlinking", "deleting", "matched", "unlinked"},
   source : Sources \cup {NONE}, target : Targets \cup {NONE}, hot : BOOLEAN,
   todo : Seq(Jobs), job : Nat, ids : SUBSET Ids, from : Nat, alone : BOOLEAN]

LEMMA IdleType ==
  /\ Idle \in ClientRecords /\ Idle.at = "idle" /\ Idle.job = 1
  /\ Idle.from = 0 /\ Idle.todo = <<>>
BY DEF Idle, ClientRecords

(* A step of client c, from what it does to the tables and to itself.      *)
LEMMA StepKeeps ==
  ASSUME RInv, TypeOK', TablesMove, EverLinked', NEW c \in Clients,
         \A d \in Clients : d # c =>
           \/ client'[d] = client[d] /\ client[c].at # "idle"
           \/ client'[d] = [client[d] EXCEPT !.alone = FALSE],
         Linking(c)', KnowsOwn(c)', KnowsMatching(c)', HasUnlinked(c)', KnowsAll(c)'
  PROVE  RInv'
<1>1. ASSUME NEW d \in Clients, d # c
      PROVE  Linking(d)' /\ KnowsOwn(d)' /\ KnowsMatching(d)' /\ HasUnlinked(d)'
  BY <1>1, BystandersKnow DEF Bystander
<1>2. ASSUME NEW d \in Clients, d # c
      PROVE  KnowsAll(d)'
  <2>1. ASSUME (InDelete(d) /\ client[d].alone)'
        PROVE  FALSE
    <3>0. client[d] \in ClientRecords
      BY ClientType DEF RInv, ClientRecords
    <3>1. client'[d] # [client[d] EXCEPT !.alone = FALSE]
      BY <2>1, <3>0 DEF ClientRecords
    <3>2. client'[d] = client[d] /\ client[c].at # "idle"
      BY <1>2, <3>1
    <3>3. InDelete(d) /\ client[d].alone
      BY <2>1, <3>2 DEF InDelete, At
    <3> QED BY <1>2, <3>2, <3>3 DEF RInv, KnowsAll, At
  <2> QED BY <2>1 DEF KnowsAll
<1>3. \A d \in Clients :
        Linking(d)' /\ KnowsOwn(d)' /\ KnowsMatching(d)' /\ HasUnlinked(d)' /\ KnowsAll(d)'
  BY <1>1, <1>2
<1> QED BY <1>3 DEF RInv

(* Who is done has nothing to know.                                        *)
LEMMA DoneKnows ==
  ASSUME NEW c \in Clients, client'[c].at \in {"idle", "unlinking"}
  PROVE  Linking(c)' /\ KnowsOwn(c)' /\ KnowsMatching(c)' /\ HasUnlinked(c)' /\ KnowsAll(c)'
BY DEF Linking, KnowsOwn, KnowsMatching, HasUnlinked, KnowsAll, InDelete, At

(* Steps that leave the tables alone, ...                                  *)
LEMMA TablesStay ==
  ASSUME RInv, UNCHANGED <<links, keys, target, ever>>
  PROVE  TablesMove /\ EverLinked'
<1>1. keys \in Nat /\ EverLinked
  BY DEF RInv, TypeOK
<1> QED BY <1>1 DEF TablesMove, EverLinked, TargetOf

(* ... or remove links.                                                    *)
LEMMA LinksShrink ==
  ASSUME RInv, NEW gone, DeleteLinks(gone), UNCHANGED <<target, ever>>
  PROVE  /\ TablesMove /\ EverLinked' /\ links' \in Seq(Links) /\ keys' = keys
         /\ \A j \in DOMAIN links' :
              \E i \in DOMAIN links : links'[j] = links[i] /\ links[i] \notin gone
<1>1. keys \in Nat /\ EverLinked /\ TypeOK
  BY DEF RInv, TypeOK
<1>2. /\ links' \in Seq(Links) /\ keys' = keys
      /\ \A j \in DOMAIN links' :
           \E i \in DOMAIN links : links'[j] = links[i] /\ links[i] \notin gone
  BY <1>1, LinksGo
<1>3. TablesMove
  BY <1>1, <1>2 DEF TablesMove
<1>4. EverLinked'
  <2>1. \A j \in DOMAIN links' :
          links'[j].key < keys /\ <<links'[j].source, TargetOf(links'[j])>> \in ever
    BY <1>1, <1>2 DEF EverLinked
  <2> QED BY <1>1, <1>2, <2>1 DEF EverLinked, TargetOf
<1> QED BY <1>2, <1>3, <1>4

(* What changes in a client's record.                                      *)
LEMMA Moves ==
  ASSUME TypeOK, NEW c \in Clients, NEW r \in ClientRecords, client' = [client EXCEPT ![c] = r]
  PROVE  /\ client' \in [Clients -> ClientRecords] /\ client'[c] = r
         /\ \A d \in Clients : d # c => client'[d] = client[d]
<1>1. client \in [Clients -> ClientRecords]
  BY DEF TypeOK, ClientRecords
<1> QED BY <1>1

(* An operation ends.                                                      *)
LEMMA Settling ==
  ASSUME TypeOK, NEW c \in Clients, Settles(c)
  PROVE  /\ client' \in [Clients -> ClientRecords] /\ client'[c].at = "idle"
         /\ \A d \in Clients : d # c => client'[d] = client[d]
BY Moves, IdleType DEF Settles

(* A call: the client starts as told, and nobody is alone any more, but    *)
(* perhaps the client.                                                     *)
LEMMA Calling ==
  ASSUME RInv, NEW c \in Clients, NEW r \in ClientRecords, Calls(c, r)
  PROVE  /\ client' \in [Clients -> ClientRecords] /\ operations' \in Nat
         /\ client[c].at = "idle"
         /\ \A d \in Clients : d # c => client'[d] = [client[d] EXCEPT !.alone = FALSE]
         /\ client'[c].at = r.at /\ client'[c].source = r.source
         /\ client'[c].target = r.target /\ client'[c].hot = r.hot
         /\ client'[c].todo = r.todo /\ client'[c].job = r.job
         /\ client'[c].ids = r.ids /\ client'[c].from = r.from
         /\ client'[c].alone => \A d \in Clients : At(d, "idle")
         /\ client'[c].alone => \A d \in Clients : d # c => At(d, "idle")'
<1> DEFINE alone == \A d \in Clients : At(d, "idle")
<1>0. client \in [Clients -> ClientRecords] /\ operations \in Nat
  BY DEF RInv, TypeOK, ClientRecords
<1>1. /\ client' = [d \in Clients |-> IF d = c THEN [r EXCEPT !.alone = alone]
                                      ELSE [client[d] EXCEPT !.alone = FALSE]]
      /\ client[c].at = "idle" /\ operations' = operations + 1
  BY DEF Calls, At
<1>2. alone \in BOOLEAN
  OBVIOUS
<1> HIDE DEF alone
<1>3. PICK q : q = [r EXCEPT !.alone = alone]
  OBVIOUS
<1>4. /\ q \in ClientRecords /\ q.alone = alone
      /\ q.at = r.at /\ q.source = r.source /\ q.target = r.target /\ q.hot = r.hot
      /\ q.todo = r.todo /\ q.job = r.job /\ q.ids = r.ids /\ q.from = r.from
  BY <1>2, <1>3 DEF ClientRecords
<1>5. ASSUME NEW d \in Clients
      PROVE  /\ [client[d] EXCEPT !.alone = FALSE] \in ClientRecords
             /\ [client[d] EXCEPT !.alone = FALSE].at = client[d].at
  <2>1. client[d] \in ClientRecords
    BY <1>0
  <2> QED BY <2>1 DEF ClientRecords
<1>6. client'[c] = q /\ \A d \in Clients : d # c => client'[d] = [client[d] EXCEPT !.alone = FALSE]
  BY <1>1, <1>3
<1>7. client' \in [Clients -> ClientRecords]
  <2>1. client' = [d \in Clients |-> IF d = c THEN q ELSE [client[d] EXCEPT !.alone = FALSE]]
    BY <1>1, <1>3
  <2> QED BY <1>4, <1>5, <2>1
<1>8. client'[c].alone => \A d \in Clients : At(d, "idle")
  BY <1>4, <1>6 DEF alone
<1>9. client'[c].alone => \A d \in Clients : d # c => At(d, "idle")'
  <2> SUFFICES ASSUME client'[c].alone, NEW d \in Clients, d # c PROVE client'[d].at = "idle"
    BY DEF At
  <2> QED BY <1>5, <1>6, <1>8 DEF At
<1> QED BY <1>0, <1>1, <1>4, <1>6, <1>7, <1>8, <1>9

(* The steps, one by one: the calls, most of which touch no table, ...     *)
LEMMA CallKeeps ==
  ASSUME RInv, NEW c \in Clients, NEW r \in ClientRecords, Calls(c, r),
         UNCHANGED <<links, keys, target, ever>>,
         r.at = "linking" => r.source \in Sources /\ r.target \in Targets
                             /\ target[r.target] # "absent",
         r.at \in {"idle", "linking", "unlinking"}
  PROVE  RInv'
<1>1. /\ client' \in [Clients -> ClientRecords] /\ operations' \in Nat
      /\ \A d \in Clients : d # c => client'[d] = [client[d] EXCEPT !.alone = FALSE]
      /\ client'[c].at = r.at /\ client'[c].source = r.source /\ client'[c].target = r.target
  BY Calling
<1>2. TypeOK'
  BY <1>1 DEF RInv, TypeOK, ClientRecords
<1>3. TablesMove /\ EverLinked'
  BY TablesStay
<1>4. Linking(c)' /\ KnowsOwn(c)' /\ KnowsMatching(c)' /\ HasUnlinked(c)' /\ KnowsAll(c)'
  BY <1>1 DEF Linking, KnowsOwn, KnowsMatching, HasUnlinked, KnowsAll, InDelete, At
<1> QED BY <1>1, <1>2, <1>3, <1>4, StepKeeps

LEMMA CreateKeeps ==
  ASSUME RInv, NEW c \in Clients, NEW s \in Sources, NEW t \in Targets, Create(c, s, t)
  PROVE  RInv'
<1>1. PICK r : r = [Idle EXCEPT !.at = "linking", !.source = s, !.target = t]
  OBVIOUS
<1>2. r \in ClientRecords /\ r.at = "linking" /\ r.source = s /\ r.target = t
  BY <1>1, IdleType DEF ClientRecords
<1>3. Calls(c, r) /\ target[t] = "absent" /\ target' = [target EXCEPT ![t] = "present"]
      /\ UNCHANGED <<links, keys, ever>>
  BY <1>1 DEF Create
<1>4. /\ client' \in [Clients -> ClientRecords] /\ operations' \in Nat
      /\ \A d \in Clients : d # c => client'[d] = [client[d] EXCEPT !.alone = FALSE]
      /\ client'[c].at = r.at /\ client'[c].source = r.source /\ client'[c].target = r.target
  BY <1>2, <1>3, Calling
<1>5. /\ target \in [Targets -> {"absent", "present", "deleted"}] /\ keys \in Nat
      /\ EverLinked
  BY DEF RInv, TypeOK
<1>6. /\ target' \in [Targets -> {"absent", "present", "deleted"}] /\ target'[t] = "present"
      /\ \A u \in Targets : u # t => target'[u] = target[u]
  BY <1>3, <1>5
<1>7. TypeOK'
  BY <1>3, <1>4, <1>6 DEF RInv, TypeOK, ClientRecords
<1>8. TablesMove
  BY <1>3, <1>5, <1>6 DEF TablesMove
<1>9. EverLinked'
  BY <1>3, <1>5, <1>6 DEF EverLinked, TargetOf
<1>10. Linking(c)' /\ KnowsOwn(c)' /\ KnowsMatching(c)' /\ HasUnlinked(c)' /\ KnowsAll(c)'
  BY <1>2, <1>4, <1>6 DEF Linking, KnowsOwn, KnowsMatching, HasUnlinked, KnowsAll, InDelete, At
<1> QED BY <1>4, <1>7, <1>8, <1>9, <1>10, StepKeeps

LEMMA LinkKeeps ==
  ASSUME RInv, NEW c \in Clients, NEW s \in Sources, NEW t \in Targets, Link(c, s, t)
  PROVE  RInv'
<1>1. PICK r : r = [Idle EXCEPT !.at = "linking", !.source = s, !.target = t]
  OBVIOUS
<1>2. r \in ClientRecords /\ r.at = "linking" /\ r.source = s /\ r.target = t
  BY <1>1, IdleType DEF ClientRecords
<1>3. Calls(c, r) /\ target[t] # "absent" /\ UNCHANGED <<links, keys, target, ever>>
  BY <1>1 DEF Link
<1> QED BY <1>2, <1>3, CallKeeps

LEMMA UnlinkKeeps ==
  ASSUME RInv, NEW c \in Clients, NEW s \in Sources, NEW ids \in SUBSET Ids,
         Calls(c, [Idle EXCEPT !.at = "unlinking", !.source = s, !.ids = ids]),
         UNCHANGED <<links, keys, target, ever>>
  PROVE  RInv'
<1>1. PICK r : r = [Idle EXCEPT !.at = "unlinking", !.source = s, !.ids = ids]
  OBVIOUS
<1>2. r \in ClientRecords /\ r.at = "unlinking"
  BY <1>1, IdleType DEF ClientRecords
<1> QED BY <1>1, <1>2, CallKeeps

LEMMA DeleteKeeps ==
  ASSUME RInv, NEW c \in Clients, NEW s \in Sources, NEW hot \in BOOLEAN, Delete(c, s, hot)
  PROVE  RInv'
<1>1. PICK todo : todo = Categorized(s)
  OBVIOUS
<1>2. TypeOK /\ EverLinked /\ keys \in Nat
  BY DEF RInv, TypeOK
<1>3. /\ todo \in Seq(Jobs)
      /\ \A n \in DOMAIN todo : \A id \in todo[n].ids :
           \E i \in DOMAIN links :
             links[i].source = s /\ links[i].type = todo[n].type /\ links[i].id = id
      /\ \A i \in DOMAIN links : links[i].source = s =>
           \E n \in DOMAIN todo : todo[n].type = links[i].type /\ links[i].id \in todo[n].ids
  BY <1>1, <1>2, CategorizedKnows
<1>4. PICK r : r = [Idle EXCEPT !.at = IF todo = <<>> THEN "idle" ELSE "deleting",
                      !.source = s, !.hot = hot, !.todo = todo, !.from = keys]
  OBVIOUS
<1>5. /\ r \in ClientRecords /\ r.at = IF todo = <<>> THEN "idle" ELSE "deleting"
      /\ r.source = s /\ r.hot = hot /\ r.todo = todo /\ r.job = 1 /\ r.from = keys
  BY <1>2, <1>3, <1>4, IdleType DEF ClientRecords
<1>6. Calls(c, r) /\ UNCHANGED <<links, keys, target, ever>>
  BY <1>1, <1>4 DEF Delete
<1>7. CASE todo = <<>>
  BY <1>5, <1>6, <1>7, CallKeeps
<1>8. CASE todo # <<>>
  <2>1. /\ client' \in [Clients -> ClientRecords] /\ operations' \in Nat
        /\ \A d \in Clients : d # c => client'[d] = [client[d] EXCEPT !.alone = FALSE]
        /\ client'[c].at = "deleting" /\ client'[c].source = s
        /\ client'[c].todo = todo /\ client'[c].job = 1 /\ client'[c].from = keys
        /\ client'[c].alone => \A d \in Clients : d # c => At(d, "idle")'
    BY <1>5, <1>6, <1>8, Calling
  <2>2. TypeOK'
    BY <1>6, <2>1 DEF RInv, TypeOK, ClientRecords
  <2>3. TablesMove /\ EverLinked'
    BY <1>6, TablesStay
  <2>4. KnowsOwn(c)'
    <3>1. Len(todo) \in Nat \ {0} /\ DOMAIN todo = 1..Len(todo)
      BY <1>3, <1>8, EmptySeq
    <3>2. ASSUME NEW n \in DOMAIN todo, NEW id \in todo[n].ids
          PROVE  <<s, <<todo[n].type, id>> >> \in ever
      BY <1>2, <1>3, <3>2 DEF EverLinked, TargetOf
    <3>3. \A n \in DOMAIN todo : ~(n < 1)
      BY <3>1
    <3> QED BY <1>2, <1>6, <2>1, <3>1, <3>2, <3>3 DEF KnowsOwn, JobTarget
  <2>5. KnowsAll(c)'
    BY <1>3, <1>6, <2>1 DEF KnowsAll
  <2>6. Linking(c)' /\ KnowsMatching(c)' /\ HasUnlinked(c)'
    BY <2>1 DEF Linking, KnowsMatching, HasUnlinked, At
  <2> QED BY <2>1, <2>2, <2>3, <2>4, <2>5, <2>6, StepKeeps
<1> QED BY <1>7, <1>8

(* ... and the queries.                                                    *)
LEMMA LinkCreatedKeeps ==
  ASSUME RInv, NEW c \in Clients, LinkCreated(c)
  PROVE  RInv'
<1>1. PICK s, t : s = client[c].source /\ t = client[c].target
  OBVIOUS
<1>2. /\ TypeOK /\ EverLinked /\ keys \in Nat /\ links \in Seq(Links)
      /\ s \in Sources /\ t \in Targets /\ target[t] # "absent"
      /\ ever \subseteq Sources \X Targets /\ client[c].at # "idle"
  BY <1>1 DEF RInv, TypeOK, Linking, LinkCreated, At
<1>3. /\ links' = Append(links, [key |-> keys, source |-> s, type |-> t[1], id |-> t[2]])
      /\ keys' = keys + 1 /\ ever' = ever \cup {<<s, t>>} /\ Settles(c)
      /\ UNCHANGED <<target, operations>>
  BY <1>1 DEF LinkCreated, CreateLink
<1>4. /\ client' \in [Clients -> ClientRecords] /\ client'[c].at = "idle"
      /\ \A d \in Clients : d # c => client'[d] = client[d]
  BY <1>2, <1>3, Settling
<1>5. PICK l : l = [key |-> keys, source |-> s, type |-> t[1], id |-> t[2]]
  OBVIOUS
<1>6. l \in Links /\ l.key = keys /\ l.source = s /\ TargetOf(l) = t
  BY <1>2, <1>5 DEF Links, Targets, TargetOf
<1>7. /\ links' \in Seq(Links)
      /\ \A j \in DOMAIN links' : links'[j] = l \/ \E i \in DOMAIN links : links'[j] = links[i]
  BY <1>2, <1>3, <1>5, <1>6, AppendProperties
<1>8. TypeOK'
  BY <1>2, <1>3, <1>4, <1>7 DEF TypeOK, ClientRecords
<1>9. TablesMove
  BY <1>2, <1>3, <1>6, <1>7 DEF TablesMove
<1>10. EverLinked'
  <2>1. \A j \in DOMAIN links' :
          links'[j].key < keys' /\ <<links'[j].source, TargetOf(links'[j])>> \in ever'
    <3> SUFFICES ASSUME NEW j \in DOMAIN links'
                 PROVE  links'[j].key < keys' /\ <<links'[j].source, TargetOf(links'[j])>> \in ever'
      OBVIOUS
    <3>1. CASE links'[j] = l
      BY <1>2, <1>3, <1>6, <3>1
    <3>2. ASSUME NEW i \in DOMAIN links, links'[j] = links[i]
          PROVE  links'[j].key < keys' /\ <<links'[j].source, TargetOf(links'[j])>> \in ever'
      <4>1. links[i].key < keys /\ links[i].key \in Nat /\ <<links[i].source, TargetOf(links[i])>> \in ever
        BY <1>2, LinkType DEF EverLinked
      <4>2. links[i].key < keys + 1
        BY <1>2, <4>1
      <4> QED BY <1>3, <3>2, <4>1, <4>2
    <3> QED BY <1>7, <3>1, <3>2
  <2>2. \A ss \in Sources, tt \in Targets : <<ss, tt>> \in ever' => target'[tt] # "absent"
    BY <1>2, <1>3 DEF EverLinked
  <2> QED BY <2>1, <2>2 DEF EverLinked, TargetOf
<1> QED BY <1>2, <1>4, <1>8, <1>9, <1>10, DoneKnows, StepKeeps

LEMMA DeleteLinkKeeps ==
  ASSUME RInv, NEW c \in Clients, DeleteLink(c)
  PROVE  RInv'
<1>1. /\ TypeOK /\ client[c].at # "idle" /\ Settles(c)
      /\ UNCHANGED <<target, operations, ever>>
      /\ \E gone : DeleteLinks(gone)
  BY DEF RInv, DeleteLink, At
<1>2. /\ client' \in [Clients -> ClientRecords] /\ client'[c].at = "idle"
      /\ \A d \in Clients : d # c => client'[d] = client[d]
  BY <1>1, Settling
<1>3. TablesMove /\ EverLinked' /\ links' \in Seq(Links) /\ keys' = keys
  BY <1>1, LinksShrink
<1>4. TypeOK'
  BY <1>1, <1>2, <1>3 DEF TypeOK, ClientRecords
<1> QED BY <1>1, <1>2, <1>3, <1>4, DoneKnows, StepKeeps

LEMMA FailKeeps ==
  ASSUME RInv, NEW c \in Clients, Fail(c)
  PROVE  RInv'
<1>1. /\ TypeOK /\ client[c].at # "idle" /\ Settles(c)
      /\ UNCHANGED <<links, keys, target, operations, ever>>
  BY DEF RInv, Fail, At
<1>2. /\ client' \in [Clients -> ClientRecords] /\ client'[c].at = "idle"
      /\ \A d \in Clients : d # c => client'[d] = client[d]
  BY <1>1, Settling
<1>3. TablesMove /\ EverLinked'
  BY <1>1, TablesStay
<1>4. TypeOK'
  BY <1>1, <1>2 DEF TypeOK, ClientRecords
<1> QED BY <1>1, <1>2, <1>3, <1>4, DoneKnows, StepKeeps

LEMMA FindMatchingKeeps ==
  ASSUME RInv, NEW c \in Clients, FindMatching(c)
  PROVE  RInv'
<1>1. PICK ids : ids = {id \in Ids : <<Job(c).type, id>> \in Present \cap Hot}
  OBVIOUS
<1>2. PICK q : q = [client[c] EXCEPT !.at = "matched", !.ids = ids]
  OBVIOUS
<1>3. /\ TypeOK /\ EverLinked /\ KnowsOwn(c) /\ KnowsAll(c) /\ client[c] \in ClientRecords
      /\ InDelete(c) /\ client[c].at = "deleting" /\ client[c].hot
      /\ client' = [client EXCEPT ![c] = q]
      /\ UNCHANGED <<links, keys, target, operations, ever>>
  BY <1>1, <1>2, ClientType DEF RInv, FindMatching, At, InDelete, ClientRecords
<1>4. /\ q \in ClientRecords /\ q.at = "matched" /\ q.ids = ids /\ q.hot
      /\ q.source = client[c].source /\ q.todo = client[c].todo /\ q.job = client[c].job
      /\ q.from = client[c].from /\ q.alone = client[c].alone
  <2>1. ids \in SUBSET Ids
    BY <1>1
  <2> QED BY <1>2, <1>3, <2>1 DEF ClientRecords
<1>5. /\ client' \in [Clients -> ClientRecords] /\ client'[c] = q
      /\ \A d \in Clients : d # c => client'[d] = client[d]
  BY <1>3, <1>4, Moves
<1>6. TypeOK'
  BY <1>3, <1>5 DEF TypeOK, ClientRecords
<1>7. TablesMove /\ EverLinked'
  BY <1>3, TablesStay
<1>8. KnowsOwn(c)'
  BY <1>3, <1>4, <1>5 DEF KnowsOwn, InDelete, At, JobTarget, Spared
<1>9. KnowsMatching(c)'
  <2>1. \A i \in DOMAIN links : links[i].type = Job(c).type /\ TargetOf(links[i]) \in Present \cap Hot
          => links[i].id \in ids
    BY <1>1, <1>3, LinkType DEF TargetOf
  <2>2. Job(c)' = Job(c) /\ Present' = Present
    BY <1>3, <1>4, <1>5 DEF Job, Present
  <2> QED BY <1>3, <1>4, <1>5, <2>1, <2>2 DEF KnowsMatching, TargetOf, At
<1>10. KnowsAll(c)'
  BY <1>3, <1>4, <1>5 DEF KnowsAll, InDelete, At
<1>11. Linking(c)' /\ HasUnlinked(c)'
  BY <1>4, <1>5 DEF Linking, HasUnlinked, At
<1> QED BY <1>3, <1>5, <1>6, <1>7, <1>8, <1>9, <1>10, <1>11, StepKeeps

(* A delete() removes links.                                               *)
LEMMA Unlinking ==
  ASSUME RInv, NEW c \in Clients, NEW gone, DeleteLinks(gone),
         client' = [client EXCEPT ![c].at = "unlinked"],
         UNCHANGED <<target, operations, ever>>, InDelete(c),
         \A i \in DOMAIN links : links[i] \notin gone /\ links[i].key < client[c].from =>
           IF client[c].hot
           THEN links[i].source = client[c].source => links[i].id \notin client[c].ids
           ELSE links[i].source # client[c].source /\ links[i].id \notin Job(c).ids,
         client[c].hot => At(c, "matched")
  PROVE  RInv'
<1>1. PICK q : q = [client[c] EXCEPT !.at = "unlinked"]
  OBVIOUS
<1>2. /\ TypeOK /\ EverLinked /\ KnowsOwn(c) /\ KnowsAll(c) /\ KnowsMatching(c)
      /\ client[c] \in ClientRecords
      /\ client' = [client EXCEPT ![c] = q] /\ client[c].at # "idle"
  BY <1>1, ClientType DEF RInv, At, InDelete, ClientRecords
<1>3. /\ q \in ClientRecords /\ q.at = "unlinked" /\ q.ids = client[c].ids /\ q.hot = client[c].hot
      /\ q.source = client[c].source /\ q.todo = client[c].todo /\ q.job = client[c].job
      /\ q.from = client[c].from /\ q.alone = client[c].alone
  BY <1>1, <1>2 DEF ClientRecords
<1>4. /\ client' \in [Clients -> ClientRecords] /\ client'[c] = q
      /\ \A d \in Clients : d # c => client'[d] = client[d]
  BY <1>2, <1>3, Moves
<1>5. /\ TablesMove /\ EverLinked' /\ links' \in Seq(Links) /\ keys' = keys
      /\ \A j \in DOMAIN links' :
           \E i \in DOMAIN links : links'[j] = links[i] /\ links[i] \notin gone
  BY LinksShrink
<1>6. TypeOK'
  BY <1>2, <1>4, <1>5 DEF TypeOK, ClientRecords
<1>7. KnowsOwn(c)'
  BY <1>2, <1>3, <1>4, <1>5 DEF KnowsOwn, InDelete, At, JobTarget, Spared
<1>8. Job(c)' = Job(c) /\ Present' = Present
  BY <1>3, <1>4 DEF Job, Present
<1>9. KnowsMatching(c)'
  BY <1>2, <1>3, <1>4, <1>5, <1>8 DEF KnowsMatching, TargetOf, At
<1>10. HasUnlinked(c)'
  BY <1>3, <1>4, <1>5, <1>8 DEF HasUnlinked
<1>11. KnowsAll(c)'
  BY <1>2, <1>3, <1>4, <1>5 DEF KnowsAll, InDelete, At
<1>12. Linking(c)'
  BY <1>3, <1>4 DEF Linking, At
<1> QED BY <1>2, <1>4, <1>5, <1>6, <1>7, <1>9, <1>10, <1>11, <1>12, StepKeeps

LEMMA DeleteOwnLinksKeeps ==
  ASSUME RInv, NEW c \in Clients, DeleteOwnLinks(c)
  PROVE  RInv'
<1>1. PICK gone : gone = {l \in ToSet(links) : l.source = client[c].source /\ l.id \in client[c].ids}
  OBVIOUS
<1>2. /\ DeleteLinks(gone) /\ client' = [client EXCEPT ![c].at = "unlinked"]
      /\ UNCHANGED <<target, operations, ever>> /\ InDelete(c) /\ At(c, "matched")
  BY <1>1 DEF DeleteOwnLinks, InDelete
<1>3. client[c].hot
  BY <1>2 DEF RInv, KnowsMatching
<1>4. \A i \in DOMAIN links : links[i] \notin gone /\ links[i].source = client[c].source
        => links[i].id \notin client[c].ids
  BY <1>1 DEF ToSet
<1> QED BY <1>2, <1>3, <1>4, Unlinking

LEMMA DeleteAllLinksKeeps ==
  ASSUME RInv, NEW c \in Clients, DeleteAllLinks(c)
  PROVE  RInv'
<1>1. PICK gone : gone = {l \in ToSet(links) : l.source = client[c].source \/ l.id \in Job(c).ids}
  OBVIOUS
<1>2. /\ DeleteLinks(gone) /\ client' = [client EXCEPT ![c].at = "unlinked"]
      /\ UNCHANGED <<target, operations, ever>> /\ InDelete(c) /\ ~client[c].hot
  BY <1>1 DEF DeleteAllLinks, InDelete
<1>4. \A i \in DOMAIN links : links[i] \notin gone =>
        links[i].source # client[c].source /\ links[i].id \notin Job(c).ids
  BY <1>1 DEF ToSet
<1> QED BY <1>2, <1>4, Unlinking

(* A delete() deletes targets.                                             *)
LEMMA Deleting ==
  ASSUME RInv, NEW c \in Clients, DeleteTargets(c)
  PROVE  /\ client[c] \in ClientRecords /\ client[c].at = "unlinked" /\ InDelete(c)
         /\ client[c].job \in 1..Len(client[c].todo) /\ Job(c) \in Jobs
         /\ target' \in [Targets -> {"absent", "present", "deleted"}]
         /\ \A t \in Targets :
              target'[t] = IF t \in Doomed(c) THEN "deleted" ELSE target[t]
         /\ \A n \in DOMAIN client[c].todo : \A id \in client[c].todo[n].ids :
              /\ JobTarget(c, n, id) \in Targets
              /\ n <= client[c].job => \/ Spared(c, JobTarget(c, n, id))
                                       \/ target'[JobTarget(c, n, id)] = "deleted"
<1>1. /\ TypeOK /\ EverLinked /\ client[c] \in ClientRecords /\ client[c].at = "unlinked"
      /\ InDelete(c) /\ KnowsOwn(c)
      /\ client[c].job \in 1..Len(client[c].todo) /\ client[c].source \in Sources
      /\ target' = [t \in Targets |-> IF t \in Doomed(c) THEN "deleted" ELSE target[t]]
      /\ target \in [Targets -> {"absent", "present", "deleted"}]
  BY ClientType DEF RInv, TypeOK, DeleteTargets, At, InDelete, KnowsOwn, ClientRecords
<1>2. client[c].todo \in Seq(Jobs) /\ DOMAIN client[c].todo = 1..Len(client[c].todo)
      /\ Len(client[c].todo) \in Nat
  BY <1>1 DEF ClientRecords
<1>3. /\ target' \in [Targets -> {"absent", "present", "deleted"}]
      /\ \A t \in Targets : target'[t] = IF t \in Doomed(c) THEN "deleted" ELSE target[t]
  BY <1>1
<1>4. ASSUME NEW n \in DOMAIN client[c].todo, NEW id \in client[c].todo[n].ids
      PROVE  /\ JobTarget(c, n, id) \in Targets
             /\ n <= client[c].job => \/ Spared(c, JobTarget(c, n, id))
                                      \/ target'[JobTarget(c, n, id)] = "deleted"
  <2>1. client[c].todo[n] \in Jobs
    BY <1>2, <1>4, ElementOfSeq
  <2>2. PICK t : t = JobTarget(c, n, id)
    OBVIOUS
  <2>3. t \in Targets /\ t[1] = client[c].todo[n].type /\ t[2] = id
    BY <2>1, <2>2 DEF JobTarget, Jobs, Targets
  <2>4. target[t] # "absent"
    BY <1>1, <1>4, <2>2, <2>3 DEF KnowsOwn, EverLinked
  <2>5. ASSUME n = client[c].job
        PROVE  Spared(c, t) \/ target'[t] = "deleted"
    <3>1. CASE target[t] = "deleted"
      BY <1>3, <2>3, <3>1
    <3>2. CASE target[t] = "present"
      <4>1. Job(c) = client[c].todo[n]
        BY <2>5 DEF Job
      <4>2. Spared(c, t) \/ t \in Doomed(c)
        BY <1>4, <2>3, <3>2, <4>1 DEF Spared, Doomed, Present
      <4> QED BY <1>3, <2>3, <4>2
    <3> QED BY <1>1, <2>3, <2>4, <3>1, <3>2
  <2>6. ASSUME n < client[c].job
        PROVE  Spared(c, t) \/ target'[t] = "deleted"
    <3>1. Spared(c, t) \/ target[t] = "deleted"
      BY <1>1, <1>4, <2>2, <2>6 DEF KnowsOwn
    <3> QED BY <1>3, <2>3, <3>1
  <2>7. n \in Int /\ client[c].job \in Int
    BY <1>1, <1>2
  <2> QED BY <2>2, <2>3, <2>5, <2>6, <2>7
<1>5. Job(c) \in Jobs
  BY <1>1, <1>2, ElementOfSeq DEF Job
<1> QED BY <1>1, <1>3, <1>4, <1>5

LEMMA DeleteTargetsKeeps ==
  ASSUME RInv, NEW c \in Clients, DeleteTargets(c)
  PROVE  RInv'
<1>1. /\ TypeOK /\ EverLinked /\ KnowsOwn(c) /\ KnowsAll(c) /\ keys \in Nat
      /\ Continues(c) /\ UNCHANGED <<links, keys, operations, ever>>
  BY DEF RInv, TypeOK, DeleteTargets
<1>2. /\ client[c] \in ClientRecords /\ client[c].at = "unlinked" /\ InDelete(c)
      /\ client[c].job \in 1..Len(client[c].todo)
      /\ target' \in [Targets -> {"absent", "present", "deleted"}]
      /\ \A t \in Targets : target'[t] = IF t \in Doomed(c) THEN "deleted" ELSE target[t]
      /\ \A n \in DOMAIN client[c].todo : \A id \in client[c].todo[n].ids :
           n <= client[c].job => \/ Spared(c, JobTarget(c, n, id))
                                 \/ target'[JobTarget(c, n, id)] = "deleted"
  BY Deleting
<1>3. /\ client[c].todo \in Seq(Jobs) /\ DOMAIN client[c].todo = 1..Len(client[c].todo)
      /\ Len(client[c].todo) \in Nat
  BY <1>2 DEF ClientRecords
<1>4. PICK q : q = IF client[c].job = Len(client[c].todo) THEN Idle
                   ELSE [client[c] EXCEPT !.at = "deleting", !.job = client[c].job + 1, !.ids = {}]
  OBVIOUS
<1>5. q \in ClientRecords /\ client' = [client EXCEPT ![c] = q]
  <2>1. client' = [client EXCEPT ![c] = q]
    <3>1. client' = [client EXCEPT ![c] =
             IF client[c].job = Len(client[c].todo) THEN Idle
             ELSE [client[c] EXCEPT !.at = "deleting", !.job = client[c].job + 1, !.ids = {}]]
      BY <1>1, Zenon DEF Continues
    <3> QED BY <1>4, <3>1, Zenon
  <2>2. client[c].job + 1 \in Nat /\ {} \in SUBSET Ids
    BY <1>2
  <2>3. [client[c] EXCEPT !.at = "deleting", !.job = client[c].job + 1, !.ids = {}] \in ClientRecords
    BY <1>2, <2>2 DEF ClientRecords
  <2> QED BY <1>4, <2>1, <2>3, IdleType
<1>6. /\ client' \in [Clients -> ClientRecords] /\ client'[c] = q
      /\ \A d \in Clients : d # c => client'[d] = client[d]
  BY <1>1, <1>5, Moves
<1>7. TypeOK'
  BY <1>1, <1>2, <1>6 DEF TypeOK, ClientRecords
<1>8. TablesMove
  <2>1. \A t \in Targets :
          /\ target[t] # "absent" => target'[t] # "absent"
          /\ target[t] = "deleted" => target'[t] = "deleted"
          /\ target[t] # "absent" /\ target'[t] = "present" => target[t] = "present"
    BY <1>2
  <2> QED BY <1>1, <2>1 DEF TablesMove
<1>9. EverLinked'
  BY <1>1, <1>2 DEF EverLinked, TargetOf
<1>10. CASE client[c].job = Len(client[c].todo)
  <2>1. client'[c].at = "idle"
    BY <1>4, <1>6, <1>10, IdleType
  <2> QED BY <1>2, <1>6, <1>7, <1>8, <1>9, <2>1, DoneKnows, StepKeeps
<1>11. CASE client[c].job # Len(client[c].todo)
  <2>1. /\ q.at = "deleting" /\ q.hot = client[c].hot
        /\ q.source = client[c].source /\ q.todo = client[c].todo /\ q.job = client[c].job + 1
        /\ q.from = client[c].from /\ q.alone = client[c].alone
    BY <1>2, <1>4, <1>11 DEF ClientRecords
  <2>2. KnowsOwn(c)'
    <3>1. q.job \in 1..Len(q.todo)
      BY <1>2, <1>3, <1>11, <2>1
    <3>2. \A n \in DOMAIN client[c].todo : n < client[c].job + 1 => n <= client[c].job
      BY <1>2, <1>3
    <3>3. \A n \in DOMAIN client[c].todo : \A id \in client[c].todo[n].ids :
            /\ <<client[c].source, JobTarget(c, n, id)>> \in ever
            /\ n < q.job => \/ Spared(c, JobTarget(c, n, id))
                            \/ target'[JobTarget(c, n, id)] = "deleted"
      BY <1>1, <1>2, <2>1, <3>2 DEF KnowsOwn
    <3> QED BY <1>1, <1>2, <1>6, <2>1, <3>1, <3>3 DEF KnowsOwn, JobTarget, Spared
  <2>3. KnowsAll(c)'
    BY <1>1, <1>2, <1>6, <2>1 DEF KnowsAll, At
  <2>4. Linking(c)' /\ KnowsMatching(c)' /\ HasUnlinked(c)'
    BY <1>6, <2>1 DEF Linking, KnowsMatching, HasUnlinked, At
  <2> QED BY <1>2, <1>6, <1>7, <1>8, <1>9, <2>2, <2>3, <2>4, StepKeeps
<1> QED BY <1>10, <1>11

(* The invariant is inductive.                                             *)
LEMMA InitRelations == Init => RInv
<1> SUFFICES ASSUME Init PROVE RInv
  OBVIOUS
<1>1. /\ links = <<>> /\ keys = 0 /\ target = [t \in Targets |-> "absent"]
      /\ client = [c \in Clients |-> Idle] /\ operations = 0 /\ ever = {}
  BY DEF Init
<1>2. TypeOK
  BY <1>1, IdleType DEF TypeOK, ClientRecords
<1>3. EverLinked
  BY <1>1 DEF EverLinked
<1>4. \A c \in Clients : client[c].at = "idle"
  BY <1>1, IdleType
<1>5. \A c \in Clients :
        Linking(c) /\ KnowsOwn(c) /\ KnowsMatching(c) /\ HasUnlinked(c) /\ KnowsAll(c)
  BY <1>4 DEF Linking, KnowsOwn, KnowsMatching, HasUnlinked, KnowsAll, InDelete, At
<1> QED BY <1>2, <1>3, <1>5 DEF RInv

LEMMA StutterRelations ==
  ASSUME RInv, UNCHANGED vars
  PROVE  RInv'
<1>1. TypeOK' /\ EverLinked'
  BY DEF vars, RInv, TypeOK, EverLinked, TargetOf
<1>2. ASSUME NEW c \in Clients
      PROVE  Linking(c)' /\ KnowsOwn(c)' /\ KnowsMatching(c)' /\ HasUnlinked(c)' /\ KnowsAll(c)'
  <2>1. Linking(c)' /\ KnowsOwn(c)' /\ HasUnlinked(c)' /\ KnowsAll(c)'
    BY DEF vars, RInv, Linking, KnowsOwn, HasUnlinked, KnowsAll, InDelete, At,
           JobTarget, Job, Spared
  <2>2. KnowsMatching(c)'
    BY DEF vars, RInv, KnowsMatching, At, Job, Present, TargetOf
  <2> QED BY <2>1, <2>2
<1> QED BY <1>1, <1>2 DEF RInv

LEMMA NextRelations ==
  ASSUME RInv, [Next]_vars
  PROVE  RInv'
<1>1. ASSUME NEW c \in Clients, Query(c)
      PROVE  RInv'
  BY <1>1, LinkCreatedKeeps, DeleteLinkKeeps, FindMatchingKeeps, DeleteOwnLinksKeeps,
     DeleteAllLinksKeeps, DeleteTargetsKeeps, FailKeeps DEF Query
<1>2. ASSUME NEW c \in Clients, NEW s \in Sources, NEW t \in Targets, Unlink(c, s, t)
      PROVE  RInv'
  <2>1. {t[2]} \in SUBSET Ids
    BY DEF Targets
  <2> QED BY <1>2, <2>1, UnlinkKeeps DEF Unlink
<1>3. ASSUME NEW c \in Clients, NEW s \in Sources, UnlinkAll(c, s)
      PROVE  RInv'
  <2>1. Linked(s) \in SUBSET Ids
    BY LinkType DEF RInv, Linked
  <2> QED BY <1>3, <2>1, UnlinkKeeps DEF UnlinkAll
<1>4. ASSUME NEW c \in Clients, Call(c)
      PROVE  RInv'
  BY <1>2, <1>3, <1>4, CreateKeeps, LinkKeeps, DeleteKeeps DEF Call
<1>5. CASE UNCHANGED vars
  BY <1>5, StutterRelations
<1> QED BY <1>1, <1>4, <1>5 DEF Next

(* Whatever operations of a has-many-through repository run at the same    *)
(* time, each knows what it has read: what is above.                       *)
THEOREM RelationsInvariant == Spec => []RInv
BY InitRelations, NextRelations, PTL DEF Spec

(* The variables of EntityRelations keep their types.                      *)
THEOREM RelationsTypeCorrect == Spec => []TypeOK
<1>1. RInv => TypeOK
  BY DEF RInv
<1> QED BY <1>1, RelationsInvariant, PTL

(*-------------------------------------------------------------------------*)
(* What a step may delete.                                                 *)
(*-------------------------------------------------------------------------*)

(* A target that is there is deleted by a delete() only, ...               *)
LEMMA WhoDeletes ==
  ASSUME RInv, [Next]_vars, NEW t \in Targets, target'[t] # target[t], target[t] # "absent"
  PROVE  \E c \in Clients : DeleteTargets(c) /\ t \in Doomed(c) /\ target[t] = "present"
<1>1. target \in [Targets -> {"absent", "present", "deleted"}]
  BY DEF RInv, TypeOK
<1>2. ASSUME NEW c \in Clients, Query(c)
      PROVE  DeleteTargets(c)
  BY <1>2 DEF Query, LinkCreated, DeleteLink, FindMatching, DeleteOwnLinks, DeleteAllLinks, Fail
<1>3. ASSUME NEW c \in Clients, Call(c)
      PROVE  FALSE
  <2>1. PICK s \in Sources, u \in Targets : Create(c, s, u)
    BY <1>3 DEF Call, Link, Unlink, UnlinkAll, Delete
  <2>2. target[u] = "absent" /\ target' = [target EXCEPT ![u] = "present"]
    BY <2>1 DEF Create
  <2> QED BY <1>1, <2>2
<1>4. target' # target
  OBVIOUS
<1>5. PICK c \in Clients : DeleteTargets(c)
  BY <1>2, <1>3, <1>4 DEF Next, vars
<1>6. target'[t] = IF t \in Doomed(c) THEN "deleted" ELSE target[t]
  BY <1>5, Deleting
<1> QED BY <1>5, <1>6 DEF Doomed, Present

(* ... which has found it linked to its source, ...                        *)
LEMMA DeletesOwn ==
  ASSUME RInv, [Next]_vars, NEW t \in Targets, target[t] = "present", target'[t] = "deleted"
  PROVE  \E c \in Clients : At(c, "unlinked") /\ <<client[c].source, t>> \in ever
<1>1. PICK c \in Clients : DeleteTargets(c) /\ t \in Doomed(c)
  BY WhoDeletes
<1>2. /\ client[c].at = "unlinked" /\ InDelete(c) /\ client[c] \in ClientRecords
      /\ client[c].job \in 1..Len(client[c].todo)
  BY <1>1, Deleting
<1>3. client[c].job \in DOMAIN client[c].todo
  BY <1>2 DEF ClientRecords
<1>4. t[1] = Job(c).type /\ t[2] \in Job(c).ids
  BY <1>1 DEF Doomed
<1>5. <<client[c].source, JobTarget(c, client[c].job, t[2])>> \in ever
  BY <1>2, <1>3, <1>4 DEF RInv, KnowsOwn, Job
<1>6. JobTarget(c, client[c].job, t[2]) = t
  BY <1>4 DEF JobTarget, Job, Targets
<1> QED BY <1>2, <1>5, <1>6 DEF At

(* ... whose links to it are gone, up to those created meanwhile, ...      *)
LEMMA DoomedUnlinked ==
  ASSUME RInv, NEW c \in Clients, NEW i \in DOMAIN links,
         At(c, "unlinked"), TargetOf(links[i]) \in Doomed(c)
  PROVE  \/ links[i].key >= client[c].from
         \/ client[c].hot /\ links[i].source # client[c].source
<1>1. TypeOK /\ KnowsMatching(c) /\ HasUnlinked(c) /\ links[i].key \in Nat
  BY LinkType DEF RInv
<1>2. client[c].from \in Nat /\ client[c].hot \in BOOLEAN
  BY <1>1, ClientType
<1>3. /\ links[i].type = Job(c).type /\ links[i].id \in Job(c).ids
      /\ TargetOf(links[i]) \in Present
      /\ client[c].hot => TargetOf(links[i]) \in Hot
  BY DEF Doomed, TargetOf
<1>4. ASSUME links[i].key < client[c].from
      PROVE  client[c].hot /\ links[i].source # client[c].source
  BY <1>1, <1>3, <1>4 DEF KnowsMatching, HasUnlinked
<1> QED BY <1>1, <1>2, <1>4

(* ... and which, if nobody else is there, leaves nothing that it should   *)
(* delete.                                                                 *)
LEMMA DeletesAllOf ==
  ASSUME RInv, [Next]_vars, NEW c \in Clients,
         At(c, "unlinked"), client[c].alone, client'[c].at = "idle", target' # target
  PROVE  /\ \A i \in DOMAIN links :
              links[i].source = client[c].source =>
                \/ Spared(c, TargetOf(links[i]))
                \/ client[c].hot /\ target'[TargetOf(links[i])] = "deleted"
         /\ \A n \in DOMAIN client[c].todo : \A id \in client[c].todo[n].ids :
              LET t == <<client[c].todo[n].type, id>> IN
              Spared(c, t) \/ target'[t] = "deleted"
<1>1. TypeOK /\ client[c].at = "unlinked" /\ client[c] \in ClientRecords
  BY ClientType DEF RInv, At, ClientRecords
<1>2. ASSUME NEW d \in Clients, Query(d)
      PROVE  DeleteTargets(d)
  BY <1>2 DEF Query, LinkCreated, DeleteLink, FindMatching, DeleteOwnLinks, DeleteAllLinks, Fail
<1>3. ASSUME NEW d \in Clients, Call(d)
      PROVE  FALSE
  <2>1. PICK s \in Sources, u \in Targets : Create(d, s, u)
    BY <1>3 DEF Call, Link, Unlink, UnlinkAll, Delete
  <2>2. PICK r : r = [Idle EXCEPT !.at = "linking", !.source = s, !.target = u]
    OBVIOUS
  <2>3. r \in ClientRecords /\ Calls(d, r)
    BY <2>1, <2>2, IdleType DEF ClientRecords, Create
  <2>4. client[d].at = "idle" /\ \A e \in Clients : e # d => client'[e] = [client[e] EXCEPT !.alone = FALSE]
    BY <2>3, Calling
  <2>5. client'[c] = [client[c] EXCEPT !.alone = FALSE]
    BY <1>1, <2>4
  <2> QED BY <1>1, <2>5 DEF ClientRecords
<1>4. PICK d \in Clients : DeleteTargets(d)
  BY <1>2, <1>3 DEF Next, vars
<1>5. d = c
  <2>1. client \in [Clients -> ClientRecords]
    BY <1>1 DEF TypeOK, ClientRecords
  <2>2. \E q : client' = [client EXCEPT ![d] = q]
    BY <1>4 DEF DeleteTargets, Continues
  <2>3. d # c => client'[c] = client[c]
    BY <2>1, <2>2
  <2> QED BY <1>1, <2>3
<1>6. client[c].job = Len(client[c].todo)
  <2>1. SUFFICES ASSUME client[c].job # Len(client[c].todo) PROVE FALSE
    OBVIOUS
  <2>2. client \in [Clients -> ClientRecords]
    BY <1>1 DEF TypeOK, ClientRecords
  <2>3. client' = [client EXCEPT ![c] =
                    [client[c] EXCEPT !.at = "deleting", !.job = client[c].job + 1, !.ids = {}]]
    BY <1>4, <1>5, <2>1, Zenon DEF DeleteTargets, Continues
  <2>4. client'[c] = [client[c] EXCEPT !.at = "deleting", !.job = client[c].job + 1, !.ids = {}]
    BY <2>2, <2>3, Zenon
  <2>5. client'[c].at = "deleting"
    BY <1>1, <2>4 DEF ClientRecords
  <2> QED BY <2>5
<1>7. /\ InDelete(c) /\ client[c].todo \in Seq(Jobs)
      /\ \A t \in Targets : target'[t] = IF t \in Doomed(c) THEN "deleted" ELSE target[t]
      /\ \A n \in DOMAIN client[c].todo : \A id \in client[c].todo[n].ids :
           n <= client[c].job => \/ Spared(c, JobTarget(c, n, id))
                                 \/ target'[JobTarget(c, n, id)] = "deleted"
  BY <1>4, <1>5, Deleting DEF ClientRecords
<1>8. ASSUME NEW n \in DOMAIN client[c].todo, NEW id \in client[c].todo[n].ids
      PROVE  Spared(c, JobTarget(c, n, id)) \/ target'[JobTarget(c, n, id)] = "deleted"
  <2>1. n \in 1..Len(client[c].todo) /\ Len(client[c].todo) \in Nat
    BY <1>7
  <2>2. n <= client[c].job
    BY <1>6, <2>1
  <2> QED BY <1>7, <1>8, <2>2
<1>9. ASSUME NEW i \in DOMAIN links, links[i].source = client[c].source
      PROVE  \/ Spared(c, TargetOf(links[i]))
             \/ client[c].hot /\ target'[TargetOf(links[i])] = "deleted"
  <2>1. KnowsAll(c) /\ HasUnlinked(c) /\ EverLinked /\ client[c].hot \in BOOLEAN
    BY <1>1 DEF RInv, ClientRecords
  <2>2. links[i].key < client[c].from
    BY <1>7, <2>1 DEF KnowsAll, EverLinked
  <2>3. client[c].hot
    BY <1>9, <2>1, <2>2 DEF HasUnlinked
  <2>4. PICK n \in DOMAIN client[c].todo :
           client[c].todo[n].type = links[i].type /\ links[i].id \in client[c].todo[n].ids
    BY <1>7, <1>9, <2>1 DEF KnowsAll
  <2>5. JobTarget(c, n, links[i].id) = TargetOf(links[i])
    BY <2>4 DEF JobTarget, TargetOf
  <2> QED BY <1>8, <2>3, <2>4, <2>5
<1> QED BY <1>8, <1>9 DEF JobTarget

(* A link is deleted on behalf of its source, or by a delete() of its      *)
(* target.                                                                 *)
LEMMA WhoUnlinks ==
  ASSUME RInv, [Next]_vars, NEW i \in DOMAIN links,
         \A j \in DOMAIN links' : links'[j].key # links[i].key
  PROVE  \E c \in Clients :
           \/ client[c].source = links[i].source
           \/ At(c, "deleting") /\ ~client[c].hot /\ links[i].id \in Job(c).ids
<1>1. TypeOK /\ links \in Seq(Links)
  BY DEF RInv, TypeOK
<1>2. links' # links
  OBVIOUS
<1>3. ASSUME NEW gone, DeleteLinks(gone)
      PROVE  links[i] \in gone
  <2>1. links[i] \notin gone => \E j \in DOMAIN links' : links'[j] = links[i]
    BY <1>1, <1>3, LinksGo
  <2> QED BY <2>1
<1>4. ASSUME NEW c \in Clients, Query(c)
      PROVE  \/ client[c].source = links[i].source
             \/ At(c, "deleting") /\ ~client[c].hot /\ links[i].id \in Job(c).ids
  <2>1. CASE LinkCreated(c)
    <3>1. PICK l : links' = Append(links, l)
      BY <2>1 DEF LinkCreated, CreateLink
    <3>2. i \in DOMAIN links' /\ links'[i] = links[i]
      BY <1>1, <3>1
    <3> QED BY <3>2
  <2>2. CASE DeleteLink(c)
    BY <1>3, <2>2 DEF DeleteLink
  <2>3. CASE DeleteOwnLinks(c)
    BY <1>3, <2>3 DEF DeleteOwnLinks
  <2>4. CASE DeleteAllLinks(c)
    BY <1>3, <2>4 DEF DeleteAllLinks
  <2> QED BY <1>2, <1>4, <2>1, <2>2, <2>3, <2>4 DEF Query, FindMatching, DeleteTargets, Fail
<1>5. ASSUME NEW c \in Clients, Call(c)
      PROVE  links' = links
  BY <1>5 DEF Call, Create, Link, Unlink, UnlinkAll, Delete
<1> QED BY <1>2, <1>4, <1>5 DEF Next, vars

(* delete() of a has-many-through repository deletes targets that have     *)
(* been linked to its source and no others, leaves no link that it has     *)
(* read to a target that it deletes (with a condition, none of its         *)
(* source), and, when nobody comes in between, all that it is asked for:   *)
(* for any number of sources, targets and clients, and whichever queries   *)
(* fail.                                                                   *)
THEOREM RelationsDeleteRightly == Spec => DeletesRightly
<1>1. RInv /\ [Next]_vars =>
        [\A t \in Targets :
           target[t] = "present" /\ target'[t] = "deleted" =>
             \E c \in Clients : At(c, "unlinked") /\ <<client[c].source, t>> \in ever]_vars
  BY DeletesOwn
<1>2. RInv /\ [Next]_vars =>
        [\A c \in Clients, i \in DOMAIN links :
           At(c, "unlinked") /\ TargetOf(links[i]) \in Doomed(c)
           /\ target'[TargetOf(links[i])] = "deleted" =>
             \/ links[i].key >= client[c].from
             \/ client[c].hot /\ links[i].source # client[c].source]_vars
  BY DoomedUnlinked
<1>3. RInv /\ [Next]_vars =>
        [\A c \in Clients :
           At(c, "unlinked") /\ client[c].alone /\ client'[c].at = "idle" /\ target' # target =>
             /\ \A i \in DOMAIN links :
                  links[i].source = client[c].source =>
                    \/ Spared(c, TargetOf(links[i]))
                    \/ client[c].hot /\ target'[TargetOf(links[i])] = "deleted"
             /\ \A n \in DOMAIN client[c].todo : \A id \in client[c].todo[n].ids :
                  LET t == <<client[c].todo[n].type, id>> IN
                  Spared(c, t) \/ target'[t] = "deleted"]_vars
  BY DeletesAllOf
<1>4. Spec => DeletesOwnTargets
  BY <1>1, RelationsInvariant, PTL DEF Spec, DeletesOwnTargets
<1>5. Spec => DeletedIsUnlinked
  BY <1>2, RelationsInvariant, PTL DEF Spec, DeletedIsUnlinked
<1>6. Spec => DeletesAll
  BY <1>3, RelationsInvariant, PTL DEF Spec, DeletesAll
<1> QED BY <1>4, <1>5, <1>6 DEF DeletesRightly

(* unlink(), unlinkAll() and delete() of one source leave the links of     *)
(* the others alone, but for those with the id of a target that a          *)
(* delete() without a condition is about to delete.                        *)
THEOREM RelationsSpareOthers == Spec => SparesOthers
<1>1. RInv /\ [Next]_vars =>
        [\A i \in Gone : \E c \in Clients :
           \/ client[c].source = links[i].source
           \/ At(c, "deleting") /\ ~client[c].hot /\ links[i].id \in Job(c).ids]_vars
  BY WhoUnlinks DEF Gone
<1> QED BY <1>1, RelationsInvariant, PTL DEF Spec, SparesOthers

(*-------------------------------------------------------------------------*)
(* ContextView                                                             *)
(*-------------------------------------------------------------------------*)

(* What ContextView takes from ArrayMethods.                               *)
LEMMA ViewFiltered ==
  ASSUME NEW s, NEW I
  PROVE  View!Filtered(s, I) = Filtered(s, I)
BY DEF View!Filtered, Filtered, View!InOrder, InOrder, View!Cardinality, Cardinality

(* While no event is on its way, what is cached is what is bound, in the   *)
(* same order, and what a reader resolves are the values of that, if       *)
(* nobody has found the bindings anew meanwhile.  When the bindings that   *)
(* it began with are forgotten, whoever finds them next overtakes it: this *)
(* is why it need not be known what it resolves until then.                *)
ViewInv ==
  /\ bound \in Seq(Candidates) /\ pending \in Nat
  /\ view = [bindings |-> view.bindings, values |-> view.values]
  /\ reader = [r \in Readers |-> [at |-> reader[r].at, values |-> reader[r].values]]
  /\ view.bindings # NULL => view.bindings \in Seq(Candidates)
  /\ view.values # NULL => view.bindings # NULL
  /\ pending = 0 =>
       /\ view.bindings # NULL => view.bindings = bound
       /\ view.values # NULL /\ ~outdated => View!V!CachedValues(view) = View!ValuesInCache
       /\ \A r \in Readers :
            reader[r].at = "resolving" /\ r \notin overtaken /\ view.bindings # NULL
            => reader[r].values = View!ValuesOf(bound)

(* The values are a matter of what is bound.                               *)
LEMMA SameBound ==
  ASSUME bound' = bound
  PROVE  /\ View!ValuesInCache' = View!ValuesInCache
         /\ View!ValuesOf(bound)' = View!ValuesOf(bound)
<1>1. \A b : View!Value(b)' = View!Value(b)
  BY DEF View!Value, View!Disowned
<1>2. [i \in DOMAIN bound |-> View!Value(bound[i])]' = [i \in DOMAIN bound |-> View!Value(bound[i])]
  BY <1>1
<1>3. {i \in DOMAIN bound : View!Value(bound[i]) # NULL}' = {i \in DOMAIN bound : View!Value(bound[i]) # NULL}
  BY <1>1
<1>4. View!ValuesOf(bound)' = View!ValuesOf(bound)
  BY <1>2, <1>3 DEF View!ValuesOf
<1> QED BY <1>4 DEF View!ValuesInCache

(* A change of the context: an event is on its way, ...                    *)
LEMMA ViewChange ==
  ASSUME ViewInv, NEW b \in Candidates, View!Change(b)
  PROVE  ViewInv'
<1> DEFINE I == {i \in DOMAIN bound : bound[i] # b}
<1>1. /\ bound \in Seq(Candidates) /\ pending \in Nat /\ I \in SUBSET (1..Len(bound))
      /\ bound' = IF b \in View!ToSet(bound) THEN View!Filtered(bound, I) ELSE Append(bound, b)
      /\ pending' = pending + 1 /\ UNCHANGED <<view, reader>>
  BY DEF ViewInv, View!Change
<1> HIDE DEF I
<1>2. Filtered(bound, I) \in Seq(Candidates)
  BY <1>1, FilteredKeeps
<1>3. bound' \in Seq(Candidates)
  BY <1>1, <1>2, ViewFiltered, AppendProperties
<1>4. pending' \in Nat /\ pending' # 0
  BY <1>1
<1> QED BY <1>1, <1>3, <1>4 DEF ViewInv

(* ... which clears both caches when it arrives.                           *)
LEMMA ViewObserve ==
  ASSUME ViewInv, View!Observe
  PROVE  ViewInv'
<1>1. /\ pending \in Nat /\ pending > 0 /\ pending' = pending - 1
      /\ view' = [bindings |-> NULL, values |-> NULL] /\ UNCHANGED <<bound, reader>>
  BY DEF ViewInv, View!Observe, View!V!Refreshed
<1>2. view'.bindings = NULL /\ view'.values = NULL
  BY <1>1
<1>3. pending' \in Nat
  BY <1>1
<1> QED BY <1>1, <1>2, <1>3 DEF ViewInv

(* The bindings of the context are cached, if none were.                   *)
LEMMA ViewFinds ==
  ASSUME ViewInv
  PROVE  LET v == View!V!WithBindings(view, bound) IN
         /\ v = [bindings |-> v.bindings, values |-> v.values]
         /\ v.bindings \in Seq(Candidates) /\ v.values = view.values
         /\ pending = 0 => v.bindings = bound
         /\ view.bindings # NULL => v = view
         /\ v.values # NULL => v = view
<1>1. CASE view.bindings = NULL
  <2>1. View!V!WithBindings(view, bound) = [view EXCEPT !.bindings = bound]
    BY <1>1 DEF View!V!WithBindings
  <2>2. [view EXCEPT !.bindings = bound] = [bindings |-> bound, values |-> view.values]
    BY DEF ViewInv
  <2> QED BY <1>1, <2>1, <2>2 DEF ViewInv
<1>2. CASE view.bindings # NULL
  BY <1>2 DEF ViewInv, View!V!WithBindings
<1> QED BY <1>1, <1>2

(* Who finds the bindings overtakes all who are waiting for values, and    *)
(* what the others among them are waiting for is as it was.                *)
LEMMA ViewOvertakes ==
  ASSUME ViewInv, NEW r \in Readers, pending = 0, bound' = bound, overtaken' = View!Overtaken,
         reader[r].at = "resolving", r \notin overtaken'
  PROVE  view.bindings # NULL /\ reader[r].values = View!ValuesOf(bound)'
<1>1. view.bindings # NULL /\ r \notin overtaken
  BY DEF View!Overtaken, View!Resolving
<1>2. reader[r].values = View!ValuesOf(bound)
  BY <1>1 DEF ViewInv
<1> QED BY <1>1, <1>2, SameBound

(* The values of the bindings that are cached are cached.                  *)
LEMMA ViewPairs ==
  ASSUME NEW v, NEW list, v = [bindings |-> v.bindings, values |-> v.values], v.bindings # NULL,
         v.bindings \in Seq(Candidates)
  PROVE  LET w == View!V!WithValues(v, list) IN
         /\ w = [bindings |-> w.bindings, values |-> w.values]
         /\ w.bindings = v.bindings
         /\ v.bindings = bound /\ list = View!ValuesOf(bound)
              => View!V!CachedValues(w) = View!ValuesInCache
<1> DEFINE pairs == [i \in DOMAIN v.bindings |->
                       [binding |-> v.bindings[i],
                        value |-> IF i \in DOMAIN list THEN list[i] ELSE NULL]]
<1>1. PICK w : w = View!V!WithValues(v, list)
  OBVIOUS
<1>2. w = [v EXCEPT !.values = pairs]
  BY <1>1 DEF View!V!WithValues
<1>3. PICK q : q = pairs
  OBVIOUS
<1>4. w = [bindings |-> v.bindings, values |-> q]
  <2> HIDE DEF pairs
  <2> QED BY <1>2, <1>3
<1>5. w = [bindings |-> w.bindings, values |-> w.values] /\ w.bindings = v.bindings /\ w.values = q
  BY <1>4
<1>6. ASSUME v.bindings = bound, list = View!ValuesOf(bound)
      PROVE  View!V!CachedValues(w) = View!ValuesInCache
  <2>1. /\ DOMAIN q = DOMAIN bound
        /\ \A i \in DOMAIN bound : q[i].value = IF i \in DOMAIN list THEN list[i] ELSE NULL
    BY <1>3, <1>6
  <2>2. View!V!CachedValues(w) = [i \in DOMAIN q |-> q[i].value]
    BY <1>5 DEF View!V!CachedValues
  <2>3. View!ValuesInCache = [i \in DOMAIN bound |-> IF i \in DOMAIN list THEN list[i] ELSE NULL]
    BY <1>6 DEF View!ValuesInCache
  <2> QED BY <2>1, <2>2, <2>3
<1> QED BY <1>1, <1>5, <1>6

(* Who only reads the bindings caches them, if none were, ...              *)
LEMMA ViewReadBindings ==
  ASSUME ViewInv, View!ReadBindings
  PROVE  ViewInv'
<1>1. PICK v : v = View!V!WithBindings(view, bound)
  OBVIOUS
<1>2. /\ v = [bindings |-> v.bindings, values |-> v.values]
      /\ v.bindings \in Seq(Candidates) /\ v.values = view.values
      /\ pending = 0 => v.bindings = bound
      /\ v.values # NULL => v = view
  BY <1>1, ViewFinds
<1>3. view' = v /\ UNCHANGED <<bound, pending, outdated, reader>> /\ overtaken' = View!Overtaken
  BY <1>1 DEF View!ReadBindings
<1>4. ASSUME pending = 0, NEW r \in Readers, reader[r].at = "resolving", r \notin overtaken'
      PROVE  reader[r].values = View!ValuesOf(bound)'
  BY <1>3, <1>4, ViewOvertakes
<1>5. ASSUME pending = 0, v.values # NULL, ~outdated
      PROVE  View!V!CachedValues(view)' = View!ValuesInCache'
  <2>1. view' = view
    BY <1>2, <1>3, <1>5
  <2>2. View!V!CachedValues(view)' = View!V!CachedValues(view)
    BY <2>1 DEF View!V!CachedValues
  <2>3. View!V!CachedValues(view) = View!ValuesInCache
    BY <1>2, <1>5 DEF ViewInv
  <2> QED BY <1>3, <2>2, <2>3, SameBound
<1>6. v.values # NULL => v.bindings # NULL
  BY <1>2 DEF ViewInv
<1> QED BY <1>2, <1>3, <1>4, <1>5, <1>6 DEF ViewInv

(* A step of one reader leaves the others alone.                           *)
LEMMA ReaderMoves ==
  ASSUME ViewInv, NEW r \in Readers, NEW q, q = [at |-> q.at, values |-> q.values],
         reader' = [reader EXCEPT ![r] = q]
  PROVE  /\ reader' = [s \in Readers |-> [at |-> reader'[s].at, values |-> reader'[s].values]]
         /\ reader'[r] = q /\ \A s \in Readers : s # r => reader'[s] = reader[s]
<1>1. reader = [s \in Readers |-> reader[s]]
  BY Zenon DEF ViewInv
<1>2. reader' = [s \in Readers |-> IF s = r THEN q ELSE reader[s]]
  BY <1>1
<1>3. \A s \in Readers : reader[s] = [at |-> reader[s].at, values |-> reader[s].values]
  BY DEF ViewInv
<1>4. \A s \in Readers : reader'[s] = [at |-> reader'[s].at, values |-> reader'[s].values]
  BY <1>2, <1>3
<1> QED BY <1>2, <1>4

(* A reader that resolves nothing concerns nobody.                         *)
LEMMA ReaderRests ==
  ASSUME ViewInv, NEW r \in Readers, NEW q, q = [at |-> q.at, values |-> q.values],
         q.at # "resolving", reader' = [reader EXCEPT ![r] = q],
         UNCHANGED <<bound, pending, view, outdated>>,
         overtaken' = overtaken \/ overtaken' = overtaken \ {r}
  PROVE  ViewInv'
<1>1. /\ reader' = [s \in Readers |-> [at |-> reader'[s].at, values |-> reader'[s].values]]
      /\ reader'[r] = q /\ \A s \in Readers : s # r => reader'[s] = reader[s]
  BY ReaderMoves
<1>2. \A s \in Readers : reader'[s].at = "resolving" =>
        reader'[s] = reader[s] /\ (s \in overtaken' <=> s \in overtaken)
  BY <1>1
<1>3. View!V!CachedValues(view)' = View!V!CachedValues(view)
  BY DEF View!V!CachedValues
<1> QED BY <1>1, <1>2, <1>3, SameBound DEF ViewInv

LEMMA ReaderStep ==
  ASSUME ViewInv, NEW r \in Readers,
         View!Call(r) \/ View!ReturnCached(r) \/ View!Rejected(r)
  PROVE  ViewInv'
<1>1. reader[r] = [at |-> reader[r].at, values |-> reader[r].values]
  BY DEF ViewInv
<1>2. PICK q : /\ q = [at |-> q.at, values |-> q.values] /\ q.at # "resolving"
               /\ reader' = [reader EXCEPT ![r] = q]
  <2>1. PICK at \in {"idle", "tick"} : \/ reader' = [reader EXCEPT ![r].at = at]
                                       \/ reader' = [reader EXCEPT ![r] = [at |-> at, values |-> <<>>]]
    BY DEF View!Call, View!ReturnCached, View!Rejected
  <2>2. CASE reader' = [reader EXCEPT ![r].at = at]
    <3>1. PICK q : q = [reader[r] EXCEPT !.at = at]
      OBVIOUS
    <3>2. q = [at |-> at, values |-> reader[r].values]
      BY <1>1, <3>1
    <3>3. reader' = [reader EXCEPT ![r] = q]
      BY <2>2, <3>1
    <3> QED BY <3>2, <3>3
  <2>3. CASE reader' = [reader EXCEPT ![r] = [at |-> at, values |-> <<>>]]
    BY <2>3
  <2> QED BY <2>1, <2>2, <2>3
<1>3. /\ UNCHANGED <<bound, pending, view, outdated>>
      /\ overtaken' = overtaken \/ overtaken' = overtaken \ {r}
  BY DEF View!Call, View!ReturnCached, View!Rejected
<1> QED BY <1>2, <1>3, ReaderRests

(* ... and so does who resolves values: at once, when they are cached with *)
(* their bindings, ...                                                     *)
LEMMA ViewResolveNow ==
  ASSUME ViewInv, NULL \notin Seq(Candidates), NEW r \in Readers, View!ResolveNow(r)
  PROVE  ViewInv'
<1>1. PICK v : v = View!V!WithBindings(view, bound)
  OBVIOUS
<1>2. /\ v = [bindings |-> v.bindings, values |-> v.values]
      /\ v.bindings \in Seq(Candidates)
      /\ pending = 0 => v.bindings = bound
  BY <1>1, ViewFinds
<1>3. PICK list : list = View!ValuesOf(v.bindings)
  OBVIOUS
<1>4. /\ view' = View!V!WithValues(v, list) /\ UNCHANGED <<bound, pending>>
      /\ reader' = [reader EXCEPT ![r].at = "idle"] /\ overtaken' = View!Overtaken
      /\ outdated' = FALSE
  BY <1>1, <1>3 DEF View!ResolveNow
<1>5. reader[r] = [at |-> reader[r].at, values |-> reader[r].values]
  BY DEF ViewInv
<1>6. PICK q : q = [at |-> "idle", values |-> reader[r].values]
  OBVIOUS
<1>7. reader' = [reader EXCEPT ![r] = q] /\ q = [at |-> q.at, values |-> q.values] /\ q.at = "idle"
  <2>1. q = [reader[r] EXCEPT !.at = "idle"]
    BY <1>5, <1>6
  <2>2. reader' = [reader EXCEPT ![r] = q]
    BY <1>4, <2>1, Zenon
  <2> QED BY <1>6, <2>2
<1>8. /\ reader' = [s \in Readers |-> [at |-> reader'[s].at, values |-> reader'[s].values]]
      /\ \A s \in Readers : reader'[s].at = "resolving" => reader'[s] = reader[s]
  BY <1>7, ReaderMoves
<1>9. ASSUME pending = 0, NEW s \in Readers, reader'[s].at = "resolving", s \notin overtaken'
      PROVE  reader'[s].values = View!ValuesOf(bound)'
  BY <1>4, <1>8, <1>9, ViewOvertakes
<1>10. PICK w : w = View!V!WithValues(v, list)
  OBVIOUS
<1>11. v.bindings # NULL
  BY <1>2
<1>12. /\ w = [bindings |-> w.bindings, values |-> w.values]
       /\ w.bindings = v.bindings
       /\ v.bindings = bound /\ list = View!ValuesOf(bound)
            => View!V!CachedValues(w) = View!ValuesInCache
  BY <1>2, <1>10, <1>11, ViewPairs
<1>13. pending = 0 => View!V!CachedValues(w) = View!ValuesInCache
  BY <1>2, <1>3, <1>12
<1>14. View!V!CachedValues(view)' = View!V!CachedValues(w)
  BY <1>4, <1>10 DEF View!V!CachedValues
<1> QED BY <1>2, <1>4, <1>8, <1>9, <1>10, <1>11, <1>12, <1>13, <1>14, SameBound DEF ViewInv

(* ... or later: the bindings are cached when the resolution starts, ...   *)
LEMMA ViewResolveLater ==
  ASSUME ViewInv, NEW r \in Readers, View!ResolveLater(r)
  PROVE  ViewInv'
<1>1. PICK v : v = View!V!WithBindings(view, bound)
  OBVIOUS
<1>2. /\ v = [bindings |-> v.bindings, values |-> v.values]
      /\ v.bindings \in Seq(Candidates) /\ v.values = view.values
      /\ pending = 0 => v.bindings = bound
  BY <1>1, ViewFinds
<1>3. PICK list : list = View!ValuesOf(v.bindings)
  OBVIOUS
<1>4. PICK q : q = [at |-> "resolving", values |-> list]
  OBVIOUS
<1>5. /\ view' = v /\ UNCHANGED <<bound, pending>> /\ view.values = NULL
      /\ reader' = [reader EXCEPT ![r] = q] /\ overtaken' = View!Overtaken
  BY <1>1, <1>3, <1>4 DEF View!ResolveLater
<1>6. pending = 0 => list = View!ValuesOf(bound)'
  BY <1>2, <1>3, <1>5, SameBound
<1>7. q = [at |-> q.at, values |-> q.values] /\ q.values = list
  BY <1>4
<1>8. /\ reader' = [s \in Readers |-> [at |-> reader'[s].at, values |-> reader'[s].values]]
      /\ reader'[r] = q /\ \A s \in Readers : s # r => reader'[s] = reader[s]
  BY <1>5, <1>7, ReaderMoves
<1>9. ASSUME pending = 0, NEW s \in Readers, reader'[s].at = "resolving", s \notin overtaken'
      PROVE  reader'[s].values = View!ValuesOf(bound)'
  <2>1. CASE s = r
    BY <1>6, <1>7, <1>8, <1>9, <2>1
  <2>2. CASE s # r
    BY <1>5, <1>8, <1>9, <2>2, ViewOvertakes
  <2> QED BY <2>1, <2>2
<1> QED BY <1>2, <1>5, <1>8, <1>9 DEF ViewInv

(* ... the values when it ends, with the bindings that are cached by       *)
(* then.                                                                   *)
LEMMA ViewResolved ==
  ASSUME ViewInv, NEW r \in Readers, View!Resolved(r)
  PROVE  ViewInv'
<1>1. PICK list : list = reader[r].values
  OBVIOUS
<1>2. PICK q : q = [at |-> "idle", values |-> <<>>]
  OBVIOUS
<1>3. /\ view' = View!V!WithValues(view, list) /\ UNCHANGED <<bound, pending>>
      /\ reader[r].at = "resolving" /\ reader' = [reader EXCEPT ![r] = q]
      /\ q = [at |-> q.at, values |-> q.values] /\ q.at = "idle"
      /\ outdated' = (IF view.bindings = NULL THEN outdated ELSE r \in overtaken)
      /\ overtaken' = overtaken \ {r}
  BY <1>1, <1>2 DEF View!Resolved
<1>4. view = [bindings |-> view.bindings, values |-> view.values]
  BY Zenon DEF ViewInv
<1>5. CASE view.bindings = NULL
  <2>1. view' = view /\ outdated' = outdated
    BY <1>3, <1>5 DEF View!V!WithValues
  <2> QED BY <1>3, <2>1, ReaderRests
<1>6. CASE view.bindings # NULL
  <2>1. PICK w : w = View!V!WithValues(view, list)
    OBVIOUS
  <2>2. PICK v : v = view
    OBVIOUS
  <2>3. /\ v = [bindings |-> v.bindings, values |-> v.values]
        /\ v.bindings # NULL /\ v.bindings \in Seq(Candidates)
    BY <1>4, <1>6, <2>2 DEF ViewInv
  <2>4. /\ w = [bindings |-> w.bindings, values |-> w.values]
        /\ w.bindings = view.bindings
        /\ view.bindings = bound /\ list = View!ValuesOf(bound)
             => View!V!CachedValues(w) = View!ValuesInCache
    BY <2>1, <2>2, <2>3, ViewPairs
  <2>5. pending = 0 /\ ~outdated' => View!V!CachedValues(w) = View!ValuesInCache
    BY <1>1, <1>3, <1>6, <2>4 DEF ViewInv
  <2>6. View!V!CachedValues(view)' = View!V!CachedValues(w)
    BY <1>3, <2>1 DEF View!V!CachedValues
  <2>7. /\ reader' = [s \in Readers |-> [at |-> reader'[s].at, values |-> reader'[s].values]]
        /\ reader'[r] = q /\ \A s \in Readers : s # r => reader'[s] = reader[s]
    BY <1>3, ReaderMoves
  <2>8. ASSUME pending = 0, NEW s \in Readers, reader'[s].at = "resolving", s \notin overtaken'
        PROVE  reader'[s].values = View!ValuesOf(bound)'
    <3>1. s # r /\ s \notin overtaken /\ reader'[s] = reader[s]
      BY <1>3, <2>7, <2>8
    <3>2. reader[s].values = View!ValuesOf(bound)
      BY <1>6, <2>8, <3>1 DEF ViewInv
    <3> QED BY <1>3, <3>1, <3>2, SameBound
  <2> QED BY <1>3, <1>6, <2>1, <2>2, <2>3, <2>4, <2>5, <2>6, <2>7, <2>8, SameBound DEF ViewInv
<1> QED BY <1>5, <1>6

(* The invariant is preserved.                                             *)
LEMMA ViewNext ==
  ASSUME ViewInv, NULL \notin Seq(Candidates), [View!Next]_View!vars
  PROVE  ViewInv'
<1>1. CASE UNCHANGED View!vars
  <2>1. UNCHANGED <<bound, pending, view, outdated, reader, overtaken>>
    BY <1>1 DEF View!vars
  <2>2. View!V!CachedValues(view)' = View!V!CachedValues(view)
    BY <2>1 DEF View!V!CachedValues
  <2> QED BY <2>1, <2>2, SameBound DEF ViewInv
<1> QED BY <1>1, ViewChange, ViewObserve, ViewReadBindings, ReaderStep, ViewResolveNow,
           ViewResolveLater, ViewResolved DEF View!Next

(* The promise that is made of a view is that of ContextView.              *)
LEMMA SameLiveList == View!LiveList <=> LiveList
<1>1. View!ValuesOf(bound) = ValuesOf(bound)
  <2>1. \A b : View!Value(b) = Value(b)
    BY DEF View!Value, Value, View!Disowned, Disowned, View!ToSet, ToSet
  <2>2. [i \in DOMAIN bound |-> View!Value(bound[i])] = [i \in DOMAIN bound |-> Value(bound[i])]
    BY <2>1
  <2>3. {i \in DOMAIN bound : View!Value(bound[i]) # NULL} = {i \in DOMAIN bound : Value(bound[i]) # NULL}
    BY <2>1
  <2> QED BY <2>2, <2>3, ViewFiltered DEF View!ValuesOf, ValuesOf
<1>2. View!V!CachedValues(view) = V!CachedValues(view)
  BY DEF View!V!CachedValues, V!CachedValues
<1>3. View!ValuesInCache = ValuesInCache
  BY <1>1 DEF View!ValuesInCache, ValuesInCache
<1> QED BY <1>2, <1>3 DEF View!LiveList, LiveList

(* Once a ContextView has heard of every change, what it has cached is     *)
(* what is bound in its context and the values of that, for any bindings,  *)
(* values, changes and rejected resolutions, and any number of readers     *)
(* whose calls overlap in any way; except for the values that a call has   *)
(* put in the cache although another reader had found the bindings anew    *)
(* since it began.                                                         *)
THEOREM ViewIsLive ==
  ASSUME View!ViewAssumption
  PROVE  View!Spec => []LiveList
<1>1. View!Init => ViewInv
  <2> SUFFICES ASSUME View!Init PROVE ViewInv
    OBVIOUS
  <2>1. /\ bound \in Seq(Candidates) /\ pending = 0 /\ view = [bindings |-> NULL, values |-> NULL]
        /\ reader = [r \in Readers |-> [at |-> "idle", values |-> <<>>]]
    <3>1. /\ bound \in {<<>>} \cup {<<b>> : b \in Candidates} /\ pending = 0
          /\ view = [bindings |-> NULL, values |-> NULL]
          /\ reader = [r \in Readers |-> [at |-> "idle", values |-> <<>>]]
      BY Zenon DEF View!Init, View!V!Refreshed
    <3>2. bound = <<>> => bound \in Seq(Candidates)
      OBVIOUS
    <3>3. ASSUME NEW b \in Candidates, bound = <<b>>
          PROVE  bound \in Seq(Candidates)
      BY <3>3
    <3>4. bound \in Seq(Candidates)
      BY <3>1, <3>2, <3>3
    <3> QED BY <3>1, <3>4
  <2>2. view.bindings = NULL /\ view.values = NULL
    BY <2>1
  <2>3. \A r \in Readers : reader[r].at = "idle" /\ reader[r].values = <<>>
    BY <2>1
  <2>4. reader = [r \in Readers |-> [at |-> reader[r].at, values |-> reader[r].values]]
    BY <2>1, <2>3
  <2> QED BY <2>1, <2>2, <2>3, <2>4 DEF ViewInv
<1>2. ViewInv /\ [View!Next]_View!vars => ViewInv'
  BY ViewNext DEF View!ViewAssumption
<1>3. ViewInv => LiveList
  BY SameLiveList DEF ViewInv, View!LiveList
<1> QED BY <1>1, <1>2, <1>3, PTL DEF View!Spec

(*-------------------------------------------------------------------------*)
(* TagIndexer                                                              *)
(*-------------------------------------------------------------------------*)

(* The index of a context that has not been closed is that of its registry,*)
(* and its indexer hears the bindings of the registry.                     *)
IndexOfRegistry(c) ==
  /\ listening[c] = registry[c]
  /\ \A n \in TagNames :
       LET tagged == {b \in registry[c] : n \in Tags!tagNames(b)} IN
       IF bindingsIndexedByTag[c][n] = ABSENT THEN tagged = {}
       ELSE bindingsIndexedByTag[c][n] = tagged

Indices == [TagNames -> (SUBSET Bindings) \cup {ABSENT}]

TagInv ==
  /\ tagMap \in [Bindings -> [TagNames -> TagValues \cup {ABSENT}]]
  /\ registry \in [Tags!Contexts -> SUBSET Bindings]
  /\ bindingsIndexedByTag \in [Tags!Contexts -> Indices]
  /\ listening \in [Tags!Contexts -> SUBSET Bindings]
  /\ \A c \in Tags!Contexts : c \notin closed => IndexOfRegistry(c)

(* The operations of the index keep its type.                              *)
LEMMA IndexType ==
  ASSUME NEW index \in Indices, NEW gone \in SUBSET Bindings, NEW b \in Bindings, NEW names
  PROVE  /\ Tags!RemoveTagIndex(index, gone) \in Indices
         /\ Tags!UpdateTagIndexForBinding(index, b, names) \in Indices
<1>1. ASSUME NEW g \in SUBSET Bindings
      PROVE  Tags!RemoveTagIndex(index, g) \in Indices
  BY DEF Tags!RemoveTagIndex, Indices
<1>2. Tags!RemoveTagIndex(index, {b}) \in Indices
  BY <1>1
<1>3. PICK rest : rest = Tags!RemoveTagIndex(index, {b})
  OBVIOUS
<1>4. Tags!UpdateTagIndexForBinding(index, b, names) =
        [n \in TagNames |-> IF n \notin names THEN rest[n]
                            ELSE {b} \cup (IF index[n] = ABSENT THEN {} ELSE index[n])]
  BY <1>3 DEF Tags!UpdateTagIndexForBinding
<1>5. \A n \in TagNames : {b} \cup (IF index[n] = ABSENT THEN {} ELSE index[n]) \in SUBSET Bindings
  BY DEF Indices
<1>6. rest \in Indices
  BY <1>2, <1>3
<1>7. Tags!UpdateTagIndexForBinding(index, b, names) \in Indices
  BY <1>4, <1>5, <1>6 DEF Indices
<1> QED BY <1>1, <1>7

(* Under each name that it has an entry for, the index loses what is       *)
(* removed, ...                                                            *)
LEMMA IndexRemoves ==
  ASSUME Tags!TagAssumption, NEW index \in Indices, NEW gone \in SUBSET Bindings, NEW n \in TagNames
  PROVE  /\ (Tags!RemoveTagIndex(index, gone)[n] = ABSENT) <=> (index[n] = ABSENT)
         /\ index[n] # ABSENT => Tags!RemoveTagIndex(index, gone)[n] = index[n] \ gone
<1>1. index[n] # ABSENT => index[n] \ gone \in SUBSET Bindings
  BY DEF Indices
<1> QED BY <1>1 DEF Tags!RemoveTagIndex, Tags!TagAssumption

(* ... and has a binding under the names that it is indexed by, and under  *)
(* no others.                                                              *)
LEMMA IndexUpdates ==
  ASSUME Tags!TagAssumption, NEW index \in Indices, NEW b \in Bindings, NEW names,
         NEW n \in TagNames
  PROVE  LET updated == Tags!UpdateTagIndexForBinding(index, b, names)
         IN /\ (updated[n] = ABSENT) <=> (n \notin names /\ index[n] = ABSENT)
            /\ updated[n] # ABSENT =>
                 updated[n] = (IF index[n] = ABSENT THEN {} ELSE index[n] \ {b})
                              \cup (IF n \in names THEN {b} ELSE {})
<1>1. {b} \in SUBSET Bindings
  OBVIOUS
<1>2. PICK rest : rest = Tags!RemoveTagIndex(index, {b})
  OBVIOUS
<1>3. /\ (rest[n] = ABSENT) <=> (index[n] = ABSENT)
      /\ index[n] # ABSENT => rest[n] = index[n] \ {b}
  BY <1>1, <1>2, IndexRemoves
<1>4. Tags!UpdateTagIndexForBinding(index, b, names)[n] =
        IF n \notin names THEN rest[n]
        ELSE {b} \cup (IF index[n] = ABSENT THEN {} ELSE index[n])
  BY <1>2 DEF Tags!UpdateTagIndexForBinding
<1>5. {b} \cup (IF index[n] = ABSENT THEN {} ELSE index[n]) # ABSENT
  BY DEF Indices, Tags!TagAssumption
<1>6. PICK u : u = Tags!UpdateTagIndexForBinding(index, b, names)[n]
  OBVIOUS
<1>7. /\ (u = ABSENT) <=> (n \notin names /\ index[n] = ABSENT)
      /\ u # ABSENT => u = (IF index[n] = ABSENT THEN {} ELSE index[n] \ {b})
                           \cup (IF n \in names THEN {b} ELSE {})
  <2>1. CASE n \notin names
    BY <1>3, <1>4, <1>6, <2>1
  <2>2. CASE n \in names
    BY <1>3, <1>4, <1>5, <1>6, <2>2
  <2> QED BY <2>1, <2>2
<1> QED BY <1>6, <1>7

(* The parts of a context.                                                 *)
LEMMA TagsTypes ==
  ASSUME TagInv, NEW c \in Tags!Contexts
  PROVE  bindingsIndexedByTag[c] \in Indices /\ registry[c] \in SUBSET Bindings
         /\ listening[c] \in SUBSET Bindings
BY DEF TagInv

(* Contexts that nothing happens to.                                       *)
LEMMA ContextKept ==
  ASSUME NEW c, IndexOfRegistry(c), UNCHANGED tagMap, registry'[c] = registry[c],
         listening'[c] = listening[c], bindingsIndexedByTag'[c] = bindingsIndexedByTag[c]
  PROVE  IndexOfRegistry(c)'
BY DEF IndexOfRegistry, Tags!tagNames

(* The listener of a context: bindings come or go.                         *)
LEMMA TagsNotified ==
  ASSUME TagInv, NEW c \in Tags!Contexts, NEW index \in Indices, NEW removed \in SUBSET Bindings,
         NEW added \in SUBSET Bindings, Tags!Notify(c, index, removed, added),
         registry' = [registry EXCEPT ![c] = (registry[c] \ removed) \cup added],
         UNCHANGED <<tagMap, closed>>,
         c \notin closed => \A n \in TagNames :
           LET tagged == {b \in (registry[c] \ removed) \cup added : n \in Tags!tagNames(b)} IN
           IF index[n] = ABSENT THEN tagged = {} ELSE index[n] = tagged
  PROVE  TagInv'
<1>1. /\ registry \in [Tags!Contexts -> SUBSET Bindings]
      /\ bindingsIndexedByTag \in [Tags!Contexts -> Indices]
      /\ listening \in [Tags!Contexts -> SUBSET Bindings]
      /\ tagMap' \in [Bindings -> [TagNames -> TagValues \cup {ABSENT}]]
  BY DEF TagInv
<1>2. /\ registry' \in [Tags!Contexts -> SUBSET Bindings]
      /\ registry'[c] = (registry[c] \ removed) \cup added
      /\ \A d \in Tags!Contexts : d # c => registry'[d] = registry[d]
  <2>1. (registry[c] \ removed) \cup added \in SUBSET Bindings
    BY <1>1
  <2> QED BY <1>1, <2>1
<1>3. CASE c \in closed
  <2>1. UNCHANGED <<bindingsIndexedByTag, listening>>
    BY <1>3 DEF Tags!Notify
  <2>2. ASSUME NEW d \in Tags!Contexts, d \notin closed
        PROVE  IndexOfRegistry(d)'
    BY <1>2, <1>3, <2>1, <2>2, ContextKept DEF TagInv
  <2> QED BY <1>1, <1>2, <2>1, <2>2 DEF TagInv, Indices, Tags!Contexts
<1>4. CASE c \notin closed
  <2>1. /\ bindingsIndexedByTag' = [bindingsIndexedByTag EXCEPT ![c] = index]
        /\ listening' = [listening EXCEPT ![c] = (listening[c] \ removed) \cup added]
    BY <1>4 DEF Tags!Notify, Tags!Listen
  <2>2. (listening[c] \ removed) \cup added \in SUBSET Bindings
    BY <1>1
  <2>3. /\ bindingsIndexedByTag' \in [Tags!Contexts -> Indices] /\ bindingsIndexedByTag'[c] = index
        /\ \A d \in Tags!Contexts : d # c => bindingsIndexedByTag'[d] = bindingsIndexedByTag[d]
    BY <1>1, <2>1
  <2>4. /\ listening' \in [Tags!Contexts -> SUBSET Bindings]
        /\ listening'[c] = (listening[c] \ removed) \cup added
        /\ \A d \in Tags!Contexts : d # c => listening'[d] = listening[d]
    BY <1>1, <2>1, <2>2
  <2>5. IndexOfRegistry(c)'
    <3>1. listening[c] = registry[c]
      BY <1>4 DEF TagInv, IndexOfRegistry
    <3>2. \A b : Tags!tagNames(b)' = Tags!tagNames(b)
      BY DEF Tags!tagNames
    <3> QED BY <1>2, <1>4, <2>3, <2>4, <3>1, <3>2 DEF IndexOfRegistry
  <2>6. ASSUME NEW d \in Tags!Contexts, d \notin closed, d # c
        PROVE  IndexOfRegistry(d)'
    BY <1>2, <2>3, <2>4, <2>6, ContextKept DEF TagInv
  <2> QED BY <1>1, <1>2, <2>3, <2>4, <2>5, <2>6 DEF TagInv, Indices, Tags!Contexts
<1> QED BY <1>3, <1>4

(* The calls, one by one.                                                  *)
LEMMA TagsAdd ==
  ASSUME Tags!TagAssumption, TagInv, NEW c \in Tags!Contexts, NEW b \in Bindings, Tags!Add(c, b)
  PROVE  TagInv'
<1>1. PICK existing : existing = {e \in registry[c] : e.key = b.key}
  OBVIOUS
<1>2. PICK without : without = Tags!RemoveTagIndex(bindingsIndexedByTag[c], existing)
  OBVIOUS
<1>3. PICK index : index = Tags!UpdateTagIndexForBinding(without, b, Tags!tagNames(b))
  OBVIOUS
<1>4. /\ Tags!Notify(c, index, existing, {b}) /\ b \notin registry[c]
      /\ registry' = [registry EXCEPT ![c] = (registry[c] \ existing) \cup {b}]
      /\ UNCHANGED <<tagMap, closed>>
  BY <1>1, <1>2, <1>3 DEF Tags!Add
<1>5. existing \in SUBSET Bindings /\ existing \subseteq registry[c]
      /\ bindingsIndexedByTag[c] \in Indices /\ {b} \in SUBSET Bindings
  BY <1>1, TagsTypes
<1>6. without \in Indices
  BY <1>2, <1>5, IndexType
<1>7. index \in Indices
  BY <1>3, <1>6, IndexType
<1>8. ASSUME c \notin closed, NEW n \in TagNames
      PROVE  LET tagged == {x \in (registry[c] \ existing) \cup {b} : n \in Tags!tagNames(x)} IN
             IF index[n] = ABSENT THEN tagged = {} ELSE index[n] = tagged
  <2>1. LET tagged == {x \in registry[c] : n \in Tags!tagNames(x)} IN
        IF bindingsIndexedByTag[c][n] = ABSENT THEN tagged = {}
        ELSE bindingsIndexedByTag[c][n] = tagged
    BY <1>8 DEF TagInv, IndexOfRegistry
  <2>2. /\ (without[n] = ABSENT) <=> (bindingsIndexedByTag[c][n] = ABSENT)
        /\ without[n] # ABSENT => without[n] = bindingsIndexedByTag[c][n] \ existing
    BY <1>2, <1>5, IndexRemoves
  <2>3. /\ (index[n] = ABSENT) <=> (n \notin Tags!tagNames(b) /\ without[n] = ABSENT)
        /\ index[n] # ABSENT =>
             index[n] = (IF without[n] = ABSENT THEN {} ELSE without[n] \ {b})
                        \cup (IF n \in Tags!tagNames(b) THEN {b} ELSE {})
    BY <1>3, <1>6, IndexUpdates
  <2> QED BY <1>4, <2>1, <2>2, <2>3
<1> QED BY <1>4, <1>5, <1>7, <1>8, TagsNotified

LEMMA TagsUnbind ==
  ASSUME Tags!TagAssumption, TagInv, NEW c \in Tags!Contexts, NEW b \in Bindings, Tags!Unbind(c, b)
  PROVE  TagInv'
<1>1. PICK index : index = Tags!RemoveTagIndex(bindingsIndexedByTag[c], {b})
  OBVIOUS
<1>2. /\ Tags!Notify(c, index, {b}, {})
      /\ registry' = [registry EXCEPT ![c] = registry[c] \ {b}]
      /\ UNCHANGED <<tagMap, closed>>
  BY <1>1 DEF Tags!Unbind
<1>3. /\ bindingsIndexedByTag[c] \in Indices
      /\ {b} \in SUBSET Bindings /\ {} \in SUBSET Bindings
  BY TagsTypes
<1>4. index \in Indices
  BY <1>1, <1>3, IndexType
<1>5. ASSUME c \notin closed, NEW n \in TagNames
      PROVE  LET tagged == {x \in (registry[c] \ {b}) \cup {} : n \in Tags!tagNames(x)} IN
             IF index[n] = ABSENT THEN tagged = {} ELSE index[n] = tagged
  <2>1. LET tagged == {x \in registry[c] : n \in Tags!tagNames(x)} IN
        IF bindingsIndexedByTag[c][n] = ABSENT THEN tagged = {}
        ELSE bindingsIndexedByTag[c][n] = tagged
    BY <1>5 DEF TagInv, IndexOfRegistry
  <2>2. /\ (index[n] = ABSENT) <=> (bindingsIndexedByTag[c][n] = ABSENT)
        /\ index[n] # ABSENT => index[n] = bindingsIndexedByTag[c][n] \ {b}
    BY <1>1, <1>3, IndexRemoves
  <2> QED BY <2>1, <2>2
<1>6. registry' = [registry EXCEPT ![c] = (registry[c] \ {b}) \cup {}]
  <2>1. (registry[c] \ {b}) \cup {} = registry[c] \ {b}
    OBVIOUS
  <2> QED BY <1>2, <2>1
<1> QED BY <1>2, <1>3, <1>4, <1>5, <1>6, TagsNotified

LEMMA TagsTag ==
  ASSUME Tags!TagAssumption, TagInv, NEW b \in Bindings, NEW n \in TagNames, NEW v \in TagValues,
         Tags!Tag(b, n, v)
  PROVE  TagInv'
<1>1. /\ tagMap' = [tagMap EXCEPT ![b][n] = v] /\ UNCHANGED <<registry, listening, closed>>
      /\ bindingsIndexedByTag' = [c \in Tags!Contexts |->
           IF b \notin listening[c] THEN bindingsIndexedByTag[c]
           ELSE Tags!UpdateTagIndexForBinding(bindingsIndexedByTag[c], b, Tags!tagNames(b)')]
  BY DEF Tags!Tag
<1>2. /\ tagMap' \in [Bindings -> [TagNames -> TagValues \cup {ABSENT}]]
      /\ \A x \in Bindings : x # b => tagMap'[x] = tagMap[x]
  BY <1>1 DEF TagInv
<1>3. PICK names : names = Tags!tagNames(b)'
  OBVIOUS
<1>4. \A x \in Bindings : x # b => Tags!tagNames(x)' = Tags!tagNames(x)
  BY <1>2 DEF Tags!tagNames
<1>5. ASSUME NEW c \in Tags!Contexts
      PROVE  /\ bindingsIndexedByTag'[c] \in Indices
             /\ bindingsIndexedByTag'[c] =
                  IF b \notin listening[c] THEN bindingsIndexedByTag[c]
                  ELSE Tags!UpdateTagIndexForBinding(bindingsIndexedByTag[c], b, names)
  <2>1. bindingsIndexedByTag'[c] =
          IF b \notin listening[c] THEN bindingsIndexedByTag[c]
          ELSE Tags!UpdateTagIndexForBinding(bindingsIndexedByTag[c], b, names)
    BY <1>1, <1>3
  <2> QED BY <2>1, TagsTypes, IndexType
<1>6. bindingsIndexedByTag' \in [Tags!Contexts -> Indices]
  BY <1>1, <1>5
<1>7. ASSUME NEW c \in Tags!Contexts, c \notin closed
      PROVE  IndexOfRegistry(c)'
  <2>1. listening[c] = registry[c] /\ registry[c] \in SUBSET Bindings /\ bindingsIndexedByTag[c] \in Indices
    BY <1>7, TagsTypes DEF TagInv, IndexOfRegistry
  <2>2. ASSUME NEW m \in TagNames
        PROVE  LET tagged == {x \in registry[c] : m \in Tags!tagNames(x)'} IN
               IF bindingsIndexedByTag'[c][m] = ABSENT THEN tagged = {}
               ELSE bindingsIndexedByTag'[c][m] = tagged
    <3>1. LET tagged == {x \in registry[c] : m \in Tags!tagNames(x)} IN
          IF bindingsIndexedByTag[c][m] = ABSENT THEN tagged = {}
          ELSE bindingsIndexedByTag[c][m] = tagged
      BY <1>7 DEF TagInv, IndexOfRegistry
    <3>2. CASE b \notin registry[c]
      <4>1. {x \in registry[c] : m \in Tags!tagNames(x)'} = {x \in registry[c] : m \in Tags!tagNames(x)}
        BY <1>4, <2>1, <3>2
      <4> QED BY <1>5, <2>1, <3>1, <3>2, <4>1
    <3>3. CASE b \in registry[c]
      <4>1. PICK u : u = bindingsIndexedByTag'[c]
        OBVIOUS
      <4>2. u = Tags!UpdateTagIndexForBinding(bindingsIndexedByTag[c], b, names)
        BY <1>5, <2>1, <3>3, <4>1
      <4>3. /\ (u[m] = ABSENT) <=> (m \notin names /\ bindingsIndexedByTag[c][m] = ABSENT)
            /\ u[m] # ABSENT =>
                 u[m] = (IF bindingsIndexedByTag[c][m] = ABSENT THEN {}
                         ELSE bindingsIndexedByTag[c][m] \ {b})
                        \cup (IF m \in names THEN {b} ELSE {})
        BY <2>1, <4>2, IndexUpdates
      <4>4. {x \in registry[c] : m \in Tags!tagNames(x)'} =
              ({x \in registry[c] : m \in Tags!tagNames(x)} \ {b})
              \cup (IF m \in names THEN {b} ELSE {})
        BY <1>3, <1>4, <2>1, <3>3
      <4> QED BY <3>1, <4>1, <4>3, <4>4
    <3> QED BY <3>2, <3>3
  <2> QED BY <1>1, <2>1, <2>2 DEF IndexOfRegistry
<1> QED BY <1>1, <1>2, <1>6, <1>7 DEF TagInv

(* The invariant is inductive.                                             *)
LEMMA TagsNext ==
  ASSUME Tags!TagAssumption, TagInv, [Tags!Next]_Tags!vars
  PROVE  TagInv'
<1>1. ASSUME NEW c \in Tags!Contexts, Tags!Close(c)
      PROVE  TagInv'
  <2>1. closed' = closed \cup {c} /\ UNCHANGED <<tagMap, registry, bindingsIndexedByTag, listening>>
    BY <1>1 DEF Tags!Close
  <2>2. ASSUME NEW d \in Tags!Contexts, d \notin closed'
        PROVE  IndexOfRegistry(d)'
    BY <2>1, <2>2, ContextKept DEF TagInv
  <2> QED BY <2>1, <2>2 DEF TagInv, Indices, Tags!Contexts
<1>2. CASE UNCHANGED Tags!vars
  <2>1. UNCHANGED <<tagMap, registry, bindingsIndexedByTag, listening, closed>>
    BY <1>2 DEF Tags!vars
  <2>2. ASSUME NEW d \in Tags!Contexts, d \notin closed'
        PROVE  IndexOfRegistry(d)'
    BY <2>1, <2>2, ContextKept DEF TagInv
  <2> QED BY <2>1, <2>2 DEF TagInv, Indices, Tags!Contexts
<1> QED BY <1>1, <1>2, TagsAdd, TagsUnbind, TagsTag DEF Tags!Next

LEMMA InitTags ==
  ASSUME Tags!Init
  PROVE  TagInv
<1>1. /\ tagMap = [b \in Bindings |-> [n \in TagNames |-> ABSENT]]
      /\ registry = [c \in Tags!Contexts |-> {}]
      /\ bindingsIndexedByTag = [c \in Tags!Contexts |-> [n \in TagNames |-> ABSENT]]
      /\ listening = [c \in Tags!Contexts |-> {}]
  BY DEF Tags!Init
<1>2. \A c \in Tags!Contexts : IndexOfRegistry(c)
  BY <1>1 DEF IndexOfRegistry
<1> QED BY <1>1, <1>2 DEF TagInv, Indices

(* SetToSeq lists a finite set.                                            *)
LEMMA Listed ==
  ASSUME NEW S, IsFiniteSet(S)
  PROVE  /\ Cardinality(S) \in Nat /\ DOMAIN Tags!SetToSeq(S) = 1..Cardinality(S)
         /\ \A i \in 1..Cardinality(S) : Tags!SetToSeq(S)[i] \in S
         /\ \A x \in S : \E i \in 1..Cardinality(S) : Tags!SetToSeq(S)[i] = x
<1> DEFINE n == Cardinality(S)
<1>1. n \in Nat /\ ExistsBijection(1..n, S)
  BY FS_CardinalityType
<1>2. PICK g : g \in Bijection(1..n, S)
  BY <1>1 DEF ExistsBijection
<1>3. g \in [1..n -> S] /\ IsInjective(g)
  BY <1>2 DEF Bijection, Injection
<1>4. Tags!Cardinality(S) = n
  BY DEF Tags!Cardinality, Cardinality
<1>5. \A f : Tags!IsInjective(f) <=> IsInjective(f)
  BY DEF Tags!IsInjective, IsInjective
<1>6. PICK f : f = Tags!SetToSeq(S)
  OBVIOUS
<1>7. f = CHOOSE h \in [1..n -> S] : Tags!IsInjective(h)
  BY <1>4, <1>6 DEF Tags!SetToSeq
<1> HIDE DEF n
<1>8. f \in [1..n -> S] /\ IsInjective(f)
  BY <1>3, <1>5, <1>7
<1>9. f \in Surjection(1..n, S)
  <2>1. f \in Injection(1..n, S)
    BY <1>8 DEF Injection
  <2>2. IsFiniteSet(1..n) /\ Cardinality(1..n) = n
    BY <1>1, FS_Interval
  <2> QED BY <2>1, <2>2, FS_Injection DEF n
<1> QED BY <1>1, <1>6, <1>8, <1>9 DEF Surjection, n

(* What a filter asks for: a pattern, or names that what passes has all.    *)
LEMMA FilterNames ==
  ASSUME Tags!TagAssumption, NEW filter \in Tags!TagFilters, "pattern" \notin DOMAIN filter
  PROVE  LET names == IF "name" \in DOMAIN filter THEN {filter.name} ELSE DOMAIN filter.tags IN
         /\ names \in SUBSET TagNames /\ names # {} /\ IsFiniteSet(names)
         /\ \A b \in Bindings, n \in names : Tags!Passes(filter, b) => n \in Tags!tagNames(b)
<1>1. PICK names : names = IF "name" \in DOMAIN filter THEN {filter.name} ELSE DOMAIN filter.tags
  OBVIOUS
<1>2. CASE filter \in [name : TagNames]
  <2>1. DOMAIN filter = {"name"} /\ filter.name \in TagNames
    BY <1>2
  <2>2. \A b : Tags!Passes(filter, b) <=> filter.name \in Tags!tagNames(b)
    BY <2>1 DEF Tags!Passes
  <2>3. names = {filter.name} /\ IsFiniteSet(names)
    BY <1>1, <2>1, FS_Singleton
  <2> QED BY <1>1, <2>1, <2>2, <2>3
<1>3. ASSUME NEW N \in SUBSET TagNames, N # {}, filter \in [tags : [N -> TagValues]]
      PROVE  /\ names \in SUBSET TagNames /\ names # {} /\ IsFiniteSet(names)
             /\ \A b \in Bindings, n \in names : Tags!Passes(filter, b) => n \in Tags!tagNames(b)
  <2>1. DOMAIN filter = {"tags"} /\ filter.tags \in [N -> TagValues]
    BY <1>3
  <2>2. names = N
    BY <1>1, <2>1
  <2>3. IsFiniteSet(N)
    <3>1. IsFiniteSet(TagNames)
      BY DEF Tags!TagAssumption, Tags!IsFiniteSet, IsFiniteSet
    <3> QED BY <3>1, FS_Subset
  <2>4. \A b : Tags!Passes(filter, b) <=> \A n \in N : tagMap[b][n] = filter.tags[n]
    BY <2>1 DEF Tags!Passes
  <2>5. \A n \in N : filter.tags[n] # ABSENT
    BY <2>1 DEF Tags!TagAssumption
  <2> QED BY <1>3, <2>2, <2>3, <2>4, <2>5 DEF Tags!tagNames
<1>4. filter \notin [pattern : SUBSET TagNames]
  OBVIOUS
<1>5. \/ filter \in [name : TagNames]
      \/ \E N \in SUBSET TagNames : N # {} /\ filter \in [tags : [N -> TagValues]]
  <2>1. filter \in UNION {[tags : [N -> TagValues]] : N \in (SUBSET TagNames) \ {{}}} =>
          \E N \in SUBSET TagNames : N # {} /\ filter \in [tags : [N -> TagValues]]
    OBVIOUS
  <2> QED BY <1>4, <2>1, Zenon DEF Tags!TagFilters
<1> QED BY <1>1, <1>2, <1>3, <1>5

(* What the search visits for a pattern.                                   *)
LEMMA FilterPattern ==
  ASSUME NEW filter \in Tags!TagFilters, "pattern" \in DOMAIN filter
  PROVE  /\ filter.pattern \in SUBSET TagNames
         /\ \A b : Tags!Passes(filter, b) <=> Tags!tagNames(b) \cap filter.pattern # {}
<1>1. filter \in [pattern : SUBSET TagNames]
  BY DEF Tags!TagFilters
<1>2. "name" \notin DOMAIN filter
  BY <1>1
<1> QED BY <1>1, <1>2 DEF Tags!Passes

(* A search in the index of a registry finds what a search in the          *)
(* registry does.                                                          *)
LEMMA IndexFinds ==
  ASSUME Tags!TagAssumption, TagInv, NEW c \in Tags!Contexts, c \notin closed, NEW filter \in Tags!TagFilters
  PROVE  Tags!FindByTagIndex(c, filter) = {b \in registry[c] : Tags!Passes(filter, b)}
<1> DEFINE Matched(n) == {b \in bindingsIndexedByTag[c][n] : Tags!Passes(filter, b)}
           Found(n) == bindingsIndexedByTag[c][n] # ABSENT
           Right == {b \in registry[c] : Tags!Passes(filter, b)}
<1>1. registry[c] \in SUBSET Bindings
  BY TagsTypes
<1>2. ASSUME NEW n \in TagNames
      PROVE  IF Found(n) THEN Matched(n) = {b \in Right : n \in Tags!tagNames(b)}
             ELSE \A b \in Right : n \notin Tags!tagNames(b)
  BY DEF TagInv, IndexOfRegistry
<1>3. CASE "pattern" \in DOMAIN filter
  <2>1. /\ filter.pattern \in SUBSET TagNames
        /\ \A b : Tags!Passes(filter, b) <=> Tags!tagNames(b) \cap filter.pattern # {}
    BY <1>3, FilterPattern
  <2>2. Tags!FindByTagIndex(c, filter) = UNION {Matched(n) : n \in {m \in filter.pattern : Found(m)}}
    BY <1>3 DEF Tags!FindByTagIndex
  <2>3. \A b \in Right : \E n \in filter.pattern : n \in Tags!tagNames(b)
    BY <2>1
  <2> HIDE DEF Matched, Found, Right
  <2>4. \A b : b \in Right <=> \E n \in filter.pattern : Found(n) /\ b \in Matched(n)
    BY <1>2, <2>1, <2>3
  <2> QED BY <2>2, <2>4 DEF Right
<1>4. CASE "pattern" \notin DOMAIN filter
  <2>1. PICK N : N = IF "name" \in DOMAIN filter THEN {filter.name} ELSE DOMAIN filter.tags
    OBVIOUS
  <2>2. /\ N \in SUBSET TagNames /\ N # {} /\ IsFiniteSet(N)
        /\ \A b \in Bindings, n \in N : Tags!Passes(filter, b) => n \in Tags!tagNames(b)
    BY <1>4, <2>1, FilterNames
  <2>3. PICK names, k : names = Tags!SetToSeq(N) /\ k = Cardinality(N)
    OBVIOUS
  <2>4. /\ k \in Nat /\ DOMAIN names = 1..k /\ \A i \in 1..k : names[i] \in N
        /\ \A x \in N : \E i \in 1..k : names[i] = x
    BY <2>2, <2>3, Listed
  <2> DEFINE visited == {i \in DOMAIN names :
                           \A j \in 1..i : Found(names[j]) /\ Matched(names[j]) # {}}
  <2>5. Tags!FindByTagIndex(c, filter) =
          {b \in Bindings : visited # {} /\ \A i \in visited : b \in Matched(names[i])}
    BY <1>4, <2>1, <2>3 DEF Tags!FindByTagIndex
  <2>6. \A b \in Right, n \in N : n \in Tags!tagNames(b)
    BY <1>1, <2>2
  <2>7. Right \subseteq Bindings
    BY <1>1
  <2> HIDE DEF Matched, Found, Right
  <2>8. \A n \in N : IF Found(n) THEN Matched(n) = Right ELSE Right = {}
    BY <1>2, <2>2, <2>6
  <2>9. 1 \in 1..k
    BY <2>2, <2>4
  <2>10. CASE Right = {}
    <3>1. ~(Found(names[1]) /\ Matched(names[1]) # {})
      BY <2>4, <2>8, <2>9, <2>10
    <3>2. \A i \in 1..k : 1 \in 1..i
      BY <2>4
    <3>3. visited = {}
      BY <2>4, <3>1, <3>2
    <3> QED BY <2>5, <2>10, <3>3 DEF Right
  <2>11. CASE Right # {}
    <3>1. \A n \in N : Found(n) /\ Matched(n) = Right
      BY <2>8, <2>11
    <3>2. \A i \in 1..k : \A j \in 1..i : j \in 1..k
      BY <2>4
    <3>3. visited = 1..k
      BY <2>4, <2>11, <3>1, <3>2
    <3>4. \A b \in Bindings : (visited # {} /\ \A i \in visited : b \in Matched(names[i])) <=> b \in Right
      <4>1. visited # {} /\ 1 \in visited
        BY <2>9, <3>3
      <4>2. \A i \in visited : Matched(names[i]) = Right
        BY <2>4, <3>1, <3>3
      <4> HIDE DEF visited
      <4> QED BY <4>1, <4>2
    <3> QED BY <2>5, <2>7, <3>4 DEF Right
  <2> QED BY <2>10, <2>11
<1> QED BY <1>3, <1>4

(* What the promise is made of is what TagIndexer is.                      *)
LEMMA SameSearch ==
  ASSUME NEW c, NEW filter
  PROVE  /\ Tags!FindByTag(c, filter) = FindByTag(c, filter)
         /\ Tags!FindBindings(c, filter) = FindBindings(c, filter)
<1>1. \A f, b : Tags!Passes(f, b) <=> Passes(f, b)
  BY DEF Tags!Passes, Passes, Tags!tagNames, tagNames
<1>2. \A children, parents : Tags!MergeWithParent(children, parents) = MergeWithParent(children, parents)
  BY DEF Tags!MergeWithParent, MergeWithParent
<1>3. \A S : Tags!SetToSeq(S) = SetToSeq(S)
  <2>1. \A S : Tags!Cardinality(S) = Cardinality(S)
    BY DEF Tags!Cardinality, Cardinality
  <2>2. \A f : Tags!IsInjective(f) <=> IsInjective(f)
    BY DEF Tags!IsInjective, IsInjective
  <2> QED BY <2>1, <2>2 DEF Tags!SetToSeq, SetToSeq
<1>4. ASSUME NEW d
      PROVE  Tags!FindByTagIndex(d, filter) = FindByTagIndex(d, filter)
  <2> DEFINE Found(n) == bindingsIndexedByTag[d][n] # ABSENT
             Matched(n) == {b \in bindingsIndexedByTag[d][n] : Passes(filter, b)}
             Matching(n) == {b \in bindingsIndexedByTag[d][n] : Tags!Passes(filter, b)}
  <2>1. \A n : Matching(n) = Matched(n)
    BY <1>1
  <2>2. CASE "pattern" \in DOMAIN filter
    <3>1. /\ Tags!FindByTagIndex(d, filter)
               = UNION {Matching(n) : n \in {m \in filter.pattern : Found(m)}}
          /\ FindByTagIndex(d, filter)
               = UNION {Matched(n) : n \in {m \in filter.pattern : Found(m)}}
      BY <2>2 DEF Tags!FindByTagIndex, FindByTagIndex
    <3> QED BY <2>1, <3>1
  <2>3. CASE "pattern" \notin DOMAIN filter
    <3>1. PICK names : names = SetToSeq(IF "name" \in DOMAIN filter THEN {filter.name}
                                        ELSE DOMAIN filter.tags)
      OBVIOUS
    <3>2. names = Tags!SetToSeq(IF "name" \in DOMAIN filter THEN {filter.name}
                                ELSE DOMAIN filter.tags)
      BY <1>3, <3>1
    <3> DEFINE visited == {i \in DOMAIN names :
                             \A j \in 1..i : Found(names[j]) /\ Matched(names[j]) # {}}
               visiting == {i \in DOMAIN names :
                              \A j \in 1..i : Found(names[j]) /\ Matching(names[j]) # {}}
    <3>3. Tags!FindByTagIndex(d, filter) =
            {b \in Bindings : visiting # {} /\ \A i \in visiting : b \in Matching(names[i])}
      BY <2>3, <3>2 DEF Tags!FindByTagIndex
    <3>4. FindByTagIndex(d, filter) =
            {b \in Bindings : visited # {} /\ \A i \in visited : b \in Matched(names[i])}
      BY <2>3, <3>1 DEF FindByTagIndex
    <3> HIDE DEF Found, Matched, Matching
    <3>5. visiting = visited
      BY <2>1
    <3> HIDE DEF visited, visiting
    <3> QED BY <2>1, <3>3, <3>4, <3>5
  <2> QED BY <2>2, <2>3
<1>5. Tags!FindByTag(c, filter) = FindByTag(c, filter)
  BY <1>2, <1>4 DEF Tags!FindByTag, FindByTag
<1>6. Tags!FindBindings(c, filter) = FindBindings(c, filter)
  BY <1>1, <1>2 DEF Tags!FindBindings, FindBindings
<1> QED BY <1>5, <1>6

(* Until a context or its parent is closed, findByTag() returns what a     *)
(* search through the registries with the same filter returns, for any     *)
(* bindings, names and values of tags, and any sequence of calls that      *)
(* add, replace, remove and tag bindings in both contexts.                 *)
THEOREM IndexAlwaysTrue ==
  ASSUME Tags!TagAssumption
  PROVE  Tags!Spec => []IndexIsTrue
<1>1. Tags!Init => TagInv
  BY InitTags
<1>2. TagInv /\ [Tags!Next]_Tags!vars => TagInv'
  BY TagsNext
<1>3. TagInv => IndexIsTrue
  <2> SUFFICES ASSUME TagInv, NEW c \in Contexts, NEW filter \in TagFilters,
                      closed \cap {c, "parent"} = {}
               PROVE  Tags!FindByTag(c, filter) = Tags!FindBindings(c, filter)
    BY SameSearch DEF IndexIsTrue
  <2> USE DEF Contexts, TagFilters, Tags!Contexts, Tags!TagFilters
  <2>1. c \notin closed /\ "parent" \notin closed /\ "parent" \in Tags!Contexts
    BY DEF Tags!Contexts
  <2>2. /\ Tags!FindByTagIndex(c, filter) = {b \in registry[c] : Tags!Passes(filter, b)}
        /\ Tags!FindByTagIndex("parent", filter) = {b \in registry["parent"] : Tags!Passes(filter, b)}
    BY <2>1, IndexFinds
  <2>3. CASE c = "parent"
    BY <2>2, <2>3 DEF Tags!FindByTag, Tags!FindBindings
  <2>4. CASE c = "child"
    BY <2>2, <2>4 DEF Tags!FindByTag, Tags!FindBindings
  <2> QED BY <2>3, <2>4 DEF Tags!Contexts
<1> QED BY <1>1, <1>2, <1>3, PTL DEF Tags!Spec

(*-------------------------------------------------------------------------*)
(* ResourcePool                                                            *)
(*-------------------------------------------------------------------------*)

(* The queue holds those who wait, each once.                              *)
PoolQueued ==
  /\ \A c \in Borrowers : borrower[c] = "waiting" <=> \E i \in DOMAIN queue : queue[i] = c
  /\ \A i, j \in DOMAIN queue : queue[i] = queue[j] => i = j

(* Mutual exclusion needs to know that who gets a resource has none yet,   *)
(* which is so because those in the queue wait.                            *)
PoolInv == Pool!TypeOK /\ PoolQueued /\ Pool!Exclusive /\ Pool!Clean

(* The invariant is inductive: it holds at first, ...                      *)
LEMMA InitPool ==
  ASSUME Pool!PoolAssumption, Pool!Init
  PROVE  PoolInv
<1>1. Pool!TypeOK
  BY EmptySeq DEF Pool!PoolAssumption, Pool!Init, Pool!TypeOK
<1>2. PoolQueued
  BY DEF Pool!Init, PoolQueued
<1>3. Pool!Exclusive
  BY DEF Pool!PoolAssumption, Pool!Init, Pool!Exclusive, Pool!Busy
<1>4. Pool!Clean
  BY DEF Pool!Init, Pool!Clean
<1> QED BY <1>1, <1>2, <1>3, <1>4 DEF PoolInv

-----------------------------------------------------------------------------

(* What a step does to the queue: nobody is lost and nobody gets in twice. *)
LEMMA PoolQueueStep ==
  ASSUME Pool!PoolAssumption, PoolInv, [Pool!Next]_Pool!vars
  PROVE  PoolQueued'
<1>1. CASE UNCHANGED <<queue, borrower>>
  BY <1>1 DEF PoolInv, PoolQueued
<1>2. ASSUME NEW c \in Borrowers, Pool!Acquire(c)
      PROVE  PoolQueued'
  <2>1. /\ queue \in Seq(Borrowers) /\ borrower \in [Borrowers -> {"idle", "waiting"} \cup Pool!Busy]
        /\ queue' = Append(queue, c) /\ borrower' = [borrower EXCEPT ![c] = "waiting"]
        /\ borrower[c] = "idle"
    BY <1>2 DEF PoolInv, Pool!TypeOK, Pool!Acquire
  <2>2. /\ queue' \in Seq(Borrowers) /\ Len(queue') = Len(queue) + 1
        /\ \A i \in 1..Len(queue) : queue'[i] = queue[i]
        /\ queue'[Len(queue) + 1] = c
        /\ Len(queue) \in Nat /\ DOMAIN queue = 1..Len(queue)
    BY <2>1, AppendProperties, LenProperties
  <2>3. DOMAIN queue' = 1..(Len(queue) + 1)
    BY <2>2, LenProperties
  <2>4. \A i \in DOMAIN queue : queue[i] # c
    BY <2>1, <2>2 DEF PoolInv, PoolQueued
  <2> QED BY <2>1, <2>2, <2>3, <2>4 DEF PoolInv, PoolQueued
<1>3. ASSUME NEW r \in Resources, Pool!Lend(r)
      PROVE  PoolQueued'
  <2>1. /\ queue \in Seq(Borrowers) /\ queue # <<>>
        /\ borrower \in [Borrowers -> {"idle", "waiting"} \cup Pool!Busy]
        /\ queue' = Tail(queue) /\ borrower' = [borrower EXCEPT ![Head(queue)] = "setup"]
    BY <1>3 DEF PoolInv, Pool!TypeOK, Pool!Lend
  <2>2. /\ queue' \in Seq(Borrowers) /\ Len(queue') = Len(queue) - 1
        /\ \A i \in 1..Len(queue') : queue'[i] = queue[i + 1]
        /\ Len(queue) \in Nat \ {0} /\ DOMAIN queue = 1..Len(queue)
        /\ Head(queue) = queue[1] /\ Head(queue) \in Borrowers
    BY <2>1, HeadTailProperties, LenProperties, EmptySeq
  <2>3. DOMAIN queue' = 1..(Len(queue) - 1)
    BY <2>2, LenProperties
  <2>4. ASSUME NEW i \in DOMAIN queue', NEW j \in DOMAIN queue', queue'[i] = queue'[j]
        PROVE  i = j
    <3>1. /\ i + 1 \in DOMAIN queue /\ j + 1 \in DOMAIN queue
          /\ queue[i + 1] = queue[j + 1]
      BY <2>2, <2>3, <2>4
    <3>2. i + 1 = j + 1
      BY <3>1 DEF PoolInv, PoolQueued
    <3> QED BY <2>2, <2>3, <3>2
  <2>5. ASSUME NEW d \in Borrowers
        PROVE  borrower'[d] = "waiting" <=> \E i \in DOMAIN queue' : queue'[i] = d
    <3>1. CASE d = Head(queue)
      <4>1. borrower'[d] # "waiting"
        BY <2>1, <3>1
      <4>2. ASSUME NEW i \in DOMAIN queue', queue'[i] = d
            PROVE  FALSE
        <5>1. i + 1 \in DOMAIN queue /\ 1 \in DOMAIN queue /\ i + 1 # 1
          BY <2>2, <2>3
        <5>2. queue[i + 1] = queue[1]
          BY <2>2, <2>3, <3>1, <4>2
        <5> QED BY <5>1, <5>2 DEF PoolInv, PoolQueued
      <4> QED BY <4>1, <4>2
    <3>2. CASE d # Head(queue)
      <4>1. borrower'[d] = borrower[d]
        BY <2>1, <3>2
      <4>2. ASSUME NEW i \in DOMAIN queue, queue[i] = d
            PROVE  \E k \in DOMAIN queue' : queue'[k] = d
        <5>1. i # 1
          BY <2>2, <3>2, <4>2
        <5>2. i - 1 \in DOMAIN queue' /\ queue'[i - 1] = queue[i]
          BY <2>2, <2>3, <5>1
        <5> QED BY <4>2, <5>2
      <4>3. ASSUME NEW k \in DOMAIN queue', queue'[k] = d
            PROVE  \E i \in DOMAIN queue : queue[i] = d
        BY <2>2, <2>3, <4>3
      <4> QED BY <4>1, <4>2, <4>3 DEF PoolInv, PoolQueued
    <3> QED BY <3>1, <3>2
  <2> QED BY <2>4, <2>5 DEF PoolQueued
<1>4. ASSUME NEW c \in Borrowers, NEW at \in {"idle"} \cup Pool!Busy,
             borrower[c] \in Pool!Busy, borrower' = [borrower EXCEPT ![c] = at], UNCHANGED queue
      PROVE  PoolQueued'
  BY <1>4 DEF PoolInv, Pool!TypeOK, PoolQueued, Pool!Busy
<1>5. ASSUME NEW c \in Borrowers, Pool!ClientStep(c)
      PROVE  PoolQueued'
  <2>1. borrower[c] \in Pool!Busy /\ UNCHANGED queue
    BY <1>5 DEF Pool!ClientStep, Pool!SetUp, Pool!Use, Pool!Release, Pool!ReleaseFails,
                Pool!Destroy, Pool!Busy
  <2>2. \E at \in {"idle"} \cup Pool!Busy : borrower' = [borrower EXCEPT ![c] = at]
    BY <1>5 DEF Pool!ClientStep, Pool!SetUp, Pool!Use, Pool!Release, Pool!ReleaseFails,
                Pool!Destroy, Pool!LeavesHands, Pool!Busy
  <2> QED BY <1>4, <2>1, <2>2
<1>6. ASSUME Pool!PoolStep \/ Pool!Start \/ Pool!Stop, ~(\E r \in Resources : Pool!Lend(r))
      PROVE  UNCHANGED <<queue, borrower>>
  BY <1>6 DEF Pool!PoolStep, Pool!Create, Pool!Destroyed, Pool!Clear, Pool!Created,
              Pool!Stopped, Pool!Start, Pool!Stop
<1> QED BY <1>1, <1>2, <1>3, <1>5, <1>6 DEF Pool!Next, Pool!PoolStep, Pool!vars

-----------------------------------------------------------------------------

(* ... and a step preserves each of its parts.                             *)
LEMMA PoolTypeStep ==
  ASSUME Pool!PoolAssumption, PoolInv, [Pool!Next]_Pool!vars
  PROVE  Pool!TypeOK'
<1> USE DEF PoolInv, Pool!TypeOK
<1>1. CASE UNCHANGED Pool!vars
  BY <1>1 DEF Pool!vars
<1>2. ASSUME NEW r \in Resources, Pool!Create(r) \/ Pool!Destroyed(r) \/ Pool!Clear(r)
      PROVE  Pool!TypeOK'
  BY <1>2 DEF Pool!Create, Pool!Destroyed, Pool!Clear
<1>3. ASSUME NEW r \in Resources, NEW ok \in BOOLEAN, Pool!Created(r, ok)
      PROVE  Pool!TypeOK'
  <2>1. failures' \in 0..MaxFailures
    BY <1>3 DEF Pool!PoolAssumption, Pool!Created
  <2> QED BY <1>3, <2>1 DEF Pool!Created
<1>4. ASSUME NEW r \in Resources, Pool!Lend(r)
      PROVE  Pool!TypeOK'
  <2>1. Head(queue) \in Borrowers /\ Tail(queue) \in Seq(Borrowers)
    BY <1>4, HeadTailProperties DEF Pool!Lend
  <2> QED BY <1>4, <2>1 DEF Pool!Lend, Pool!Busy
<1>5. CASE Pool!Start \/ Pool!Stop \/ Pool!Stopped
  BY <1>5 DEF Pool!Start, Pool!Stop, Pool!Stopped
<1>6. ASSUME NEW c \in Borrowers, Pool!Acquire(c)
      PROVE  Pool!TypeOK'
  <2>1. Append(queue, c) \in Seq(Borrowers)
    BY AppendProperties
  <2> QED BY <1>6, <2>1 DEF Pool!Acquire
<1>7. ASSUME NEW c \in Borrowers, NEW ok \in BOOLEAN, Pool!SetUp(c, ok)
      PROVE  Pool!TypeOK'
  BY <1>7 DEF Pool!SetUp, Pool!Busy
<1>8. ASSUME NEW c \in Borrowers, NEW ok \in BOOLEAN, Pool!Use(c, ok)
      PROVE  Pool!TypeOK'
  <2>1. holds[c] \in Resources
    BY <1>8 DEF Pool!Use, Pool!Exclusive, Pool!Busy
  <2> QED BY <1>8, <2>1 DEF Pool!Use, Pool!Busy
<1>9. ASSUME NEW c \in Borrowers, Pool!Release(c) \/ Pool!ReleaseFails(c) \/ Pool!Destroy(c)
      PROVE  Pool!TypeOK'
  BY <1>9 DEF Pool!Release, Pool!ReleaseFails, Pool!Destroy, Pool!LeavesHands, Pool!Busy
<1> QED BY <1>1, <1>2, <1>3, <1>4, <1>5, <1>6, <1>7, <1>8, <1>9
        DEF Pool!Next, Pool!PoolStep, Pool!ClientStep

(* A resource changes hands when it is lent, to somebody without one, and  *)
(* when its holder lets it go.                                             *)
LEMMA PoolExclusiveStep ==
  ASSUME Pool!PoolAssumption, PoolInv, [Pool!Next]_Pool!vars
  PROVE  Pool!Exclusive'
<1> USE DEF PoolInv, Pool!TypeOK
<1>1. CASE UNCHANGED <<resource, borrower, holds>>
  BY <1>1 DEF Pool!Exclusive
<1>2. ASSUME NEW r \in Resources, NEW at \in {"none", "creating", "available", "stopping"},
             resource[r] # "lent", resource' = [resource EXCEPT ![r] = at],
             UNCHANGED <<borrower, holds>>
      PROVE  Pool!Exclusive'
  BY <1>2 DEF Pool!Exclusive
<1>3. ASSUME NEW r \in Resources, Pool!Lend(r)
      PROVE  Pool!Exclusive'
  <2>1. /\ Head(queue) \in Borrowers /\ borrower[Head(queue)] = "waiting"
    <3>1. Head(queue) \in Borrowers /\ 1 \in DOMAIN queue /\ Head(queue) = queue[1]
      BY <1>3, HeadTailProperties, LenProperties, EmptySeq DEF Pool!Lend
    <3> QED BY <3>1 DEF PoolQueued
  <2>2. \A d \in Borrowers : holds[d] # r
    BY <1>3 DEF Pool!Lend, Pool!Exclusive
  <2>3. holds[Head(queue)] = NOTHING
    BY <2>1 DEF Pool!Exclusive, Pool!Busy
  <2>4. /\ resource' = [resource EXCEPT ![r] = "lent"]
        /\ borrower' = [borrower EXCEPT ![Head(queue)] = "setup"]
        /\ holds' = [holds EXCEPT ![Head(queue)] = r]
    BY <1>3 DEF Pool!Lend
  <2> QED BY <2>1, <2>2, <2>3, <2>4 DEF Pool!PoolAssumption, Pool!Exclusive, Pool!Busy
<1>4. ASSUME NEW c \in Borrowers, NEW at \in {"available", "stopping"},
             borrower[c] \in Pool!Busy, Pool!LeavesHands(c, at)
      PROVE  Pool!Exclusive'
  <2>1. holds[c] \in Resources
    BY <1>4 DEF Pool!Exclusive
  <2> QED BY <1>4, <2>1 DEF Pool!PoolAssumption, Pool!Exclusive, Pool!LeavesHands, Pool!Busy
<1>5. ASSUME NEW c \in Borrowers, NEW at \in Pool!Busy,
             borrower[c] \in Pool!Busy, borrower' = [borrower EXCEPT ![c] = at],
             UNCHANGED <<resource, holds>>
      PROVE  Pool!Exclusive'
  BY <1>5 DEF Pool!Exclusive
<1>6. ASSUME NEW c \in Borrowers, Pool!Acquire(c)
      PROVE  Pool!Exclusive'
  BY <1>6 DEF Pool!Acquire, Pool!Exclusive, Pool!Busy
<1>7. ASSUME NEW r \in Resources, Pool!Create(r) \/ Pool!Destroyed(r) \/ Pool!Clear(r)
      PROVE  Pool!Exclusive'
  BY <1>2, <1>7 DEF Pool!Create, Pool!Destroyed, Pool!Clear
<1>8. ASSUME NEW r \in Resources, NEW ok \in BOOLEAN, Pool!Created(r, ok)
      PROVE  Pool!Exclusive'
  BY <1>2, <1>8 DEF Pool!Created
<1>9. ASSUME NEW c \in Borrowers, Pool!ClientStep(c)
      PROVE  Pool!Exclusive'
  <2>1. CASE Pool!Release(c) \/ Pool!Destroy(c)
    BY <1>4, <2>1 DEF Pool!Release, Pool!Destroy, Pool!Busy
  <2>2. CASE Pool!ReleaseFails(c) \/ \E ok \in BOOLEAN : Pool!SetUp(c, ok) \/ Pool!Use(c, ok)
    BY <1>5, <2>2 DEF Pool!ReleaseFails, Pool!SetUp, Pool!Use, Pool!Busy
  <2> QED BY <1>9, <2>1, <2>2 DEF Pool!ClientStep
<1> QED BY <1>1, <1>3, <1>6, <1>7, <1>8, <1>9
        DEF Pool!Next, Pool!PoolStep, Pool!Start, Pool!Stop, Pool!Stopped, Pool!vars

(* What is used stays with its user until it is clean or destroyed.        *)
LEMMA PoolCleanStep ==
  ASSUME Pool!PoolAssumption, PoolInv, [Pool!Next]_Pool!vars
  PROVE  Pool!Clean'
<1> USE DEF PoolInv, Pool!TypeOK
<1>1. CASE UNCHANGED <<resource, borrower, holds, used>>
  BY <1>1 DEF Pool!Clean
<1>2. ASSUME NEW r \in Resources, Pool!Create(r) \/ Pool!Clear(r)
      PROVE  Pool!Clean'
  BY <1>2 DEF Pool!Create, Pool!Clear, Pool!Clean
<1>3. ASSUME NEW r \in Resources, Pool!Destroyed(r)
      PROVE  Pool!Clean'
  BY <1>3 DEF Pool!Destroyed, Pool!Clean
<1>4. ASSUME NEW r \in Resources, NEW ok \in BOOLEAN, Pool!Created(r, ok)
      PROVE  Pool!Clean'
  BY <1>4 DEF Pool!Created, Pool!Clean
<1>5. ASSUME NEW r \in Resources, Pool!Lend(r)
      PROVE  Pool!Clean'
  <2>1. r \notin used
    BY <1>5 DEF Pool!Lend, Pool!Clean
  <2>2. Head(queue) \in Borrowers
    BY <1>5, HeadTailProperties DEF Pool!Lend
  <2> QED BY <1>5, <2>1, <2>2 DEF Pool!Lend, Pool!Clean
<1>6. ASSUME NEW c \in Borrowers, Pool!Acquire(c)
      PROVE  Pool!Clean'
  BY <1>6 DEF Pool!Acquire, Pool!Clean
<1>7. ASSUME NEW c \in Borrowers, NEW ok \in BOOLEAN, Pool!SetUp(c, ok)
      PROVE  Pool!Clean'
  BY <1>7 DEF Pool!SetUp, Pool!Clean
<1>8. ASSUME NEW c \in Borrowers, NEW ok \in BOOLEAN, Pool!Use(c, ok)
      PROVE  Pool!Clean'
  <2>1. holds[c] \in Resources /\ resource[holds[c]] = "lent"
    BY <1>8 DEF Pool!Use, Pool!Exclusive, Pool!Busy
  <2>2. \A d \in Borrowers : holds[d] = holds[c] => d = c
    BY <2>1 DEF Pool!PoolAssumption, Pool!Exclusive
  <2> QED BY <1>8, <2>1, <2>2 DEF Pool!Use, Pool!Clean
<1>9. ASSUME NEW c \in Borrowers, Pool!Release(c)
      PROVE  Pool!Clean'
  <2>1. holds[c] \in Resources
    BY <1>9 DEF Pool!Release, Pool!Exclusive, Pool!Busy
  <2> QED BY <1>9, <2>1 DEF Pool!Release, Pool!LeavesHands, Pool!Clean
<1>10. ASSUME NEW c \in Borrowers, Pool!ReleaseFails(c)
      PROVE  Pool!Clean'
  BY <1>10 DEF Pool!ReleaseFails, Pool!Clean
<1>11. ASSUME NEW c \in Borrowers, Pool!Destroy(c)
      PROVE  Pool!Clean'
  <2>1. holds[c] \in Resources
    BY <1>11 DEF Pool!Destroy, Pool!Exclusive, Pool!Busy
  <2> QED BY <1>11, <2>1 DEF Pool!Destroy, Pool!LeavesHands, Pool!Clean
<1> QED BY <1>1, <1>2, <1>3, <1>4, <1>5, <1>6, <1>7, <1>8, <1>9, <1>10, <1>11
        DEF Pool!Next, Pool!PoolStep, Pool!ClientStep, Pool!Start, Pool!Stop, Pool!Stopped,
            Pool!vars

-----------------------------------------------------------------------------

(* The invariant holds of every behaviour.                                 *)
THEOREM PoolInductive ==
  ASSUME Pool!PoolAssumption
  PROVE  Pool!Spec => []PoolInv
<1>1. PoolInv /\ [Pool!Next]_Pool!vars => PoolInv'
  <2> SUFFICES ASSUME PoolInv, [Pool!Next]_Pool!vars PROVE PoolInv'
    OBVIOUS
  <2> QED BY PoolTypeStep, PoolQueueStep, PoolExclusiveStep, PoolCleanStep DEF PoolInv
<1> QED BY InitPool, <1>1, PTL DEF Pool!Spec

(* The variables of ResourcePool keep their types: in particular, nobody   *)
(* works without a resource.                                               *)
THEOREM PoolTypes ==
  ASSUME Pool!PoolAssumption
  PROVE  Pool!Spec => []Pool!TypeOK
BY PoolInductive, PTL DEF PoolInv

(* However hooks fail and however many borrowers there are, a resource is    *)
(* never lent to two of them, and what is lent is in somebody's hands.     *)
THEOREM NothingLeaks ==
  ASSUME Pool!PoolAssumption
  PROVE  Pool!Spec => []Exclusive
<1>1. PoolInv => Exclusive
  BY DEF PoolInv, Pool!Exclusive, Exclusive, Pool!Busy, Busy
<1> QED BY PoolInductive, <1>1, PTL

(* PoolingService lends no resource that its release hook has not cleaned  *)
(* since it was used.                                                      *)
THEOREM NothingDirty ==
  ASSUME Pool!PoolAssumption
  PROVE  Pool!Spec => []Clean
<1>1. PoolInv => Clean
  BY DEF PoolInv, Pool!Clean, Clean
<1> QED BY PoolInductive, <1>1, PTL
=============================================================================
