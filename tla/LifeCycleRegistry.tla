------------------------- MODULE LifeCycleRegistry -------------------------
(***************************************************************************)
(* LifeCycleObserverRegistry (packages/core/src/lifecycle-registry.ts):    *)
(* notifies the life cycle observers of init, start and stop, group by     *)
(* group.  It reads its observers from a ContextView whose cache the       *)
(* context invalidates by notifications that arrive later, while an        *)
(* operation is on its way.                                                *)
(*                                                                         *)
(* An action is the code between two awaits.  Application makes sure that  *)
(* one operation runs at a time and none after a failed one.               *)
(***************************************************************************)
EXTENDS BindingSorter

CONSTANTS
  Observers,     \* bindings tagged as life cycle observers
  Alphabet,      \* the group names in alphabetical order, "" first
  Explicit,      \* the group that an observer's group tag names, or ""
  Tagged,        \* the groups that appear as plain tags of an observer
  Absent,        \* the observers whose binding resolves to null
  Singletons,    \* the observers bound in the singleton scope
  Options,       \* the options with which the registry may be created
  Orders,        \* the arguments of setOrderedGroups
  MayFail,       \* whether an observer may reject
  Runs,          \* bound on the number of operations
  Rebinds,       \* bound on the number of bindings added and removed
  Regroups,      \* bound on the calls of setOrderedGroups
  NULL           \* undefined and null

Names == ToSet(Alphabet)

ASSUME ObserversAssumption ==
  /\ IsFiniteSet(Observers) /\ NULL \notin Observers /\ NULL \notin Seq(Observers)
  /\ Absent \subseteq Observers
  /\ Alphabet \in Seq(Names) /\ Alphabet # <<>> /\ Head(Alphabet) = ""
  /\ Explicit \in [Observers -> Names]
  /\ Tagged \in [Observers -> SUBSET Names]
  /\ \A o \in Options : o \in [orderedGroups : Orders, disabledGroups : SUBSET Names,
                               parallel : BOOLEAN]
  /\ \A order \in Orders : order \in Seq(Names)

VARIABLES
  registered,     \* the observers bound in the context, in order
  options,        \* orderedGroups, disabledGroups and parallel
  view,           \* the cache of observersView
  pending,        \* notifications on the way to observersView
  run,            \* the operation: its event and how far it is
  busy,           \* observers whose notification has not settled yet
  log,            \* observers notified by the operation, in order
  runs, rebinds, regroups   \* how many of each there have been

vars == <<registered, options, view, pending, run, busy, log,
          runs, rebinds, regroups>>
bounds == <<runs, rebinds, regroups>>

V == INSTANCE ViewCache

Events == {"init", "start", "stop"}

(* Where an operation is: not begun; in values(), before and while the     *)
(* values are resolved; about to read the bindings; at the next group;     *)
(* waiting for a group or for one observer of it; over.                    *)
Points == {"idle", "tick", "resolving", "collect", "group", "parallel",
           "serial", "done", "failed"}

Over == run.at \in {"idle", "done", "failed"}

(* getObserverGroup: the group tag, else the first ordered group that is   *)
(* among the tags.                                                         *)
GroupIn(o, order) ==
  LET first == SelectInSeq(order, LAMBDA g : g \in Tagged[o])
  IN IF Explicit[o] # "" THEN Explicit[o]
     ELSE IF first # 0 THEN order[first] ELSE ""
Group(o) == GroupIn(o, options.orderedGroups)

(* Mutant: the bindings are not sorted.                                    *)
Unsorted(bindings) == bindings

(* sortObserverBindingsByGroup sorts by the group tag alone.               *)
Sorted(bindings) ==
  SortBindingsByPhase(bindings, Explicit,
                      options.orderedGroups, Alphabet)

(* The entry of groupMap for the group of one of the bindings.             *)
GroupEntry(o, sorted) ==
  [group |-> Group(o),
   bindings |-> Filtered(sorted, {i \in DOMAIN sorted : Group(sorted[i]) = Group(o)})]

(* Mutant: one group per binding instead of one per name.                  *)
GroupPerBinding(sorted) == [k \in DOMAIN sorted |-> GroupEntry(sorted[k], sorted)]

(* The entries of groupMap: groups in the order in which they are first    *)
(* met, each with its bindings.                                            *)
Groups(sorted) ==
  LET leaders == Filtered(sorted, {i \in DOMAIN sorted :
                   \A j \in 1..(i - 1) : Group(sorted[j]) # Group(sorted[i])})
  IN [k \in DOMAIN leaders |-> GroupEntry(leaders[k], sorted)]

(* The value that a binding resolves to; undefined for a singleton that no *)
(* context owns any more.                                                  *)
Value(o) ==
  IF o \in Absent \/ (o \in Singletons /\ o \notin ToSet(registered))
  THEN NULL ELSE o

(* resolve() drops the values that are null.                               *)
ValuesOf(bindings) ==
  Filtered([i \in DOMAIN bindings |-> Value(bindings[i])],
           {i \in DOMAIN bindings : Value(bindings[i]) # NULL})

Idle == [event |-> "init", at |-> "idle", order |-> <<>>, groups |-> <<>>,
         bindings |-> <<>>, observers |-> <<>>, members |-> <<>>]

Init ==
  /\ \E n \in 0..Cardinality(Observers) :
       registered \in {s \in [1..n -> Observers] : IsInjective(s)}
  /\ options \in Options
  /\ view = V!Refreshed
  /\ pending = 0
  /\ run = Idle
  /\ busy = {}
  /\ log = <<>>
  /\ runs = 0
  /\ rebinds = 0
  /\ regroups = 0

(***************************************************************************)
(* The context around the registry.                                        *)
(***************************************************************************)

(* An observer is bound, or unbound: the view is told later.               *)
Bind(o) ==
  /\ rebinds < Rebinds
  /\ o \notin ToSet(registered)
  /\ registered' = Append(registered, o)
  /\ pending' = pending + 1
  /\ rebinds' = rebinds + 1
  /\ UNCHANGED <<options, view, run, busy, log, runs, regroups>>

Unbind(o) ==
  /\ rebinds < Rebinds
  /\ o \in ToSet(registered)
  /\ registered' = RemoveFirst(registered, o)
  /\ pending' = pending + 1
  /\ rebinds' = rebinds + 1
  /\ UNCHANGED <<options, view, run, busy, log, runs, regroups>>

(* Mutant: the view finds the new bindings at once.                        *)
NotifyAndFind ==
  /\ pending > 0
  /\ pending' = pending - 1
  /\ view' = V!WithBindings(V!Refreshed, registered)
  /\ UNCHANGED <<registered, options, run, busy, log, bounds>>

(* A notification arrives: the view invalidates its cache.                 *)
Notify ==
  /\ pending > 0
  /\ pending' = pending - 1
  /\ view' = V!Refreshed
  /\ UNCHANGED <<registered, options, run, busy, log, bounds>>

SetOrderedGroups(order) ==
  /\ regroups < Regroups
  /\ order # options.orderedGroups
  /\ options' = [options EXCEPT !.orderedGroups = order]
  /\ regroups' = regroups + 1
  /\ UNCHANGED <<registered, view, pending, run, busy, log, runs, rebinds>>

(***************************************************************************)
(* One operation.                                                          *)
(***************************************************************************)

Backwards(group) == [group EXCEPT !.bindings = Reverse(@)]

(* init(), start(), stop(): group the observers, which sorts the cached    *)
(* array of bindings in place, and call notifyGroups; stop() in reverse.   *)
Begin(event) ==
  LET v == V!WithBindings(view, registered)
      sorted == Sorted(v.bindings)
      groups == Groups(sorted)
  IN /\ run.at \in {"idle", "done"}
     /\ runs < Runs
     /\ runs' = runs + 1
     /\ view' = [v EXCEPT !.bindings = sorted]
     /\ run' = [Idle EXCEPT
                  !.event = event,
                  !.at = "tick",
                  !.order = options.orderedGroups,
                  !.groups = IF event = "stop"
                             THEN [k \in DOMAIN groups |->
                                     Backwards(Reverse(groups)[k])]
                             ELSE groups]
     /\ log' = <<>>
     /\ UNCHANGED <<registered, options, pending, busy, rebinds, regroups>>

(* values(), after its nextTick: the cached values, or resolve().          *)
Tick ==
  /\ run.at = "tick"
  /\ \/ /\ view.values # NULL
        /\ run' = [run EXCEPT !.at = "collect", !.observers = V!CachedValues(view)]
        /\ UNCHANGED view
     \/ /\ view.values = NULL
        /\ view' = V!WithBindings(view, registered)
        /\ run' = [run EXCEPT !.at = "resolving",
                              !.observers = ValuesOf(view'.bindings)]
  /\ UNCHANGED <<registered, options, pending, busy, log, bounds>>

(* All values are there: they are cached with the bindings that the view   *)
(* has cached by now.  Or an observer cannot be created.                   *)
Resolved ==
  /\ run.at = "resolving"
  /\ \/ /\ view' = V!WithValues(view, run.observers)
        /\ run' = [run EXCEPT !.at = "collect"]
     \/ /\ MayFail
        /\ run' = [run EXCEPT !.at = "failed"]
        /\ UNCHANGED view
  /\ UNCHANGED <<registered, options, pending, busy, log, bounds>>

(* notifyGroups after the await: reads the bindings once more and looks    *)
(* for an observer to notify, which throws at an undefined one.            *)
Collect ==
  /\ run.at = "collect"
  /\ view' = V!WithBindings(view, registered)
  /\ run' = [run EXCEPT
               !.bindings = view'.bindings,
               !.at = IF run.observers = <<>> THEN "done"
                      ELSE IF Head(run.observers) = NULL THEN "failed"
                      ELSE "group"]
  /\ UNCHANGED <<registered, options, pending, busy, log, bounds>>

(* What is at the position of a binding among the observers.               *)
ObserverOf(binding) ==
  LET i == IndexOf(run.bindings, binding)
  IN IF i \in DOMAIN run.observers THEN run.observers[i] ELSE NULL

Members(group) == [k \in DOMAIN group.bindings |-> ObserverOf(group.bindings[k])]

(* No group is left.                                                       *)
Finish ==
  /\ run.at = "group"
  /\ run.groups = <<>>
  /\ run' = [run EXCEPT !.at = "done"]
  /\ UNCHANGED <<registered, options, view, pending, busy, log, bounds>>

SkipGroup ==
  /\ run.at = "group"
  /\ run.groups # <<>>
  /\ Head(run.groups).group \in options.disabledGroups
  /\ run' = [run EXCEPT !.groups = Tail(@)]
  /\ UNCHANGED <<registered, options, view, pending, busy, log, bounds>>

(* notifyObservers with parallel: all at once; an undefined observer       *)
(* rejects the whole, but the others have been invoked.                    *)
NotifyParallel ==
  LET members == Members(Head(run.groups))
      present == Filtered(members, {k \in DOMAIN members : members[k] # NULL})
  IN /\ run.at = "group"
     /\ run.groups # <<>>
     /\ options.parallel
     /\ Head(run.groups).group \notin options.disabledGroups
     /\ log' = log \o present
     /\ busy' = busy \cup ToSet(present)
     /\ run' = [run EXCEPT
                  !.at = IF NULL \in ToSet(members) THEN "failed" ELSE "parallel",
                  !.groups = Tail(@)]
     /\ UNCHANGED <<registered, options, view, pending, bounds>>

(* Mutant: waits for the observers of all groups.                          *)
AllGroupsNotified ==
  /\ run.at = "parallel"
  /\ busy = {}
  /\ Len(log) = Len(registered)
  /\ run' = [run EXCEPT !.at = "group"]
  /\ UNCHANGED <<registered, options, view, pending, busy, log, bounds>>

(* Promise.all is fulfilled.                                               *)
GroupNotified ==
  /\ run.at = "parallel"
  /\ busy = {}
  /\ run' = [run EXCEPT !.at = "group"]
  /\ UNCHANGED <<registered, options, view, pending, busy, log, bounds>>

(* notifyObservers without parallel: one after the other.                  *)
EnterGroup ==
  /\ run.at = "group"
  /\ run.groups # <<>>
  /\ ~options.parallel
  /\ Head(run.groups).group \notin options.disabledGroups
  /\ run' = [run EXCEPT !.at = "serial",
                        !.members = Members(Head(run.groups)),
                        !.groups = Tail(@)]
  /\ UNCHANGED <<registered, options, view, pending, busy, log, bounds>>

NotifySerial ==
  /\ run.at = "serial"
  /\ busy = {}
  /\ \/ /\ run.members = <<>>
        /\ run' = [run EXCEPT !.at = "group"]
        /\ UNCHANGED <<busy, log>>
     \/ /\ run.members # <<>>
        /\ Head(run.members) # NULL
        /\ busy' = {Head(run.members)}
        /\ log' = Append(log, Head(run.members))
        /\ run' = [run EXCEPT !.members = Tail(@)]
     \/ /\ run.members # <<>>
        /\ Head(run.members) = NULL
        /\ run' = [run EXCEPT !.at = "failed"]
        /\ UNCHANGED <<busy, log>>
  /\ UNCHANGED <<registered, options, view, pending, bounds>>

(* An observer is done, or rejects and takes the operation with it.        *)
Settle(o) ==
  /\ o \in busy
  /\ busy' = busy \ {o}
  /\ \/ UNCHANGED run
     \/ MayFail /\ run' = [run EXCEPT !.at = "failed"]
  /\ UNCHANGED <<registered, options, view, pending, log, bounds>>

Step ==
  \/ Tick \/ Resolved \/ Collect \/ Finish \/ SkipGroup
  \/ NotifyParallel \/ GroupNotified \/ EnterGroup \/ NotifySerial

Next ==
  \/ \E o \in Observers : Bind(o) \/ Unbind(o) \/ Settle(o)
  \/ Notify
  \/ \E order \in Orders : SetOrderedGroups(order)
  \/ \E event \in Events : Begin(event)
  \/ Step

(* Continuations run, notifications are delivered, observers settle.       *)
Fairness ==
  /\ WF_vars(Step)
  /\ WF_vars(Notify)
  /\ \A o \in Observers : WF_vars(Settle(o))

Spec == Init /\ [][Next]_vars
FairSpec == Spec /\ Fairness

-----------------------------------------------------------------------------
(***************************************************************************)
(* Properties.                                                             *)
(***************************************************************************)

GroupType == [group : Names, bindings : Seq(Observers)]
RunType ==
  [event : Events, at : Points, order : Orders \cup {<<>>}, groups : Seq(GroupType),
   bindings : Seq(Observers), observers : Seq(Observers \cup {NULL}),
   members : Seq(Observers \cup {NULL})]

ViewType ==
  [bindings : {NULL} \cup Seq(Observers),
   values : {NULL} \cup Seq([binding : Observers, value : Observers \cup {NULL}])]

(* Every variable has its type.                                            *)
TypeOK ==
  /\ registered \in Seq(Observers)
  /\ options \in [orderedGroups : Orders, disabledGroups : SUBSET Names,
                  parallel : BOOLEAN]
  /\ view \in ViewType
  /\ run \in RunType
  /\ busy \subseteq Observers
  /\ log \in Seq(Observers)
  /\ pending \in Nat /\ runs \in Nat /\ rebinds \in Nat /\ regroups \in Nat

(* However bindings come and go and groups are reordered while an          *)
(* operation runs, it notifies no observer twice (indexOf into an array    *)
(* that may be newer than the groups).                                     *)
NotifiedOnce == IsInjective(log)

(* Once the view has been told of all changes, each value that it caches   *)
(* is the one of its binding, although the cache may be invalidated, and   *)
(* bindings may vanish, while the values are resolved.                     *)
CacheTrue == pending = 0 => V!Paired(view, Value)

(* Nobody is notified while the operation waits for an observer of an      *)
(* earlier group, and everyone is in the end: the registry implements      *)
(* GroupNotification as long as the bindings do not change.                *)
GroupRank(o, order) ==
  Cardinality({g \in ToSet(Alphabet) :
                 CompareByOrder(g, GroupIn(o, order), order, Alphabet) < 0})
Enabled(o) == o \notin Absent /\ Group(o) \notin options.disabledGroups
ByGroups == INSTANCE GroupNotification WITH
  observers <- {o \in ToSet(registered) : Enabled(o)},
  rank <- [o \in Observers |-> GroupRank(o, options.orderedGroups)],
  event <- run.event,
  waiting <- {o \in ToSet(registered) : Enabled(o)} \ ToSet(log),
  active <- busy,
  running <- ~Over
NotifiesByGroups == ByGroups!Spec

(* Every operation comes to an end, with or without success, and leaves    *)
(* no observer unsettled.                                                  *)
OperationEnds == ~Over ~> (Over /\ busy = {})

(* LifeCycleObserverRegistry.sortObserverBindingsByGroup: "By default, we  *)
(* can start other observers before servers and stop them in the reverse   *)
(* order"; more generally the groups are notified in the order of          *)
(* orderedGroups at the call, and in the reverse order for stop.           *)
GroupOrder ==
  LET Rank(i) == GroupRank(log[i], run.order) IN
  \A i, j \in DOMAIN log :
    i < j => IF run.event = "stop" THEN Rank(i) >= Rank(j)
                                   ELSE Rank(i) <= Rank(j)

=============================================================================
