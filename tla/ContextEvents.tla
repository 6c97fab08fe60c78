--------------------------- MODULE ContextEvents ---------------------------
(***************************************************************************)
(* A hierarchy of contexts whose bindings change, and the observers that   *)
(* are told about it: Context.add, unbind and find                         *)
(* (packages/context/src/context.ts), the subscription managers with their *)
(* queues (context-subscription.ts) and, as observers, the views with      *)
(* their cached bindings (context-view.ts).                                *)
(*                                                                         *)
(* bind and unbind events travel down the hierarchy at once.  Each context *)
(* queues its own notifications, and a background task hands them to one   *)
(* observer after the other, with an await after each.                     *)
(***************************************************************************)
EXTENDS Naturals, SequencesExt, FiniteSets

CONSTANTS
  Contexts,
  Ancestors,   \* the proper ancestors of a context
  Bindings,
  KeyOf,       \* the key of a binding
  Views,       \* the observers that are context views
  Watchers,    \* the observers that are functions: no filter, may fail
  Home,        \* the context to which an observer subscribes
  Matching,    \* the bindings that pass the filter of the views
  MayFail,     \* whether a watcher may reject
  MaxEvents,   \* bound on the number of events
  NULL

Observers == Views \cup Watchers

(* An event in a queue, or being worked on, with the observers that are    *)
(* still to be told.                                                       *)
Notification == [number : Nat \ {0}, binding : Bindings, rest : Seq(Observers)]

ASSUME HierarchyAssumption ==
  /\ Ancestors \in [Contexts -> SUBSET Contexts]
  /\ \A c \in Contexts :
       /\ c \notin Ancestors[c]
       /\ \A d \in Ancestors[c] : Ancestors[d] \subseteq Ancestors[c]
       /\ \A d, e \in Ancestors[c] : d = e \/ d \in Ancestors[e] \/ e \in Ancestors[d]
  /\ Home \in [Observers -> Contexts] /\ Contexts \cap Observers = {}
  /\ Matching \subseteq Bindings /\ NULL \notin Notification

VARIABLES
  registry,    \* Context.registry: the bindings of each context
  observers,   \* _observers: a Set, in insertion order
  hooked,      \* whether a manager is set up, and listens to its parent
  closed,      \* the contexts and observers whose time is over
  queue,       \* notificationQueue: events with their snapshot of observers
  current,     \* the event that the background task works on, or NULL
  pendingNotifications,
  cached,      \* _cachedBindings of each view, or NULL
  waiting,     \* how many observersNotified events a call of
               \* waitUntilPendingNotificationsDone has yet to see
  heard,       \* the numbers of the events that an observer was told
  emitted      \* the number of events so far

vars == <<registry, observers, hooked, closed, queue, current,
          pendingNotifications, cached, waiting, heard, emitted>>

Init ==
  /\ registry \in [Contexts -> {{}} \cup {{b} : b \in Bindings}]
  /\ \A c, d \in Contexts : c # d => registry[c] \cap registry[d] = {}
  /\ observers = [c \in Contexts |-> <<>>]
  /\ hooked = [c \in Contexts |-> FALSE]
  /\ closed = {}
  /\ queue = [c \in Contexts |-> <<>>]
  /\ current = [c \in Contexts |-> NULL]
  /\ pendingNotifications = [c \in Contexts |-> 0]
  /\ cached = [v \in Views |-> NULL]
  /\ waiting = [c \in Contexts |-> 0]
  /\ heard = [o \in Observers |-> <<>>]
  /\ emitted = 0

(***************************************************************************)
(* The registries.                                                         *)
(***************************************************************************)

(* The contexts from d up to, but without, its ancestor c.                 *)
Path(d, c) == ({d} \cup Ancestors[d]) \ ({c} \cup Ancestors[c])

Bound(c, key) == \E b \in registry[c] : KeyOf[b] = key

(* find(filter) with _mergeWithParent: the matching bindings of the chain, *)
(* except those whose key a matching binding of a nearer context has.      *)
Find(c) ==
  {b \in Matching :
     \E x \in {c} \cup Ancestors[c] :
       /\ b \in registry[x]
       /\ \A y \in Path(c, x) :
            \A m \in registry[y] \cap Matching : KeyOf[m] # KeyOf[b]}

(* Mutant: nobody listens to the parent context.                           *)
OwnEventsOnly(c, key) == {c}

(* The contexts on which an event of context c is emitted: c itself, and   *)
(* below it as far as handleParentEvent passes it on, which ends at a      *)
(* context that contains the key.                                          *)
Receivers(c, key) ==
  {c} \cup {d \in Contexts :
              /\ c \in Ancestors[d]
              /\ \A x \in Path(d, c) : hooked[x] /\ ~Bound(x, key)}

(* setupNotification: every receiver queues the events, each with its own  *)
(* snapshot of the observers, unless it has none.  The events are about    *)
(* the bindings bs, which all have one key.                                *)
Emit(c, bs) ==
  LET Notified(d) == /\ d \in Receivers(c, KeyOf[Head(bs)])
                     /\ hooked[d]
                     /\ observers[d] # <<>>
      For(d) == [i \in 1..Len(bs) |-> [number |-> emitted + i, binding |-> bs[i],
                                       rest |-> observers[d]]]
  IN /\ queue' = [d \in Contexts |->
                    IF Notified(d) THEN queue[d] \o For(d) ELSE queue[d]]
     /\ pendingNotifications' =
          [d \in Contexts |-> IF Notified(d)
                              THEN pendingNotifications[d] + Len(bs)
                              ELSE pendingNotifications[d]]
     /\ emitted' = emitted + Len(bs)

(* Context.add: unbind of what the key was bound to, then bind.            *)
Add(c, b) ==
  LET old == {a \in registry[c] : KeyOf[a] = KeyOf[b]} IN
  /\ emitted < MaxEvents
  /\ \A d \in Contexts : b \notin registry[d]
  /\ registry' = [registry EXCEPT ![c] = (@ \ old) \cup {b}]
  /\ Emit(c, IF old = {} THEN <<b>> ELSE <<CHOOSE a \in old : TRUE, b>>)
  /\ UNCHANGED <<observers, hooked, closed, current, cached, waiting, heard>>

Unbind(c, b) ==
  /\ emitted < MaxEvents
  /\ b \in registry[c]
  /\ registry' = [registry EXCEPT ![c] = @ \ {b}]
  /\ Emit(c, <<b>>)
  /\ UNCHANGED <<observers, hooked, closed, current, cached, waiting, heard>>

(***************************************************************************)
(* Subscriptions.                                                          *)
(***************************************************************************)

(* isSubscribed                                                            *)
Subscribed(o) == o \in ToSet(observers[Home[o]])

(* subscribe: sets up the managers of the context and of its ancestors.    *)
Subscribe(o) ==
  LET c == Home[o] IN
  /\ c \notin closed
  /\ o \notin closed            \* a bound: nobody subscribes a second time
  /\ o \notin ToSet(observers[c])
  /\ observers' = [observers EXCEPT ![c] = Append(@, o)]
  /\ hooked' = [d \in Contexts |-> hooked[d] \/ d \in {c} \cup Ancestors[c]]
  /\ UNCHANGED <<registry, closed, queue, current, pendingNotifications,
                 cached, waiting, heard, emitted>>

Unsubscribe(o) ==
  LET c == Home[o] IN
  /\ o \in ToSet(observers[c])
  /\ observers' = [observers EXCEPT ![c] = RemoveFirst(@, o)]
  /\ closed' = closed \cup {o}
  /\ UNCHANGED <<registry, hooked, queue, current,
                 pendingNotifications, cached, waiting, heard, emitted>>

(* Mutant: close() resets the number of pending notifications.             *)
CloseAndReset(c) ==
  /\ c \notin closed
  /\ \A d \in Contexts : c \notin Ancestors[d]
  /\ closed' = closed \cup {c}
  /\ observers' = [observers EXCEPT ![c] = <<>>]
  /\ hooked' = [hooked EXCEPT ![c] = FALSE]
  /\ queue' = [queue EXCEPT ![c] = <<>>]
  /\ pendingNotifications' = [pendingNotifications EXCEPT ![c] = 0]
  /\ UNCHANGED <<registry, current, cached, waiting, heard, emitted>>

(* close(), of a context without children such as a request context.  The  *)
(* notification that is being processed goes on; how many of the queued    *)
(* ones still come is up to the iterator of p-event.                       *)
Close(c) ==
  /\ c \notin closed
  /\ \A d \in Contexts : c \notin Ancestors[d]
  /\ closed' = closed \cup {c}
  /\ observers' = [observers EXCEPT ![c] = <<>>]
  /\ hooked' = [hooked EXCEPT ![c] = FALSE]
  /\ \E n \in 0..Len(queue[c]) :
       queue' = [queue EXCEPT ![c] = SubSeq(@, 1, n)]
  /\ UNCHANGED <<registry, current, pendingNotifications, cached, waiting, heard, emitted>>

(***************************************************************************)
(* The background task of a context.                                       *)
(***************************************************************************)

(* The next event comes out of the queue, with its snapshot of observers.  *)
Take(c) ==
  /\ current[c] = NULL
  /\ queue[c] # <<>>
  /\ current' = [current EXCEPT ![c] = Head(queue[c])]
  /\ queue' = [queue EXCEPT ![c] = Tail(@)]
  /\ UNCHANGED <<registry, observers, hooked, closed, pendingNotifications,
                 cached, waiting, heard, emitted>>

(* A function is told of everything, a view of what its filter lets        *)
(* through.                                                                *)
Interested(o, b) == o \in Watchers \/ b \in Matching

(* The loop of notifyObservers has come to its k-th remaining observer:    *)
(* it passes over those that are not interested.                           *)
ComesTo(c, k) ==
  /\ Interested(current[c].rest[k], current[c].binding)
  /\ \A j \in 1..(k - 1) : ~Interested(current[c].rest[j], current[c].binding)

Tell(o, c) == heard' = [heard EXCEPT ![o] = Append(@, current[c].number)]

(* One observer is told: a view drops its cache.                           *)
Deliver(c) ==
  /\ current[c] # NULL
  /\ \E k \in DOMAIN current[c].rest :
       /\ ComesTo(c, k)
       /\ LET rest == current[c].rest IN
            /\ Tell(rest[k], c)
            /\ cached' = [v \in Views |-> IF v = rest[k] THEN NULL ELSE cached[v]]
            /\ current' = [current EXCEPT ![c].rest = SubSeq(@, k + 1, Len(@))]
  /\ UNCHANGED <<registry, observers, hooked, closed, queue,
                 pendingNotifications, waiting, emitted>>

(* Nobody is left who is interested.                                       *)
Delivered(c) ==
  /\ current[c] # NULL
  /\ \A o \in ToSet(current[c].rest) : ~Interested(o, current[c].binding)
  /\ current' = [current EXCEPT ![c] = NULL]
  /\ pendingNotifications' = [pendingNotifications EXCEPT ![c] = @ - 1]
  /\ waiting' = [waiting EXCEPT ![c] = IF @ = 0 THEN 0 ELSE @ - 1]
  /\ UNCHANGED <<registry, observers, hooked, closed, queue, cached, heard, emitted>>

(* Mutant: a watcher that rejects is told once more.                       *)
FailAndRetry(c) ==
  /\ MayFail
  /\ current[c] # NULL
  /\ \E k \in DOMAIN current[c].rest :
       /\ ComesTo(c, k)
       /\ current[c].rest[k] \in Watchers
       /\ Tell(current[c].rest[k], c)
  /\ UNCHANGED <<registry, observers, hooked, closed, queue, current,
                 pendingNotifications, cached, waiting, emitted>>

(* A watcher rejects: the observers that come after it are not told, the   *)
(* event stays counted as pending, and the 'error' event rejects a wait.   *)
(* Some context of the chain is assumed to have an 'error' listener; where *)
(* none has, the process crashes.                                          *)
FailToDeliver(c) ==
  /\ MayFail
  /\ current[c] # NULL
  /\ \E k \in DOMAIN current[c].rest :
       /\ ComesTo(c, k)
       /\ current[c].rest[k] \in Watchers
       /\ Tell(current[c].rest[k], c)
  /\ current' = [current EXCEPT ![c] = NULL]
  /\ waiting' = [waiting EXCEPT ![c] = 0]
  /\ UNCHANGED <<registry, observers, hooked, closed, queue,
                 pendingNotifications, cached, emitted>>

(* Mutant: waits for one event too many.                                   *)
WaitForOneMore(c) ==
  /\ waiting[c] = 0
  /\ c \notin closed
  /\ pendingNotifications[c] > 0
  /\ waiting' = [waiting EXCEPT ![c] = pendingNotifications[c] + 1]
  /\ UNCHANGED <<registry, observers, hooked, closed, queue, current,
                 pendingNotifications, cached, heard, emitted>>

(* waitUntilPendingNotificationsDone waits for as many observersNotified   *)
(* events as there are notifications pending now.                          *)
Wait(c) ==
  /\ waiting[c] = 0
  /\ c \notin closed
  /\ pendingNotifications[c] > 0
  /\ waiting' = [waiting EXCEPT ![c] = pendingNotifications[c]]
  /\ UNCHANGED <<registry, observers, hooked, closed, queue, current,
                 pendingNotifications, cached, heard, emitted>>

(* Someone reads the bindings of a view.  The framework opens a view       *)
(* before it reads it; open() keeps what a view had cached before.         *)
ReadBindings(v) ==
  /\ Subscribed(v)
  /\ cached[v] = NULL
  /\ cached' = [cached EXCEPT ![v] = Find(Home[v])]
  /\ UNCHANGED <<registry, observers, hooked, closed, queue, current,
                 pendingNotifications, waiting, heard, emitted>>

Next ==
  \/ \E c \in Contexts, b \in Bindings : Add(c, b) \/ Unbind(c, b)
  \/ \E o \in Observers : Subscribe(o) \/ Unsubscribe(o)
  \/ \E c \in Contexts : Close(c)
  \/ \E c \in Contexts :
       Take(c) \/ Deliver(c) \/ Delivered(c) \/ FailToDeliver(c) \/ Wait(c)
  \/ \E v \in Views : ReadBindings(v)

(* The background tasks run.                                               *)
Fairness ==
  \A c \in Contexts :
    WF_vars(Take(c) \/ Deliver(c) \/ Delivered(c) \/ FailToDeliver(c))

Spec == Init /\ [][Next]_vars
FairSpec == Spec /\ Fairness

-----------------------------------------------------------------------------
(***************************************************************************)
(* Properties.                                                             *)
(***************************************************************************)

(* Every variable has its type, and observers are subscribed to the        *)
(* context that they are at home in.                                       *)
TypeOK ==
  /\ registry \in [Contexts -> SUBSET Bindings]
  /\ observers \in [Contexts -> Seq(Observers)]
  /\ hooked \in [Contexts -> BOOLEAN]
  /\ closed \subseteq Contexts \cup Observers
  /\ queue \in [Contexts -> Seq(Notification)]
  /\ current \in [Contexts -> Notification \cup {NULL}]
  /\ pendingNotifications \in [Contexts -> Nat]
  /\ cached \in [Views -> (SUBSET Matching) \cup {NULL}]
  /\ waiting \in [Contexts -> Nat]
  /\ heard \in [Observers -> Seq(Nat \ {0})]
  /\ emitted \in Nat
  /\ \A c \in Contexts : ToSet(observers[c]) \subseteq {o \in Observers : Home[o] = c}

(* The view v is going to be told to drop its cache.                       *)
Awaits(v) ==
  LET c == Home[v]
      Tells(e) == e.binding \in Matching /\ v \in ToSet(e.rest)
  IN (current[c] # NULL /\ Tells(current[c])) \/ \E i \in DOMAIN queue[c] : Tells(queue[c][i])

Outstanding(c) == Len(queue[c]) + (IF current[c] = NULL THEN 0 ELSE 1)

(* No notification of c has failed: each one that did stays counted.       *)
Unharmed(c) == pendingNotifications[c] = Outstanding(c)

(* ContextView: "a live list of matching bindings": if an open view has    *)
(* cached something else than find() returns now, a notification is on its *)
(* way to it, whatever the context or an ancestor of it has bound, hidden  *)
(* or uncovered; as long as no observer failed.                            *)
StaleIsNotified ==
  \A v \in Views :
    (/\ Subscribed(v) /\ Home[v] \notin closed /\ Unharmed(Home[v])
     /\ cached[v] # NULL /\ cached[v] # Find(Home[v])) => Awaits(v)

(* An observer is told of the events in the order in which they happened,  *)
(* anywhere in the chain, and of none of them twice, also if observers     *)
(* fail, unsubscribe, or the context is closed.                            *)
HeardInOrder ==
  \A o \in Observers : \A i, j \in DOMAIN heard[o] :
    i < j => heard[o][i] < heard[o][j]

(* waitUntilPendingNotificationsDone returns at once only if nothing is    *)
(* queued and nobody is being told.                                        *)
PendingCovers ==
  \A c \in Contexts : pendingNotifications[c] >= Outstanding(c)

(* A call of waitUntilPendingNotificationsDone returns or rejects, unless  *)
(* the context is closed meanwhile or a notification failed.               *)
WaitEnds ==
  \A c \in Contexts :
    waiting[c] > 0 ~> (waiting[c] = 0 \/ c \in closed \/ ~Unharmed(c))

(* Once bindings stop changing, what open views have cached becomes, and   *)
(* stays, what find() returns, as long as no observer failed.              *)
EventuallyFresh ==
  <>[] (\A v \in Views :
          (Subscribed(v) /\ Unharmed(Home[v]) /\ cached[v] # NULL)
            => cached[v] = Find(Home[v]))

=============================================================================
