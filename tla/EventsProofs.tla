---------------------------- MODULE EventsProofs ----------------------------
(***************************************************************************)
(* Proofs about ContextEvents, for every hierarchy of contexts, any number *)
(* of observers, bindings and events.                                      *)
(***************************************************************************)
EXTENDS ContextEvents, SequenceLemmas

(* A set of observers of c, in the order of their subscription.            *)
Snapshot(c) ==
  {s \in Seq(Observers) : IsInjective(s) /\ \A o \in ToSet(s) : Home[o] = c}

Snapshots ==
  \A c \in Contexts :
    /\ observers[c] \in Snapshot(c)
    /\ current[c] # NULL => current[c].rest \in Snapshot(c)
    /\ \A i \in 1..Len(queue[c]) : queue[c][i].rest \in Snapshot(c)

(* A queue holds later and later events, ...                               *)
Ordered ==
  \A c \in Contexts :
    /\ \A i, j \in 1..Len(queue[c]) : i < j => queue[c][i].number < queue[c][j].number
    /\ \A i \in 1..Len(queue[c]) : queue[c][i].number <= emitted
    /\ current[c] # NULL =>
         /\ current[c].number <= emitted
         /\ \A i \in 1..Len(queue[c]) : current[c].number < queue[c][i].number

(* ... later than what its observers have been told of.                    *)
Told ==
  \A o \in Observers : \A k \in 1..Len(heard[o]) :
    LET c == Home[o] IN
    /\ heard[o][k] <= emitted
    /\ \A i \in 1..Len(queue[c]) : heard[o][k] < queue[c][i].number
    /\ current[c] # NULL =>
         /\ heard[o][k] <= current[c].number
         /\ o \in ToSet(current[c].rest) => heard[o][k] < current[c].number

(* Events reach the observers: the managers up the chain are set up.       *)
Reached ==
  \A o \in Observers : Subscribed(o) =>
    /\ Home[o] \notin closed
    /\ \A x \in {Home[o]} \cup Ancestors[Home[o]] : hooked[x]

(* Only a view that is subscribed, or was, has cached anything.            *)
CachedBySubscribed ==
  \A v \in Views :
    cached[v] # NULL => Subscribed(v) \/ v \in closed \/ Home[v] \in closed

IInv == /\ TypeOK /\ Snapshots /\ Ordered /\ Told /\ Reached
        /\ CachedBySubscribed /\ PendingCovers

-----------------------------------------------------------------------------

LEMMA InitIInv == Init => IInv
<1> SUFFICES ASSUME Init PROVE IInv
  OBVIOUS
<1> USE HierarchyAssumption DEF Init
<1>1. TypeOK
  <2>1. \A c \in Contexts : registry[c] \subseteq Bindings
    OBVIOUS
  <2>2. /\ observers \in [Contexts -> Seq(Observers)]
        /\ queue \in [Contexts -> Seq(Notification)]
        /\ heard \in [Observers -> Seq(Nat \ {0})]
    OBVIOUS
  <2>3. \A c \in Contexts : ToSet(observers[c]) \subseteq {o \in Observers : Home[o] = c}
    BY DEF ToSet
  <2>4. /\ hooked \in [Contexts -> BOOLEAN] /\ closed \subseteq Contexts \cup Observers
        /\ pendingNotifications \in [Contexts -> Nat]
        /\ waiting \in [Contexts -> Nat] /\ emitted \in Nat
    OBVIOUS
  <2>6. current \in [Contexts -> Notification \cup {NULL}]
    OBVIOUS
  <2>7. cached \in [Views -> (SUBSET Matching) \cup {NULL}]
    <3>1. \A v \in Views : NULL \in (SUBSET Matching) \cup {NULL}
      OBVIOUS
    <3> QED BY <3>1 DEF Init
  <2>5. registry \in [Contexts -> SUBSET Bindings]
    BY <2>1
  <2> QED BY <2>2, <2>3, <2>4, <2>5, <2>6, <2>7 DEF TypeOK
<1>2. Snapshots /\ Ordered
  BY DEF Snapshots, Snapshot, Ordered, IsInjective, ToSet
<1>3. Told
  BY DEF Told
<1>4. Reached
  BY DEF Reached, Subscribed, ToSet, Observers
<1>5. CachedBySubscribed /\ PendingCovers
  BY DEF CachedBySubscribed, PendingCovers, Outstanding
<1> QED BY <1>1, <1>2, <1>3, <1>4, <1>5 DEF IInv

(* What an event about the bindings bs of context c adds to the queue of d.*)
Queued(c, bs, d) ==
  /\ Len(queue'[d]) \in {Len(queue[d]), Len(queue[d]) + Len(bs)}
  /\ pendingNotifications'[d] = pendingNotifications[d] + (Len(queue'[d]) - Len(queue[d]))
  /\ \A i \in 1..Len(queue[d]) : queue'[d][i] = queue[d][i]
  /\ \A i \in (Len(queue[d]) + 1)..Len(queue'[d]) :
       queue'[d][i] = [number |-> emitted + (i - Len(queue[d])),
                       binding |-> bs[i - Len(queue[d])],
                       rest |-> observers[d]]
  /\ d \in Receivers(c, KeyOf[Head(bs)]) /\ hooked[d] /\ observers[d] # <<>>
       => Len(queue'[d]) = Len(queue[d]) + Len(bs)

LEMMA Emitted ==
  ASSUME TypeOK, NEW c \in Contexts, NEW bs \in Seq(Bindings), bs # <<>>, Emit(c, bs)
  PROVE  /\ emitted' = emitted + Len(bs)
         /\ queue' \in [Contexts -> Seq(Notification)]
         /\ pendingNotifications' \in [Contexts -> Nat]
         /\ \A d \in Contexts : Queued(c, bs, d)
<1> DEFINE Notified(d) == /\ d \in Receivers(c, KeyOf[Head(bs)])
                          /\ hooked[d]
                          /\ observers[d] # <<>>
           For(d) == [i \in 1..Len(bs) |-> [number |-> emitted + i, binding |-> bs[i],
                                            rest |-> observers[d]]]
<1>1. /\ queue' = [d \in Contexts |-> IF Notified(d) THEN queue[d] \o For(d) ELSE queue[d]]
      /\ pendingNotifications' =
           [d \in Contexts |-> IF Notified(d) THEN pendingNotifications[d] + Len(bs)
                               ELSE pendingNotifications[d]]
      /\ emitted' = emitted + Len(bs)
  BY DEF Emit
<1>2. Len(bs) \in Nat /\ emitted \in Nat /\ \A i \in 1..Len(bs) : bs[i] \in Bindings
  BY DEF TypeOK
<1>3. ASSUME NEW d \in Contexts
      PROVE  /\ queue[d] \in Seq(Notification) /\ For(d) \in Seq(Notification)
             /\ Len(For(d)) = Len(bs) /\ pendingNotifications[d] \in Nat
             /\ \A i \in 1..Len(bs) :
                  For(d)[i] = [number |-> emitted + i, binding |-> bs[i], rest |-> observers[d]]
  <2>1. observers[d] \in Seq(Observers) /\ queue[d] \in Seq(Notification)
        /\ pendingNotifications[d] \in Nat
    BY DEF TypeOK
  <2>2. ASSUME NEW i \in 1..Len(bs)
        PROVE  [number |-> emitted + i, binding |-> bs[i], rest |-> observers[d]] \in Notification
    BY <1>2, <2>1 DEF Notification
  <2>3. For(d) \in [1..Len(bs) -> Notification]
    BY <2>2
  <2> QED BY <1>2, <2>1, <2>3
<1> HIDE DEF Notified, For
<1>4. ASSUME NEW d \in Contexts
      PROVE  /\ queue[d] \o For(d) \in Seq(Notification)
             /\ Len(queue[d] \o For(d)) = Len(queue[d]) + Len(bs)
             /\ \A i \in 1..(Len(queue[d]) + Len(bs)) :
                  (queue[d] \o For(d))[i] = IF i <= Len(queue[d]) THEN queue[d][i]
                                            ELSE For(d)[i - Len(queue[d])]
  <2> DEFINE q == queue[d]
             f == For(d)
  <2>1. q \in Seq(Notification) /\ f \in Seq(Notification) /\ Len(f) = Len(bs)
    BY <1>3
  <2> HIDE DEF q, f
  <2>2. /\ q \o f \in Seq(Notification)
        /\ Len(q \o f) = Len(q) + Len(f)
        /\ \A i \in 1..(Len(q) + Len(f)) :
             (q \o f)[i] = IF i <= Len(q) THEN q[i] ELSE f[i - Len(q)]
    BY <2>1, ConcatProperties, Zenon
  <2> QED BY <2>1, <2>2 DEF q, f
<1>5. ASSUME NEW d \in Contexts
      PROVE  /\ queue'[d] \in Seq(Notification)
             /\ pendingNotifications'[d] \in Nat
             /\ Len(queue'[d]) \in {Len(queue[d]), Len(queue[d]) + Len(bs)}
             /\ pendingNotifications'[d] =
                   pendingNotifications[d] + (Len(queue'[d]) - Len(queue[d]))
             /\ \A i \in 1..Len(queue[d]) : queue'[d][i] = queue[d][i]
             /\ \A i \in (Len(queue[d]) + 1)..Len(queue'[d]) :
                   queue'[d][i] = [number |-> emitted + (i - Len(queue[d])),
                                   binding |-> bs[i - Len(queue[d])],
                                   rest |-> observers[d]]
             /\ Notified(d) => Len(queue'[d]) = Len(queue[d]) + Len(bs)
  <2>1. Len(queue[d]) \in Nat
    BY <1>3
  <2>2. CASE Notified(d)
    <3>1. queue'[d] = queue[d] \o For(d)
          /\ pendingNotifications'[d] = pendingNotifications[d] + Len(bs)
      BY <1>1, <2>2
    <3>2. ASSUME NEW i \in (Len(queue[d]) + 1)..(Len(queue[d]) + Len(bs))
          PROVE  queue'[d][i] = [number |-> emitted + (i - Len(queue[d])),
                                 binding |-> bs[i - Len(queue[d])],
                                 rest |-> observers[d]]
      <4>1. i - Len(queue[d]) \in 1..Len(bs) /\ ~(i <= Len(queue[d]))
            /\ i \in 1..(Len(queue[d]) + Len(bs))
        BY <1>2, <2>1
      <4> QED BY <1>3, <1>4, <3>1, <4>1
    <3>3. ASSUME NEW i \in 1..Len(queue[d])
          PROVE  queue'[d][i] = queue[d][i]
      BY <1>2, <1>4, <2>1, <3>1
    <3>4. /\ queue'[d] \in Seq(Notification)
          /\ Len(queue'[d]) = Len(queue[d]) + Len(bs)
      BY <1>4, <3>1
    <3>5. /\ pendingNotifications'[d] \in Nat
          /\ pendingNotifications'[d] =
               pendingNotifications[d] + (Len(queue'[d]) - Len(queue[d]))
      BY <1>2, <1>3, <2>1, <3>1, <3>4
    <3> QED BY <3>2, <3>3, <3>4, <3>5
  <2>3. CASE ~Notified(d)
    <3>1. queue'[d] = queue[d] /\ pendingNotifications'[d] = pendingNotifications[d]
      BY <1>1, <2>3
    <3>2. (Len(queue[d]) + 1)..Len(queue'[d]) = {}
      BY <2>1, <3>1
    <3>3. /\ queue'[d] \in Seq(Notification)
          /\ pendingNotifications'[d] \in Nat
          /\ pendingNotifications'[d] =
               pendingNotifications[d] + (Len(queue'[d]) - Len(queue[d]))
      BY <1>3, <2>1, <3>1
    <3> QED BY <2>3, <3>1, <3>2, <3>3
  <2> QED BY <2>2, <2>3
<1>6. queue' \in [Contexts -> Seq(Notification)] /\ pendingNotifications' \in [Contexts -> Nat]
  BY <1>1, <1>5
<1> QED BY <1>1, <1>5, <1>6 DEF Notified, Queued

(* Emit keeps the invariant: new events come last, for who is subscribed.  *)
LEMMA EmitKeepsIInv ==
  ASSUME IInv, NEW c \in Contexts, NEW bs \in Seq(Bindings), bs # <<>>, Emit(c, bs),
         registry' \in [Contexts -> SUBSET Bindings],
         UNCHANGED <<observers, hooked, closed, current, cached, waiting, heard>>
  PROVE  IInv'
<1>0. TypeOK /\ Snapshots /\ Ordered /\ Told /\ Reached /\ CachedBySubscribed /\ PendingCovers
  BY DEF IInv
<1>1. /\ emitted \in Nat /\ Len(bs) \in Nat /\ emitted' = emitted + Len(bs) /\ emitted' \in Nat
      /\ queue' \in [Contexts -> Seq(Notification)]
      /\ pendingNotifications' \in [Contexts -> Nat]
  <2>1. /\ emitted' = emitted + Len(bs) /\ queue' \in [Contexts -> Seq(Notification)]
        /\ pendingNotifications' \in [Contexts -> Nat]
    BY <1>0, Emitted
  <2>2. emitted \in Nat /\ Len(bs) \in Nat
    BY <1>0 DEF TypeOK
  <2> QED BY <2>1, <2>2
<1>2. ASSUME NEW d \in Contexts
      PROVE  \E n, m \in Nat :
             /\ n = Len(queue[d]) /\ m = Len(queue'[d]) /\ n <= m
             /\ pendingNotifications'[d] = pendingNotifications[d] + (m - n)
             /\ \A i \in 1..n : queue'[d][i] = queue[d][i]
             /\ \A i \in 1..m : i > n =>
                  /\ queue'[d][i].number = emitted + (i - n)
                  /\ queue'[d][i].number <= emitted'
                  /\ queue'[d][i].rest = observers[d]
  <2>1. Len(queue[d]) \in Nat /\ Len(queue'[d]) \in Nat
    <3>1. queue[d] \in Seq(Notification) /\ queue'[d] \in Seq(Notification)
      BY <1>0, <1>1 DEF TypeOK
    <3> QED BY <3>1
  <2>2. PICK n \in Nat, m \in Nat : n = Len(queue[d]) /\ m = Len(queue'[d])
    BY <2>1
  <2>3. /\ m \in {n, n + Len(bs)}
        /\ pendingNotifications'[d] = pendingNotifications[d] + (m - n)
        /\ \A i \in 1..n : queue'[d][i] = queue[d][i]
        /\ \A i \in (n + 1)..m :
             queue'[d][i] = [number |-> emitted + (i - n), binding |-> bs[i - n],
                             rest |-> observers[d]]
    <3>1. Queued(c, bs, d)
      BY <1>0, Emitted
    <3> QED BY <2>2, <3>1 DEF Queued
  <2>4. ASSUME NEW i \in 1..m, i > n
        PROVE  /\ queue'[d][i].number = emitted + (i - n)
               /\ queue'[d][i].number <= emitted'
               /\ queue'[d][i].rest = observers[d]
    <3>1. i \in (n + 1)..m /\ i <= n + Len(bs)
      BY <1>1, <2>3, <2>4
    <3>2. queue'[d][i] = [number |-> emitted + (i - n), binding |-> bs[i - n],
                          rest |-> observers[d]]
      BY <2>3, <3>1
    <3>3. /\ queue'[d][i].number = emitted + (i - n)
          /\ queue'[d][i].rest = observers[d]
      BY <3>2
    <3> QED BY <1>1, <3>1, <3>3
  <2>5. n <= m
    BY <1>1, <2>3
  <2> QED BY <2>2, <2>3, <2>4, <2>5
<1>3. TypeOK'
  BY <1>0, <1>1 DEF TypeOK
<1>4. Snapshots'
  <2>1. ASSUME NEW d \in Contexts, NEW i \in 1..Len(queue'[d])
        PROVE  queue'[d][i].rest \in Snapshot(d)
    <3>1. /\ observers[d] \in Snapshot(d)
          /\ \A j \in 1..Len(queue[d]) : queue[d][j].rest \in Snapshot(d)
      BY <1>0 DEF Snapshots
    <3>2. CASE i \in 1..Len(queue[d])
      BY <1>2, <3>1, <3>2
    <3>3. CASE i \notin 1..Len(queue[d])
      BY <1>2, <3>1, <3>3
    <3> QED BY <3>2, <3>3
  <2> QED BY <1>0, <2>1 DEF Snapshots, Snapshot
<1>5. Ordered'
  <2> SUFFICES ASSUME NEW d \in Contexts
               PROVE  /\ \A i, j \in 1..Len(queue'[d]) :
                           i < j => queue'[d][i].number < queue'[d][j].number
                      /\ \A i \in 1..Len(queue'[d]) : queue'[d][i].number <= emitted'
                      /\ current[d] # NULL =>
                           /\ current[d].number <= emitted'
                           /\ \A i \in 1..Len(queue'[d]) :
                                current[d].number < queue'[d][i].number
    BY DEF Ordered
  <2>0. PICK n, m \in Nat :
             /\ n = Len(queue[d]) /\ m = Len(queue'[d]) /\ n <= m
             /\ pendingNotifications'[d] = pendingNotifications[d] + (m - n)
             /\ \A i \in 1..n : queue'[d][i] = queue[d][i]
             /\ \A i \in 1..m : i > n =>
                  /\ queue'[d][i].number = emitted + (i - n)
                  /\ queue'[d][i].number <= emitted'
                  /\ queue'[d][i].rest = observers[d]
    BY <1>2, Zenon
  <2>1. /\ n = Len(queue[d]) /\ m = Len(queue'[d]) /\ n <= m
        /\ \A i \in 1..n : queue'[d][i] = queue[d][i]
        /\ \A i \in 1..m : i > n =>
             /\ queue'[d][i].number = emitted + (i - n)
             /\ queue'[d][i].number <= emitted'
    BY <2>0, Zenon
  <2>2. \A i \in 1..n : queue[d][i].number \in Nat /\ queue[d][i].number <= emitted
    <3>1. queue[d] \in Seq(Notification)
      BY <1>0 DEF TypeOK
    <3>2. \A i \in 1..n : queue[d][i] \in Notification
      BY <2>1, <3>1
    <3> QED BY <1>0, <2>1, <3>2 DEF Ordered, Notification
  <2>3. ASSUME NEW i \in 1..m
        PROVE  queue'[d][i].number <= emitted'
    <3>1. CASE i <= n
      <4>1. i \in 1..n
        BY <3>1
      <4>2. queue'[d][i].number \in Nat /\ queue'[d][i].number <= emitted
        BY <2>1, <2>2, <4>1
      <4> QED BY <1>1, <4>2
    <3>2. CASE i > n
      BY <2>1, <3>2
    <3> QED BY <3>1, <3>2
  <2>4. ASSUME NEW i \in 1..m, NEW j \in 1..m, i < j
        PROVE  queue'[d][i].number < queue'[d][j].number
    <3>1. CASE j <= n
      <4>1. i \in 1..n /\ j \in 1..n
        BY <2>4, <3>1
      <4>2. queue[d][i].number < queue[d][j].number
        BY <1>0, <2>1, <2>4, <4>1 DEF Ordered
      <4> QED BY <2>1, <4>1, <4>2
    <3>2. CASE i <= n /\ j > n
      <4>1. i \in 1..n
        BY <3>2
      <4>2. queue'[d][i].number \in Nat /\ queue'[d][i].number <= emitted
        BY <2>1, <2>2, <4>1
      <4>3. queue'[d][j].number = emitted + (j - n)
        BY <2>1, <3>2
      <4> QED BY <1>1, <3>2, <4>2, <4>3
    <3>3. CASE i > n
      <4>1. j > n
        BY <2>4, <3>3
      <4>2. /\ queue'[d][i].number = emitted + (i - n)
            /\ queue'[d][j].number = emitted + (j - n)
        BY <2>1, <3>3, <4>1
      <4> QED BY <1>1, <2>4, <4>2
    <3> QED BY <3>1, <3>2, <3>3
  <2>5. ASSUME current[d] # NULL
        PROVE  /\ current[d].number <= emitted'
               /\ \A i \in 1..m : current[d].number < queue'[d][i].number
    <3>1. current[d] \in Notification
      BY <1>0, <2>5 DEF TypeOK
    <3>2. current[d].number \in Nat
      BY <3>1 DEF Notification
    <3>3. /\ current[d].number <= emitted
          /\ \A i \in 1..n : current[d].number < queue[d][i].number
      BY <1>0, <2>1, <2>5 DEF Ordered
    <3>4. ASSUME NEW i \in 1..m
          PROVE  current[d].number < queue'[d][i].number
      <4>1. CASE i <= n
        BY <2>1, <3>3, <4>1
      <4>2. CASE i > n
        <5>1. queue'[d][i].number = emitted + (i - n)
          BY <2>1, <4>2
        <5> QED BY <1>1, <3>2, <3>3, <4>2, <5>1
      <4> QED BY <4>1, <4>2
    <3> QED BY <1>1, <3>2, <3>3, <3>4
  <2> QED BY <2>1, <2>3, <2>4, <2>5
<1>6. Told'
  <2> SUFFICES ASSUME NEW o \in Observers, NEW k \in 1..Len(heard[o])
               PROVE  /\ heard[o][k] <= emitted'
                      /\ \A i \in 1..Len(queue'[Home[o]]) : heard[o][k] < queue'[Home[o]][i].number
                      /\ current[Home[o]] # NULL =>
                           /\ heard[o][k] <= current[Home[o]].number
                           /\ o \in ToSet(current[Home[o]].rest)
                                => heard[o][k] < current[Home[o]].number
    BY DEF Told
  <2>1. Home[o] \in Contexts
    BY HierarchyAssumption
  <2>2. heard[o][k] \in Nat
    <3>1. heard[o] \in Seq(Nat \ {0})
      BY <1>0 DEF TypeOK
    <3> QED BY <3>1
  <2>3. /\ heard[o][k] <= emitted
        /\ \A i \in 1..Len(queue[Home[o]]) : heard[o][k] < queue[Home[o]][i].number
        /\ current[Home[o]] # NULL =>
              /\ heard[o][k] <= current[Home[o]].number
              /\ o \in ToSet(current[Home[o]].rest) => heard[o][k] < current[Home[o]].number
    BY <1>0 DEF Told
  <2>4. ASSUME NEW i \in 1..Len(queue'[Home[o]])
        PROVE  heard[o][k] < queue'[Home[o]][i].number
    <3>1. PICK n \in Nat, m \in Nat :
             /\ n = Len(queue[Home[o]]) /\ m = Len(queue'[Home[o]])
             /\ \A j \in 1..n : queue'[Home[o]][j] = queue[Home[o]][j]
             /\ \A j \in 1..m : j > n => queue'[Home[o]][j].number = emitted + (j - n)
      BY <1>2, <2>1
    <3>2. CASE i <= n
      BY <2>3, <3>1, <3>2
    <3>3. CASE i > n
      <4>1. queue'[Home[o]][i].number = emitted + (i - n)
        BY <3>1, <3>3
      <4>2. i \in Nat /\ n \in Nat /\ i > n
        BY <3>1, <3>3
      <4> QED BY <1>1, <2>2, <2>3, <4>1, <4>2
    <3> QED BY <3>1, <3>2, <3>3
  <2>5. heard[o][k] <= emitted'
    BY <1>1, <2>2, <2>3
  <2> QED BY <2>3, <2>4, <2>5
<1>7. Reached' /\ CachedBySubscribed'
  BY <1>0 DEF Reached, CachedBySubscribed, Subscribed
<1>8. PendingCovers'
  <2> SUFFICES ASSUME NEW d \in Contexts
               PROVE  pendingNotifications'[d] >= Outstanding(d)'
    BY DEF PendingCovers
  <2>1. pendingNotifications[d] \in Nat /\ pendingNotifications[d] >= Outstanding(d)
    BY <1>0 DEF TypeOK, PendingCovers
  <2>2. PICK n \in Nat, m \in Nat :
             /\ n = Len(queue[d]) /\ m = Len(queue'[d])
             /\ pendingNotifications'[d] = pendingNotifications[d] + (m - n)
    BY <1>2
  <2>3. pendingNotifications'[d] = pendingNotifications[d] + (m - n)
        /\ pendingNotifications[d] \in Nat
    BY <2>1, <2>2
  <2>4. CASE current[d] = NULL
    <3>1. Outstanding(d) = n + 0 /\ Outstanding(d)' = m + 0
      BY <2>2, <2>4 DEF Outstanding
    <3>2. pendingNotifications[d] >= n + 0
      BY <2>1, <3>1
    <3>3. pendingNotifications'[d] >= m + 0
      BY <2>3, <3>2
    <3> QED BY <3>1, <3>3
  <2>5. CASE current[d] # NULL
    <3>1. Outstanding(d) = n + 1 /\ Outstanding(d)' = m + 1
      BY <2>2, <2>5 DEF Outstanding
    <3>2. pendingNotifications[d] >= n + 1
      BY <2>1, <3>1
    <3>3. pendingNotifications'[d] >= m + 1
      BY <2>3, <3>2
    <3> QED BY <3>1, <3>3
  <2> QED BY <2>4, <2>5
<1> QED BY <1>3, <1>4, <1>5, <1>6, <1>7, <1>8 DEF IInv

LEMMA AddKeepsIInv ==
  ASSUME IInv, NEW c \in Contexts, NEW b \in Bindings, Add(c, b)
  PROVE  IInv'
<1> DEFINE old == {a \in registry[c] : KeyOf[a] = KeyOf[b]}
           bs == IF old = {} THEN <<b>> ELSE <<CHOOSE a \in old : TRUE, b>>
<1>1. registry \in [Contexts -> SUBSET Bindings]
  BY DEF IInv, TypeOK
<1>2. old \subseteq Bindings /\ bs \in Seq(Bindings) /\ bs # <<>>
  <2>1. old \subseteq Bindings
    BY <1>1
  <2>2. CASE old = {}
    BY <2>1, <2>2
  <2>3. CASE old # {}
    <3>1. (CHOOSE a \in old : TRUE) \in Bindings
      BY <2>1, <2>3
    <3> HIDE DEF old
    <3> QED BY <2>1, <2>3, <3>1
  <2> QED BY <2>2, <2>3
<1>3. /\ registry' = [registry EXCEPT ![c] = (@ \ old) \cup {b}]
      /\ Emit(c, bs)
      /\ UNCHANGED <<observers, hooked, closed, current, cached, waiting, heard>>
  BY DEF Add
<1> HIDE DEF old, bs
<1>4. registry' \in [Contexts -> SUBSET Bindings]
  BY <1>1, <1>3
<1> QED BY <1>2, <1>3, <1>4, EmitKeepsIInv

LEMMA UnbindKeepsIInv ==
  ASSUME IInv, NEW c \in Contexts, NEW b \in Bindings, Unbind(c, b)
  PROVE  IInv'
<1>1. registry' \in [Contexts -> SUBSET Bindings]
  BY DEF IInv, TypeOK, Unbind
<1>2. <<b>> \in Seq(Bindings) /\ <<b>> # <<>>
  OBVIOUS
<1> QED BY <1>1, <1>2, EmitKeepsIInv DEF Unbind

LEMMA SubscribeKeepsIInv ==
  ASSUME IInv, NEW o \in Observers, Subscribe(o)
  PROVE  IInv'
<1> DEFINE c == Home[o]
<1>0. TypeOK /\ Snapshots /\ Ordered /\ Told /\ Reached /\ CachedBySubscribed /\ PendingCovers
  BY DEF IInv
<1>1. /\ c \in Contexts /\ c \notin closed /\ o \notin ToSet(observers[c])
      /\ observers' = [observers EXCEPT ![c] = Append(@, o)]
      /\ hooked' = [d \in Contexts |-> hooked[d] \/ d \in {c} \cup Ancestors[c]]
      /\ UNCHANGED <<registry, closed, queue, current, pendingNotifications,
                     cached, waiting, heard, emitted>>
  BY HierarchyAssumption DEF Subscribe
<1> HIDE DEF c
<1>2. observers \in [Contexts -> Seq(Observers)] /\ observers[c] \in Snapshot(c)
  BY <1>0, <1>1 DEF TypeOK, Snapshots
<1>3. /\ Append(observers[c], o) \in Seq(Observers)
      /\ ToSet(Append(observers[c], o)) = ToSet(observers[c]) \cup {o}
      /\ IsInjective(Append(observers[c], o))
  BY <1>1, <1>2, AppendAdds DEF Snapshot
<1>4. /\ observers'[c] = Append(observers[c], o)
      /\ observers' \in [Contexts -> Seq(Observers)]
      /\ \A d \in Contexts : d # c => observers'[d] = observers[d]
  BY <1>1, <1>2, <1>3
<1>5. \A d \in Contexts : ToSet(observers'[d]) \subseteq {p \in Observers : Home[p] = d}
  <2> SUFFICES ASSUME NEW d \in Contexts
               PROVE  ToSet(observers'[d]) \subseteq {p \in Observers : Home[p] = d}
    OBVIOUS
  <2>1. ToSet(observers[d]) \subseteq {p \in Observers : Home[p] = d}
    BY <1>0 DEF TypeOK
  <2>2. CASE d = c
    BY <1>3, <1>4, <2>1, <2>2 DEF c
  <2>3. CASE d # c
    BY <1>4, <2>1, <2>3
  <2> QED BY <2>2, <2>3
<1>6. TypeOK'
  <2>1. hooked' \in [Contexts -> BOOLEAN]
    <3>1. \A d \in Contexts : (hooked[d] \/ d \in {c} \cup Ancestors[c]) \in BOOLEAN
      OBVIOUS
    <3> QED BY <1>1, <3>1, Zenon
  <2> QED BY <1>0, <1>1, <1>4, <1>5, <2>1 DEF TypeOK
<1>7. Snapshots'
  <2>1. ASSUME NEW d \in Contexts
        PROVE  observers'[d] \in Snapshot(d)
    <3>1. CASE d = c
      BY <1>3, <1>4, <1>5, <3>1 DEF Snapshot
    <3>2. CASE d # c
      BY <1>0, <1>4, <3>2 DEF Snapshots
    <3> QED BY <3>1, <3>2
  <2> QED BY <1>0, <1>1, <2>1 DEF Snapshots, Snapshot
<1>8. Ordered' /\ Told' /\ PendingCovers'
  BY <1>0, <1>1 DEF Ordered, Told, PendingCovers, Outstanding
<1>9. \A p \in Observers : (p \in ToSet(observers'[Home[p]]) <=> p \in ToSet(observers[Home[p]]) \/ p = o)
  <2> SUFFICES ASSUME NEW p \in Observers
               PROVE  p \in ToSet(observers'[Home[p]]) <=> p \in ToSet(observers[Home[p]]) \/ p = o
    OBVIOUS
  <2>1. Home[p] \in Contexts
    BY HierarchyAssumption
  <2>2. CASE Home[p] = c
    BY <1>3, <1>4, <2>2
  <2>3. CASE Home[p] # c
    BY <1>4, <2>1, <2>3 DEF c
  <2> QED BY <2>2, <2>3
<1>10. Reached'
  <2> SUFFICES ASSUME NEW p \in Observers, p \in ToSet(observers'[Home[p]])
               PROVE  /\ Home[p] \notin closed
                      /\ \A x \in {Home[p]} \cup Ancestors[Home[p]] : hooked'[x]
    BY <1>1 DEF Reached, Subscribed
  <2>1. {Home[p]} \cup Ancestors[Home[p]] \subseteq Contexts
    BY HierarchyAssumption
  <2>2. CASE p = o
    BY <1>1, <2>1, <2>2 DEF c
  <2>3. CASE p # o
    <3>1. Subscribed(p)
      BY <1>9, <2>3 DEF Subscribed
    <3> QED BY <1>0, <1>1, <2>1, <3>1 DEF Reached
  <2> QED BY <2>2, <2>3
<1>11. CachedBySubscribed'
  BY <1>0, <1>1, <1>9 DEF CachedBySubscribed, Subscribed, Observers
<1> QED BY <1>6, <1>7, <1>8, <1>10, <1>11 DEF IInv

LEMMA UnsubscribeKeepsIInv ==
  ASSUME IInv, NEW o \in Observers, Unsubscribe(o)
  PROVE  IInv'
<1> DEFINE c == Home[o]
<1>0. TypeOK /\ Snapshots /\ Ordered /\ Told /\ Reached /\ CachedBySubscribed /\ PendingCovers
  BY DEF IInv
<1>1. /\ c \in Contexts /\ o \in ToSet(observers[c])
      /\ observers' = [observers EXCEPT ![c] = RemoveFirst(@, o)]
      /\ closed' = closed \cup {o}
      /\ UNCHANGED <<registry, hooked, queue, current,
                     pendingNotifications, cached, waiting, heard, emitted>>
  BY HierarchyAssumption DEF Unsubscribe
<1> HIDE DEF c
<1>2. observers \in [Contexts -> Seq(Observers)] /\ observers[c] \in Snapshot(c)
  BY <1>0, <1>1 DEF TypeOK, Snapshots
<1>3. /\ RemoveFirst(observers[c], o) \in Seq(Observers)
      /\ ToSet(RemoveFirst(observers[c], o)) = ToSet(observers[c]) \ {o}
      /\ IsInjective(RemoveFirst(observers[c], o))
  BY <1>1, <1>2, RemoveFirstRemoves DEF Snapshot
<1>4. /\ observers'[c] = RemoveFirst(observers[c], o)
      /\ observers' \in [Contexts -> Seq(Observers)]
      /\ \A d \in Contexts : d # c => observers'[d] = observers[d]
  BY <1>1, <1>2, <1>3
<1>5. \A d \in Contexts : ToSet(observers'[d]) \subseteq ToSet(observers[d])
  BY <1>3, <1>4
<1>6. TypeOK'
  BY <1>0, <1>1, <1>4, <1>5 DEF TypeOK
<1>7. Snapshots'
  <2>1. ASSUME NEW d \in Contexts
        PROVE  observers'[d] \in Snapshot(d)
    <3>1. CASE d = c
      BY <1>2, <1>3, <1>4, <3>1 DEF Snapshot
    <3>2. CASE d # c
      BY <1>0, <1>4, <3>2 DEF Snapshots
    <3> QED BY <3>1, <3>2
  <2> QED BY <1>0, <1>1, <2>1 DEF Snapshots, Snapshot
<1>8. Ordered' /\ Told' /\ PendingCovers'
  BY <1>0, <1>1 DEF Ordered, Told, PendingCovers, Outstanding
<1>9. \A p \in Observers : (p \in ToSet(observers'[Home[p]]) <=> p \in ToSet(observers[Home[p]]) /\ p # o)
  <2> SUFFICES ASSUME NEW p \in Observers
               PROVE  p \in ToSet(observers'[Home[p]]) <=> p \in ToSet(observers[Home[p]]) /\ p # o
    OBVIOUS
  <2>1. Home[p] \in Contexts
    BY HierarchyAssumption
  <2>2. CASE Home[p] = c
    BY <1>3, <1>4, <2>2
  <2>3. CASE Home[p] # c
    BY <1>4, <2>1, <2>3 DEF c
  <2> QED BY <2>2, <2>3
<1>10. Reached'
  <2> SUFFICES ASSUME NEW p \in Observers, p \in ToSet(observers'[Home[p]])
               PROVE  /\ Home[p] \notin closed'
                      /\ \A x \in {Home[p]} \cup Ancestors[Home[p]] : hooked[x]
    BY <1>1 DEF Reached, Subscribed
  <2>1. Subscribed(p)
    BY <1>9 DEF Subscribed
  <2>2. Home[p] # o
    BY HierarchyAssumption
  <2> QED BY <1>0, <1>1, <2>1, <2>2 DEF Reached
<1>11. CachedBySubscribed'
  BY <1>0, <1>1, <1>9 DEF CachedBySubscribed, Subscribed, Observers
<1> QED BY <1>6, <1>7, <1>8, <1>10, <1>11 DEF IInv

LEMMA CloseKeepsIInv ==
  ASSUME IInv, NEW c \in Contexts, Close(c)
  PROVE  IInv'
<1>0. TypeOK /\ Snapshots /\ Ordered /\ Told /\ Reached /\ CachedBySubscribed /\ PendingCovers
  BY DEF IInv
<1>1. PICK n \in 0..Len(queue[c]) : queue' = [queue EXCEPT ![c] = SubSeq(@, 1, n)]
  BY DEF Close
<1>2. /\ \A d \in Contexts : c \notin Ancestors[d]
      /\ closed' = closed \cup {c}
      /\ observers' = [observers EXCEPT ![c] = <<>>]
      /\ hooked' = [hooked EXCEPT ![c] = FALSE]
      /\ UNCHANGED <<registry, current, pendingNotifications, cached, waiting, heard, emitted>>
  BY DEF Close
<1>3. /\ queue \in [Contexts -> Seq(Notification)] /\ observers \in [Contexts -> Seq(Observers)]
      /\ hooked \in [Contexts -> BOOLEAN] /\ pendingNotifications \in [Contexts -> Nat]
  BY <1>0 DEF TypeOK
<1>4. /\ SubSeq(queue[c], 1, n) \in Seq(Notification) /\ Len(SubSeq(queue[c], 1, n)) = n
      /\ \A i \in 1..n : SubSeq(queue[c], 1, n)[i] = queue[c][i]
  BY <1>3, UpToPosition
<1>5. /\ queue' \in [Contexts -> Seq(Notification)]
      /\ \A d \in Contexts : d # c => queue'[d] = queue[d]
      /\ Len(queue'[c]) = n /\ \A i \in 1..n : queue'[c][i] = queue[c][i]
  BY <1>1, <1>3, <1>4
<1>6. \A d \in Contexts :
        /\ Len(queue[d]) \in Nat /\ Len(queue'[d]) \in Nat /\ Len(queue'[d]) <= Len(queue[d])
        /\ \A i \in 1..Len(queue'[d]) : i \in 1..Len(queue[d]) /\ queue'[d][i] = queue[d][i]
  <2> SUFFICES ASSUME NEW d \in Contexts
               PROVE  /\ Len(queue[d]) \in Nat /\ Len(queue'[d]) \in Nat
                      /\ Len(queue'[d]) <= Len(queue[d])
                      /\ \A i \in 1..Len(queue'[d]) :
                           i \in 1..Len(queue[d]) /\ queue'[d][i] = queue[d][i]
    OBVIOUS
  <2>1. Len(queue[d]) \in Nat
    BY <1>3
  <2>2. CASE d = c
    BY <1>5, <2>1, <2>2
  <2>3. CASE d # c
    BY <1>5, <2>1, <2>3
  <2> QED BY <2>2, <2>3
<1>7. /\ observers' \in [Contexts -> Seq(Observers)] /\ observers'[c] = <<>>
      /\ \A d \in Contexts : d # c => observers'[d] = observers[d]
  BY <1>2, <1>3
<1>8. TypeOK'
  <2>1. \A d \in Contexts : ToSet(observers'[d]) \subseteq ToSet(observers[d])
    BY <1>7 DEF ToSet
  <2> QED BY <1>0, <1>2, <1>3, <1>5, <1>7, <2>1 DEF TypeOK
<1>9. Snapshots'
  <2>1. \A d \in Contexts : observers'[d] \in Snapshot(d)
    <3>1. <<>> \in Snapshot(c)
      BY DEF Snapshot, IsInjective, ToSet
    <3> QED BY <1>0, <1>7, <3>1 DEF Snapshots
  <2>2. \A d \in Contexts : \A i \in 1..Len(queue'[d]) : queue'[d][i].rest \in Snapshot(d)
    BY <1>0, <1>6 DEF Snapshots
  <2>3. \A d \in Contexts : current'[d] # NULL => current'[d].rest \in Snapshot(d)
    BY <1>0, <1>2 DEF Snapshots
  <2> QED BY <2>1, <2>2, <2>3 DEF Snapshots, Snapshot
<1>10. Ordered'
  BY <1>0, <1>2, <1>6 DEF Ordered
<1>11. Told'
  <2>1. \A o \in Observers : Home[o] \in Contexts
    BY HierarchyAssumption
  <2> QED BY <1>0, <1>2, <1>6, <2>1 DEF Told
<1>12. Reached'
  <2> SUFFICES ASSUME NEW p \in Observers, p \in ToSet(observers'[Home[p]])
               PROVE  /\ Home[p] \notin closed'
                      /\ \A x \in {Home[p]} \cup Ancestors[Home[p]] : hooked'[x]
    BY DEF Reached, Subscribed
  <2>1. Home[p] \in Contexts /\ {Home[p]} \cup Ancestors[Home[p]] \subseteq Contexts
    BY HierarchyAssumption
  <2>2. Home[p] # c
    BY <1>7 DEF ToSet
  <2>3. Subscribed(p)
    BY <1>7, <2>1, <2>2 DEF Subscribed
  <2>4. /\ Home[p] \notin closed
        /\ \A x \in {Home[p]} \cup Ancestors[Home[p]] : hooked[x]
    BY <1>0, <2>3 DEF Reached
  <2>5. c \notin {Home[p]} \cup Ancestors[Home[p]]
    BY <1>2, <2>1, <2>2
  <2>6. \A x \in Contexts : x # c => hooked'[x] = hooked[x]
    BY <1>2, <1>3
  <2>7. \A x \in {Home[p]} \cup Ancestors[Home[p]] : hooked'[x]
    BY <2>1, <2>4, <2>5, <2>6
  <2> QED BY <1>2, <2>2, <2>4, <2>7
<1>13. CachedBySubscribed'
  <2>1. \A v \in Views : Home[v] \in Contexts
    BY HierarchyAssumption DEF Observers
  <2> QED BY <1>0, <1>2, <1>7, <2>1 DEF CachedBySubscribed, Subscribed
<1>14. PendingCovers'
  <2> SUFFICES ASSUME NEW d \in Contexts
               PROVE  pendingNotifications'[d] >= Outstanding(d)'
    BY DEF PendingCovers
  <2>1. pendingNotifications[d] \in Nat /\ pendingNotifications[d] >= Outstanding(d)
    BY <1>0, <1>3 DEF PendingCovers
  <2>2. Outstanding(d)' <= Outstanding(d) /\ Outstanding(d) \in Nat /\ Outstanding(d)' \in Nat
    <3>1. /\ Len(queue[d]) \in Nat /\ Len(queue'[d]) \in Nat
          /\ Len(queue'[d]) <= Len(queue[d])
      BY <1>6
    <3>2. CASE current[d] = NULL
      <4>1. Outstanding(d) = Len(queue[d]) + 0 /\ Outstanding(d)' = Len(queue'[d]) + 0
        BY <1>2, <3>2 DEF Outstanding
      <4> QED BY <3>1, <4>1
    <3>3. CASE current[d] # NULL
      <4>1. Outstanding(d) = Len(queue[d]) + 1 /\ Outstanding(d)' = Len(queue'[d]) + 1
        BY <1>2, <3>3 DEF Outstanding
      <4> QED BY <3>1, <4>1
    <3> QED BY <3>2, <3>3
  <2>3. pendingNotifications'[d] = pendingNotifications[d]
    BY <1>2
  <2> QED BY <2>1, <2>2, <2>3
<1> QED BY <1>8, <1>9, <1>10, <1>11, <1>12, <1>13, <1>14 DEF IInv

LEMMA TakeKeepsIInv ==
  ASSUME IInv, NEW c \in Contexts, Take(c)
  PROVE  IInv'
<1>0. TypeOK /\ Snapshots /\ Ordered /\ Told /\ Reached /\ CachedBySubscribed /\ PendingCovers
  BY DEF IInv
<1>1. /\ current[c] = NULL /\ queue[c] # <<>>
      /\ current' = [current EXCEPT ![c] = Head(queue[c])]
      /\ queue' = [queue EXCEPT ![c] = Tail(@)]
      /\ UNCHANGED <<registry, observers, hooked, closed, pendingNotifications,
                     cached, waiting, heard, emitted>>
  BY DEF Take
<1>2. /\ queue \in [Contexts -> Seq(Notification)]
      /\ current \in [Contexts -> Notification \cup {NULL}]
      /\ pendingNotifications \in [Contexts -> Nat]
  BY <1>0 DEF TypeOK
<1>3. /\ Head(queue[c]) = queue[c][1] /\ Head(queue[c]) \in Notification
      /\ Tail(queue[c]) \in Seq(Notification)
      /\ Len(queue[c]) \in Nat \ {0} /\ Len(Tail(queue[c])) = Len(queue[c]) - 1
      /\ \A i \in 1..(Len(queue[c]) - 1) : Tail(queue[c])[i] = queue[c][i + 1]
  BY <1>1, <1>2
<1>4. /\ queue' \in [Contexts -> Seq(Notification)]
      /\ current' \in [Contexts -> Notification \cup {NULL}]
      /\ \A d \in Contexts : d # c => queue'[d] = queue[d] /\ current'[d] = current[d]
      /\ current'[c] = queue[c][1]
      /\ Len(queue'[c]) = Len(queue[c]) - 1
      /\ \A i \in 1..(Len(queue[c]) - 1) : queue'[c][i] = queue[c][i + 1]
  BY <1>1, <1>2, <1>3
<1>5. PICK n \in Nat \ {0} : n = Len(queue[c])
  BY <1>3
<1>6. /\ Len(queue'[c]) = n - 1 /\ 1 \in 1..n
      /\ \A i \in 1..(n - 1) : i + 1 \in 1..n /\ queue'[c][i] = queue[c][i + 1]
  BY <1>4, <1>5
<1>7. TypeOK'
  BY <1>0, <1>1, <1>4 DEF TypeOK
<1>8. Snapshots'
  <2>1. /\ \A i \in 1..n : queue[c][i].rest \in Snapshot(c)
    BY <1>0, <1>5 DEF Snapshots
  <2>2. \A d \in Contexts : current'[d] # NULL => current'[d].rest \in Snapshot(d)
    BY <1>0, <1>4, <1>6, <2>1 DEF Snapshots
  <2>3. \A d \in Contexts : \A i \in 1..Len(queue'[d]) : queue'[d][i].rest \in Snapshot(d)
    <3>1. \A i \in 1..Len(queue'[c]) : queue'[c][i].rest \in Snapshot(c)
      BY <1>6, <2>1
    <3> QED BY <1>0, <1>4, <3>1 DEF Snapshots
  <2> QED BY <1>0, <1>1, <2>2, <2>3 DEF Snapshots, Snapshot
<1>9. /\ \A i, j \in 1..n : i < j => queue[c][i].number < queue[c][j].number
      /\ \A i \in 1..n : queue[c][i].number <= emitted
  BY <1>0, <1>5 DEF Ordered
<1>10. Ordered'
  <2> SUFFICES ASSUME NEW d \in Contexts
               PROVE  /\ \A i, j \in 1..Len(queue'[d]) :
                           i < j => queue'[d][i].number < queue'[d][j].number
                      /\ \A i \in 1..Len(queue'[d]) : queue'[d][i].number <= emitted
                      /\ current'[d] # NULL =>
                           /\ current'[d].number <= emitted
                           /\ \A i \in 1..Len(queue'[d]) :
                                current'[d].number < queue'[d][i].number
    BY <1>1 DEF Ordered
  <2>1. CASE d = c
    <3>1. ASSUME NEW i \in 1..(n - 1), NEW j \in 1..(n - 1), i < j
          PROVE  queue'[c][i].number < queue'[c][j].number
      <4>1. i + 1 \in 1..n /\ j + 1 \in 1..n /\ i + 1 < j + 1
        BY <3>1
      <4>2. queue[c][i + 1].number < queue[c][j + 1].number
        BY <1>9, <4>1
      <4> QED BY <1>6, <4>2
    <3>2. \A i \in 1..(n - 1) : queue'[c][i].number <= emitted
      BY <1>6, <1>9
    <3>3. current'[c].number <= emitted
      BY <1>4, <1>6, <1>9
    <3>4. ASSUME NEW i \in 1..(n - 1)
          PROVE  current'[c].number < queue'[c][i].number
      <4>1. 1 \in 1..n /\ i + 1 \in 1..n /\ 1 < i + 1
        OBVIOUS
      <4>2. queue[c][1].number < queue[c][i + 1].number
        BY <1>9, <4>1
      <4> QED BY <1>4, <1>6, <4>2
    <3> QED BY <1>6, <2>1, <3>1, <3>2, <3>3, <3>4
  <2>2. CASE d # c
    BY <1>0, <1>4, <2>2 DEF Ordered
  <2> QED BY <2>1, <2>2
<1>11. Told'
  <2> SUFFICES ASSUME NEW o \in Observers, NEW k \in 1..Len(heard[o])
               PROVE  /\ heard[o][k] <= emitted
                      /\ \A i \in 1..Len(queue'[Home[o]]) : heard[o][k] < queue'[Home[o]][i].number
                      /\ current'[Home[o]] # NULL =>
                           /\ heard[o][k] <= current'[Home[o]].number
                           /\ o \in ToSet(current'[Home[o]].rest)
                                => heard[o][k] < current'[Home[o]].number
    BY <1>1 DEF Told
  <2>1. Home[o] \in Contexts
    BY HierarchyAssumption
  <2>2. /\ heard[o][k] <= emitted
        /\ \A i \in 1..Len(queue[Home[o]]) : heard[o][k] < queue[Home[o]][i].number
    BY <1>0 DEF Told
  <2>3. CASE Home[o] = c
    <3>1. \A i \in 1..n : heard[o][k] < queue[c][i].number
      BY <1>5, <2>2, <2>3
    <3>2. heard[o][k] < current'[c].number
      BY <1>4, <1>6, <3>1
    <3>3. \A i \in 1..(n - 1) : heard[o][k] < queue'[c][i].number
      BY <1>6, <3>1
    <3>4. heard[o][k] \in Nat /\ current'[c].number \in Nat
      <4>1. heard[o] \in Seq(Nat \ {0}) /\ current'[c] \in Notification
        BY <1>0, <1>1, <1>3 DEF TypeOK
      <4> QED BY <4>1 DEF Notification
    <3>5. heard[o][k] <= current'[c].number
      BY <3>2, <3>4
    <3> QED BY <1>6, <2>2, <2>3, <3>2, <3>3, <3>5
  <2>4. CASE Home[o] # c
    BY <1>0, <1>4, <2>1, <2>4 DEF Told
  <2> QED BY <2>3, <2>4
<1>12. Reached' /\ CachedBySubscribed'
  BY <1>0, <1>1 DEF Reached, CachedBySubscribed, Subscribed
<1>13. PendingCovers'
  <2> SUFFICES ASSUME NEW d \in Contexts
               PROVE  pendingNotifications'[d] >= Outstanding(d)'
    BY DEF PendingCovers
  <2>1. pendingNotifications[d] >= Outstanding(d)
    BY <1>0 DEF PendingCovers
  <2>2. CASE d = c
    <3>1. Outstanding(c) = n
      BY <1>1, <1>5 DEF Outstanding
    <3>2. Outstanding(c)' \in {n - 1, n}
      BY <1>6 DEF Outstanding
    <3>3. pendingNotifications[c] \in Nat /\ pendingNotifications'[c] = pendingNotifications[c]
      BY <1>1, <1>2
    <3>4. pendingNotifications[c] >= n
      BY <2>1, <2>2, <3>1
    <3>5. pendingNotifications'[c] >= n - 1 /\ pendingNotifications'[c] >= n
      BY <3>3, <3>4
    <3> QED BY <2>2, <3>2, <3>5
  <2>3. CASE d # c
    BY <1>1, <1>4, <2>1, <2>3 DEF Outstanding
  <2> QED BY <2>2, <2>3
<1> QED BY <1>7, <1>8, <1>10, <1>11, <1>12, <1>13 DEF IInv

(* Telling an observer of the current event keeps the order of events.     *)
LEMMA TellKeepsTold ==
  ASSUME IInv, NEW c \in Contexts, current[c] # NULL,
         NEW k \in DOMAIN current[c].rest, Tell(current[c].rest[k], c),
         UNCHANGED <<queue, emitted>>,
         \A d \in Contexts : d # c => current'[d] = current[d],
         \/ current'[c] = NULL
         \/ /\ current'[c].number = current[c].number
            /\ ToSet(current'[c].rest) \subseteq ToSet(current[c].rest) \ {current[c].rest[k]}
  PROVE  Told' /\ heard' \in [Observers -> Seq(Nat \ {0})]
<1> DEFINE o == current[c].rest[k]
           n == current[c].number
<1>1. /\ current[c] \in Notification /\ current[c].rest \in Snapshot(c)
      /\ heard \in [Observers -> Seq(Nat \ {0})]
  BY DEF IInv, TypeOK, Snapshots
<1>2. /\ o \in Observers /\ o \in ToSet(current[c].rest) /\ Home[o] = c
  <2>1. /\ current[c].rest \in Seq(Observers)
        /\ \A x \in ToSet(current[c].rest) : Home[x] = c
    BY <1>1 DEF Snapshot
  <2>2. o \in ToSet(current[c].rest)
    BY DEF ToSet
  <2> QED BY <2>1, <2>2
<1>3. n \in Nat \ {0}
  BY <1>1 DEF Notification
<1>4. heard' = [heard EXCEPT ![o] = Append(@, n)]
  BY DEF Tell
<1> HIDE DEF o, n
<1>5. /\ heard[o] \in Seq(Nat \ {0}) /\ Append(heard[o], n) \in Seq(Nat \ {0})
      /\ Len(Append(heard[o], n)) = Len(heard[o]) + 1 /\ Len(heard[o]) \in Nat
      /\ \A j \in 1..Len(heard[o]) : Append(heard[o], n)[j] = heard[o][j]
      /\ Append(heard[o], n)[Len(heard[o]) + 1] = n
  <2>1. heard[o] \in Seq(Nat \ {0})
    BY <1>1, <1>2
  <2> QED BY <1>3, <2>1, AppendProperties
<1>6. /\ heard' \in [Observers -> Seq(Nat \ {0})]
      /\ heard'[o] = Append(heard[o], n)
      /\ \A p \in Observers : p # o => heard'[p] = heard[p]
  BY <1>1, <1>2, <1>4, <1>5
<1>7. /\ n <= emitted /\ \A i \in 1..Len(queue[c]) : n < queue[c][i].number
  BY DEF IInv, Ordered, n
<1>8. ASSUME NEW p \in Observers, NEW j \in 1..Len(heard[p])
      PROVE  /\ heard[p][j] \in Nat /\ heard[p][j] <= emitted
             /\ \A i \in 1..Len(queue[Home[p]]) : heard[p][j] < queue[Home[p]][i].number
             /\ current'[Home[p]] # NULL =>
                  /\ heard[p][j] <= current'[Home[p]].number
                  /\ p \in ToSet(current'[Home[p]].rest) => heard[p][j] < current'[Home[p]].number
  <2>1. Home[p] \in Contexts
    BY HierarchyAssumption
  <2>2. heard[p][j] \in Nat
    <3>1. heard[p] \in Seq(Nat \ {0})
      BY <1>1
    <3> QED BY <3>1
  <2>3. /\ heard[p][j] <= emitted
        /\ \A i \in 1..Len(queue[Home[p]]) : heard[p][j] < queue[Home[p]][i].number
        /\ current[Home[p]] # NULL =>
             /\ heard[p][j] <= current[Home[p]].number
             /\ p \in ToSet(current[Home[p]].rest) => heard[p][j] < current[Home[p]].number
    BY DEF IInv, Told
  <2>4. current'[Home[p]] # NULL =>
             /\ heard[p][j] <= current'[Home[p]].number
             /\ p \in ToSet(current'[Home[p]].rest) => heard[p][j] < current'[Home[p]].number
    BY <2>1, <2>3
  <2> QED BY <2>2, <2>3, <2>4
<1>9. Told'
  <2> SUFFICES ASSUME NEW p \in Observers, NEW j \in 1..Len(heard'[p])
               PROVE  /\ heard'[p][j] <= emitted
                      /\ \A i \in 1..Len(queue[Home[p]]) : heard'[p][j] < queue[Home[p]][i].number
                      /\ current'[Home[p]] # NULL =>
                           /\ heard'[p][j] <= current'[Home[p]].number
                           /\ p \in ToSet(current'[Home[p]].rest)
                                => heard'[p][j] < current'[Home[p]].number
    BY DEF Told
  <2>1. CASE p # o \/ j \in 1..Len(heard[p])
    <3>1. j \in 1..Len(heard[p]) /\ heard'[p][j] = heard[p][j]
      BY <1>5, <1>6, <2>1
    <3> QED BY <1>8, <3>1
  <2>2. CASE p = o /\ j \notin 1..Len(heard[p])
    <3>1. j = Len(heard[o]) + 1
      BY <1>5, <1>6, <2>2
    <3>2. heard'[p][j] = n /\ Home[p] = c
      BY <1>2, <1>5, <1>6, <2>2, <3>1
    <3>3. current'[c] # NULL => /\ current'[c].number = n
                                /\ p \notin ToSet(current'[c].rest)
      BY <2>2 DEF o, n
    <3>4. n <= n
      BY <1>3
    <3> QED BY <1>7, <3>2, <3>3, <3>4
  <2> QED BY <2>1, <2>2
<1> QED BY <1>6, <1>9

LEMMA DeliverKeepsIInv ==
  ASSUME IInv, NEW c \in Contexts, Deliver(c)
  PROVE  IInv'
<1>0. TypeOK /\ Snapshots /\ Ordered /\ Told /\ Reached /\ CachedBySubscribed /\ PendingCovers
  BY DEF IInv
<1>1. PICK k \in DOMAIN current[c].rest :
        /\ Tell(current[c].rest[k], c)
        /\ cached' = [v \in Views |-> IF v = current[c].rest[k] THEN NULL ELSE cached[v]]
        /\ current' = [current EXCEPT ![c].rest = SubSeq(@, k + 1, Len(@))]
  BY DEF Deliver
<1>2. /\ current[c] # NULL
      /\ UNCHANGED <<registry, observers, hooked, closed, queue,
                     pendingNotifications, waiting, emitted>>
  BY DEF Deliver
<1> DEFINE rest == current[c].rest
           left == SubSeq(rest, k + 1, Len(rest))
<1>3. /\ current \in [Contexts -> Notification \cup {NULL}]
      /\ current[c] \in Notification /\ rest \in Snapshot(c)
  BY <1>0, <1>2 DEF TypeOK, Snapshots
<1>4. rest \in Seq(Observers) /\ IsInjective(rest) /\ k \in 1..Len(rest)
  BY <1>3 DEF Snapshot
<1>5. /\ left \in Seq(Observers) /\ IsInjective(left)
      /\ ToSet(left) \subseteq ToSet(rest) /\ rest[k] \notin ToSet(left)
  <2>1. /\ left \in Seq(Observers) /\ IsInjective(left)
        /\ ToSet(left) = {rest[i] : i \in (k + 1)..Len(rest)}
        /\ \A i \in 1..k : rest[i] \notin ToSet(left)
    BY <1>4, BehindRemoves, Zenon
  <2>2. k \in 1..k /\ (k + 1)..Len(rest) \subseteq DOMAIN rest
    BY <1>4
  <2> QED BY <2>1, <2>2 DEF ToSet
<1>6. /\ current' = [current EXCEPT ![c] = [current[c] EXCEPT !.rest = left]]
  BY <1>1, <1>3
<1> HIDE DEF left, rest
<1>7. /\ [current[c] EXCEPT !.rest = left] \in Notification
      /\ [current[c] EXCEPT !.rest = left].rest = left
      /\ [current[c] EXCEPT !.rest = left].number = current[c].number
  BY <1>3, <1>5 DEF Notification
<1>8. /\ current' \in [Contexts -> Notification \cup {NULL}]
      /\ current'[c] \in Notification /\ current'[c].rest = left
      /\ current'[c].number = current[c].number
      /\ \A d \in Contexts : d # c => current'[d] = current[d]
  BY <1>3, <1>6, <1>7
<1>9. Told' /\ heard' \in [Observers -> Seq(Nat \ {0})]
  <2>1. ToSet(current'[c].rest) \subseteq ToSet(current[c].rest) \ {current[c].rest[k]}
    BY <1>5, <1>8 DEF rest
  <2>2. UNCHANGED <<queue, emitted>>
    BY <1>2
  <2> QED BY <1>1, <1>2, <1>8, <2>1, <2>2, TellKeepsTold
<1>10. TypeOK'
  <2>1. cached \in [Views -> (SUBSET Matching) \cup {NULL}]
    BY <1>0 DEF TypeOK
  <2>2. cached' \in [Views -> (SUBSET Matching) \cup {NULL}]
    BY <1>1, <2>1
  <2> QED BY <1>0, <1>2, <1>8, <1>9, <2>2 DEF TypeOK
<1>11. Snapshots'
  <2>1. left \in Snapshot(c)
    BY <1>3, <1>5 DEF Snapshot
  <2>2. \A d \in Contexts : current'[d] # NULL => current'[d].rest \in Snapshot(d)
    BY <1>0, <1>8, <2>1 DEF Snapshots
  <2> QED BY <1>0, <1>2, <2>2 DEF Snapshots, Snapshot
<1>12. Ordered'
  BY <1>0, <1>2, <1>8 DEF Ordered
<1>13. Reached' /\ CachedBySubscribed'
  BY <1>0, <1>1, <1>2 DEF Reached, CachedBySubscribed, Subscribed
<1>14. PendingCovers'
  <2>1. current'[c] # NULL
    BY <1>8, HierarchyAssumption
  <2>2. \A d \in Contexts : Outstanding(d)' = Outstanding(d)
    BY <1>2, <1>8, <2>1 DEF Outstanding
  <2> QED BY <1>0, <1>2, <2>2 DEF PendingCovers
<1> QED BY <1>9, <1>10, <1>11, <1>12, <1>13, <1>14 DEF IInv

LEMMA DeliveredKeepsIInv ==
  ASSUME IInv, NEW c \in Contexts, Delivered(c)
  PROVE  IInv'
<1>0. TypeOK /\ Snapshots /\ Ordered /\ Told /\ Reached /\ CachedBySubscribed /\ PendingCovers
  BY DEF IInv
<1>1. /\ current[c] # NULL
      /\ current' = [current EXCEPT ![c] = NULL]
      /\ pendingNotifications' = [pendingNotifications EXCEPT ![c] = @ - 1]
      /\ waiting' = [waiting EXCEPT ![c] = IF @ = 0 THEN 0 ELSE @ - 1]
      /\ UNCHANGED <<registry, observers, hooked, closed, queue, cached, heard, emitted>>
  BY DEF Delivered
<1>2. /\ current \in [Contexts -> Notification \cup {NULL}]
      /\ pendingNotifications \in [Contexts -> Nat] /\ waiting \in [Contexts -> Nat]
      /\ Len(queue[c]) \in Nat
  BY <1>0 DEF TypeOK
<1>3. /\ current' \in [Contexts -> Notification \cup {NULL}]
      /\ current'[c] = NULL
      /\ \A d \in Contexts : d # c => current'[d] = current[d]
      /\ waiting' \in [Contexts -> Nat]
  BY <1>1, <1>2
<1>4. Outstanding(c) = Len(queue[c]) + 1 /\ Outstanding(c)' = Len(queue[c]) + 0
  BY <1>1, <1>3 DEF Outstanding
<1>5. pendingNotifications[c] >= Len(queue[c]) + 1
  BY <1>0, <1>4 DEF PendingCovers
<1>6. /\ pendingNotifications'[c] = pendingNotifications[c] - 1
      /\ \A d \in Contexts : d # c => pendingNotifications'[d] = pendingNotifications[d]
      /\ pendingNotifications' \in [Contexts -> Nat]
  BY <1>1, <1>2, <1>5
<1>7. TypeOK'
  BY <1>0, <1>1, <1>3, <1>6 DEF TypeOK
<1>8. Snapshots' /\ Ordered'
  BY <1>0, <1>1, <1>3 DEF Snapshots, Snapshot, Ordered
<1>9. Told'
  <2>1. \A o \in Observers : Home[o] \in Contexts
    BY HierarchyAssumption
  <2> QED BY <1>0, <1>1, <1>3, <2>1 DEF Told
<1>10. Reached' /\ CachedBySubscribed'
  BY <1>0, <1>1 DEF Reached, CachedBySubscribed, Subscribed
<1>11. PendingCovers'
  <2> SUFFICES ASSUME NEW d \in Contexts
               PROVE  pendingNotifications'[d] >= Outstanding(d)'
    BY DEF PendingCovers
  <2>1. CASE d = c
    <3>1. pendingNotifications'[c] >= Len(queue[c]) + 0
      BY <1>2, <1>5, <1>6
    <3> QED BY <1>4, <2>1, <3>1
  <2>2. CASE d # c
    BY <1>0, <1>1, <1>3, <1>6, <2>2 DEF PendingCovers, Outstanding
  <2> QED BY <2>1, <2>2
<1> QED BY <1>7, <1>8, <1>9, <1>10, <1>11 DEF IInv

LEMMA FailToDeliverKeepsIInv ==
  ASSUME IInv, NEW c \in Contexts, FailToDeliver(c)
  PROVE  IInv'
<1>0. TypeOK /\ Snapshots /\ Ordered /\ Told /\ Reached /\ CachedBySubscribed /\ PendingCovers
  BY DEF IInv
<1>1. PICK k \in DOMAIN current[c].rest : Tell(current[c].rest[k], c)
  BY DEF FailToDeliver
<1>2. /\ current[c] # NULL
      /\ current' = [current EXCEPT ![c] = NULL]
      /\ waiting' = [waiting EXCEPT ![c] = 0]
      /\ UNCHANGED <<registry, observers, hooked, closed, queue,
                     pendingNotifications, cached, emitted>>
  BY DEF FailToDeliver
<1>3. /\ current \in [Contexts -> Notification \cup {NULL}]
      /\ pendingNotifications \in [Contexts -> Nat] /\ waiting \in [Contexts -> Nat]
      /\ Len(queue[c]) \in Nat
  BY <1>0 DEF TypeOK
<1>4. /\ current' \in [Contexts -> Notification \cup {NULL}]
      /\ current'[c] = NULL
      /\ \A d \in Contexts : d # c => current'[d] = current[d]
      /\ waiting' \in [Contexts -> Nat]
  BY <1>2, <1>3
<1>5. Told' /\ heard' \in [Observers -> Seq(Nat \ {0})]
  <2>1. UNCHANGED <<queue, emitted>>
    BY <1>2
  <2> QED BY <1>1, <1>2, <1>4, <2>1, TellKeepsTold
<1>6. TypeOK'
  BY <1>0, <1>2, <1>4, <1>5 DEF TypeOK
<1>7. Snapshots' /\ Ordered'
  BY <1>0, <1>2, <1>4 DEF Snapshots, Snapshot, Ordered
<1>8. Reached' /\ CachedBySubscribed'
  BY <1>0, <1>2 DEF Reached, CachedBySubscribed, Subscribed
<1>9. PendingCovers'
  <2> SUFFICES ASSUME NEW d \in Contexts
               PROVE  pendingNotifications'[d] >= Outstanding(d)'
    BY DEF PendingCovers
  <2>1. CASE d = c
    <3>1. Outstanding(c) = Len(queue[c]) + 1 /\ Outstanding(c)' = Len(queue[c]) + 0
      BY <1>2, <1>4 DEF Outstanding
    <3>2. pendingNotifications[c] >= Len(queue[c]) + 1
      BY <1>0, <3>1 DEF PendingCovers
    <3>3. pendingNotifications'[c] >= Len(queue[c]) + 0
      BY <1>2, <1>3, <3>2
    <3> QED BY <2>1, <3>1, <3>3
  <2>2. CASE d # c
    BY <1>0, <1>2, <1>4, <2>2 DEF PendingCovers, Outstanding
  <2> QED BY <2>1, <2>2
<1> QED BY <1>5, <1>6, <1>7, <1>8, <1>9 DEF IInv

LEMMA WaitKeepsIInv ==
  ASSUME IInv, NEW c \in Contexts, Wait(c)
  PROVE  IInv'
<1>0. TypeOK /\ Snapshots /\ Ordered /\ Told /\ Reached /\ CachedBySubscribed /\ PendingCovers
  BY DEF IInv
<1>1. TypeOK'
  BY <1>0 DEF TypeOK, Wait
<1>2. Snapshots' /\ Ordered' /\ Told' /\ PendingCovers'
  BY <1>0 DEF Wait, Snapshots, Snapshot, Ordered, Told, PendingCovers, Outstanding
<1>3. Reached' /\ CachedBySubscribed'
  BY <1>0 DEF Wait, Reached, CachedBySubscribed, Subscribed
<1> QED BY <1>1, <1>2, <1>3 DEF IInv

LEMMA ReadBindingsKeepsIInv ==
  ASSUME IInv, NEW v \in Views, ReadBindings(v)
  PROVE  IInv'
<1>0. TypeOK /\ Snapshots /\ Ordered /\ Told /\ Reached /\ CachedBySubscribed /\ PendingCovers
  BY DEF IInv
<1>1. /\ Subscribed(v)
      /\ cached' = [cached EXCEPT ![v] = Find(Home[v])]
      /\ UNCHANGED <<registry, observers, hooked, closed, queue, current,
                     pendingNotifications, waiting, heard, emitted>>
  BY DEF ReadBindings
<1>2. Find(Home[v]) \in SUBSET Matching
  BY DEF Find
<1>3. cached' \in [Views -> (SUBSET Matching) \cup {NULL}]
  BY <1>0, <1>1, <1>2 DEF TypeOK
<1>4. TypeOK'
  BY <1>0, <1>1, <1>3 DEF TypeOK
<1>5. Snapshots' /\ Ordered' /\ Told' /\ PendingCovers'
  BY <1>0, <1>1 DEF Snapshots, Snapshot, Ordered, Told, PendingCovers, Outstanding
<1>6. Reached'
  BY <1>0, <1>1 DEF Reached, Subscribed
<1>7. CachedBySubscribed'
  <2>1. \A w \in Views : w # v => cached'[w] = cached[w]
    BY <1>0, <1>1 DEF TypeOK
  <2> QED BY <1>0, <1>1, <2>1 DEF CachedBySubscribed, Subscribed
<1> QED BY <1>4, <1>5, <1>6, <1>7 DEF IInv

LEMMA NextKeepsIInv == IInv /\ [Next]_vars => IInv'
<1> SUFFICES ASSUME IInv, [Next]_vars PROVE IInv'
  OBVIOUS
<1>1. ASSUME NEW c \in Contexts, NEW b \in Bindings, Add(c, b) \/ Unbind(c, b)
      PROVE  IInv'
  BY <1>1, AddKeepsIInv, UnbindKeepsIInv
<1>2. ASSUME NEW o \in Observers, Subscribe(o) \/ Unsubscribe(o)
      PROVE  IInv'
  BY <1>2, SubscribeKeepsIInv, UnsubscribeKeepsIInv
<1>3. ASSUME NEW c \in Contexts,
             Close(c) \/ Take(c) \/ Deliver(c) \/ Delivered(c) \/ FailToDeliver(c) \/ Wait(c)
      PROVE  IInv'
  BY <1>3, CloseKeepsIInv, TakeKeepsIInv, DeliverKeepsIInv, DeliveredKeepsIInv,
     FailToDeliverKeepsIInv, WaitKeepsIInv
<1>4. ASSUME NEW v \in Views, ReadBindings(v)
      PROVE  IInv'
  BY <1>4, ReadBindingsKeepsIInv
<1>5. CASE UNCHANGED vars
  <2>1. TypeOK' /\ Snapshots' /\ Ordered' /\ Told'
    BY <1>5 DEF vars, IInv, TypeOK, Snapshots, Snapshot, Ordered, Told
  <2>2. Reached' /\ CachedBySubscribed' /\ PendingCovers'
    BY <1>5 DEF vars, IInv, Reached, CachedBySubscribed, Subscribed, PendingCovers, Outstanding
  <2> QED BY <2>1, <2>2 DEF IInv
<1> QED BY <1>1, <1>2, <1>3, <1>4, <1>5 DEF Next

(* The strengthened invariant holds of every behaviour.                     *)
THEOREM EventsInductive == Spec => []IInv
BY InitIInv, NextKeepsIInv, PTL DEF Spec

(* Every variable has its type.                                            *)
THEOREM EventsTypeOK == Spec => []TypeOK
<1>1. IInv => TypeOK
  BY DEF IInv
<1> QED BY <1>1, EventsInductive, PTL

(* waitUntilPendingNotificationsDone never returns at once while something *)
(* is queued or somebody is being told.                                    *)
THEOREM PendingAlwaysCovers == Spec => []PendingCovers
<1>1. IInv => PendingCovers
  BY DEF IInv
<1> QED BY <1>1, EventsInductive, PTL

-----------------------------------------------------------------------------
(***************************************************************************)
(* The order of events.                                                    *)
(***************************************************************************)

LEMMA TellInOrder ==
  ASSUME IInv, HeardInOrder, NEW c \in Contexts, current[c] # NULL,
         NEW k \in DOMAIN current[c].rest, Tell(current[c].rest[k], c)
  PROVE  HeardInOrder'
<1> DEFINE o == current[c].rest[k]
           n == current[c].number
<1>1. /\ current[c] \in Notification /\ current[c].rest \in Snapshot(c)
      /\ heard \in [Observers -> Seq(Nat \ {0})]
  BY DEF IInv, TypeOK, Snapshots
<1>2. /\ o \in Observers /\ o \in ToSet(current[c].rest) /\ Home[o] = c
  <2>1. /\ current[c].rest \in Seq(Observers)
        /\ \A x \in ToSet(current[c].rest) : Home[x] = c
    BY <1>1 DEF Snapshot
  <2>2. o \in ToSet(current[c].rest)
    BY DEF ToSet
  <2> QED BY <2>1, <2>2
<1>3. n \in Nat \ {0}
  BY <1>1 DEF Notification
<1>4. \A j \in 1..Len(heard[o]) : heard[o][j] < n
  BY <1>2 DEF IInv, Told, n
<1>5. heard' = [heard EXCEPT ![o] = Append(@, n)]
  BY DEF Tell
<1> HIDE DEF o, n
<1>6. heard[o] \in Seq(Nat \ {0}) /\ Len(heard[o]) \in Nat
  BY <1>1, <1>2
<1>7. PICK m \in Nat : m = Len(heard[o])
  BY <1>6
<1>8. /\ heard'[o] = Append(heard[o], n) /\ DOMAIN heard'[o] = 1..(m + 1)
      /\ \A j \in 1..m : heard'[o][j] = heard[o][j]
      /\ heard'[o][m + 1] = n
      /\ \A p \in Observers : p # o => heard'[p] = heard[p]
  <2>1. /\ heard'[o] = Append(heard[o], n)
        /\ \A p \in Observers : p # o => heard'[p] = heard[p]
    BY <1>1, <1>2, <1>5
  <2>2. /\ Append(heard[o], n) \in Seq(Nat \ {0}) /\ Len(Append(heard[o], n)) = m + 1
        /\ \A j \in 1..m : Append(heard[o], n)[j] = heard[o][j]
        /\ Append(heard[o], n)[m + 1] = n
    BY <1>3, <1>6, <1>7, AppendProperties
  <2> QED BY <2>1, <2>2
<1>9. SUFFICES ASSUME NEW i \in DOMAIN heard'[o], NEW j \in DOMAIN heard'[o], i < j
               PROVE  heard'[o][i] < heard'[o][j]
  BY <1>8 DEF HeardInOrder
<1>10. i \in 1..m
  BY <1>8, <1>9
<1>11. CASE j \in 1..m
  <2>1. DOMAIN heard[o] = 1..m
    BY <1>6, <1>7
  <2>2. heard[o][i] < heard[o][j]
    BY <1>2, <1>9, <1>10, <1>11, <2>1 DEF HeardInOrder
  <2> QED BY <1>8, <1>10, <1>11, <2>2
<1>12. CASE j \notin 1..m
  <2>1. j = m + 1
    BY <1>8, <1>12
  <2> QED BY <1>4, <1>7, <1>8, <1>10, <2>1
<1> QED BY <1>11, <1>12

(* An observer is told of the events in the order in which they happened,  *)
(* and of none of them twice, wherever in the chain they happened, and     *)
(* whatever is subscribed, unsubscribed, closed or fails meanwhile.        *)
THEOREM HeardAlwaysInOrder == Spec => []HeardInOrder
<1>1. Init => HeardInOrder
  BY DEF Init, HeardInOrder
<1>2. IInv /\ HeardInOrder /\ [Next]_vars => HeardInOrder'
  <2> SUFFICES ASSUME IInv, HeardInOrder, [Next]_vars PROVE HeardInOrder'
    OBVIOUS
  <2>1. CASE UNCHANGED heard
    BY <2>1 DEF HeardInOrder
  <2>2. ASSUME NEW c \in Contexts, Deliver(c) PROVE HeardInOrder'
    BY <2>2, TellInOrder DEF Deliver
  <2>3. ASSUME NEW c \in Contexts, FailToDeliver(c) PROVE HeardInOrder'
    BY <2>3, TellInOrder DEF FailToDeliver
  <2>4. CASE \/ \E c \in Contexts, b \in Bindings : Add(c, b) \/ Unbind(c, b)
             \/ \E o \in Observers : Subscribe(o) \/ Unsubscribe(o)
             \/ \E c \in Contexts : Close(c) \/ Take(c) \/ Delivered(c) \/ Wait(c)
             \/ \E v \in Views : ReadBindings(v)
             \/ UNCHANGED vars
    <3>1. UNCHANGED heard
      BY <2>4 DEF Add, Unbind, Subscribe, Unsubscribe, Close, Take, Delivered, Wait,
                  ReadBindings, vars
    <3> QED BY <2>1, <3>1
  <2> QED BY <2>2, <2>3, <2>4 DEF Next
<1> QED BY <1>1, <1>2, EventsInductive, PTL DEF Spec

-----------------------------------------------------------------------------
(***************************************************************************)
(* Stale views, for filters that look at the key, as filterByKey does: of  *)
(* two bindings with one key, both match or none does.                     *)
(***************************************************************************)

ByKey == \A a, b \in Bindings : KeyOf[a] = KeyOf[b] => (a \in Matching <=> b \in Matching)

(* Only what is bound to the key k in x has changed.                       *)
ChangesOnly(x, k) ==
  \A y \in Contexts, a \in Bindings :
    y # x \/ KeyOf[a] # k => (a \in registry'[y] <=> a \in registry[y])

(* A change of x can be seen from c.                                       *)
SeenFrom(c, x, k) ==
  /\ x \in {c} \cup Ancestors[c]
  /\ \A y \in Path(c, x) : ~Bound(y, k)
  /\ \E b \in Matching : KeyOf[b] = k

(* What find() returns stays what it is when the change cannot be seen: it *)
(* is elsewhere, hidden by a nearer binding, or does not match.            *)
LEMMA UnseenKeepsFind ==
  ASSUME ByKey, registry \in [Contexts -> SUBSET Bindings],
         NEW c \in Contexts, NEW x \in Contexts, NEW k,
         ChangesOnly(x, k), ~SeenFrom(c, x, k)
  PROVE  Find(c)' = Find(c)
<1> DEFINE chain == {c} \cup Ancestors[c]
           Vis(b, z) == /\ b \in registry[z]
                        /\ \A y \in Path(c, z) :
                             \A m \in registry[y] \cap Matching : KeyOf[m] # KeyOf[b]
           VisNext(b, z) == /\ b \in registry'[z]
                            /\ \A y \in Path(c, z) :
                                 \A m \in registry'[y] \cap Matching : KeyOf[m] # KeyOf[b]
<1>1. /\ chain \subseteq Contexts /\ Matching \subseteq Bindings
      /\ \A z \in chain : Ancestors[z] \subseteq chain /\ z \notin Ancestors[z]
      /\ \A z \in chain : z = x \/ x \notin chain \/ x \in Ancestors[z] \/ z \in Ancestors[x]
      /\ \A z \in chain : Path(c, z) \subseteq chain
  BY HierarchyAssumption DEF Path
<1>2. ASSUME NEW b \in Matching, NEW z \in chain
      PROVE  VisNext(b, z) <=> Vis(b, z)
  <2>1. ASSUME x # z \/ KeyOf[b] # k, x \notin Path(c, z) \/ KeyOf[b] # k
        PROVE  VisNext(b, z) <=> Vis(b, z)
    <3>1. b \in registry'[z] <=> b \in registry[z]
      BY <1>1, <2>1 DEF ChangesOnly
    <3>2. ASSUME NEW y \in Path(c, z), NEW m \in Matching, KeyOf[m] = KeyOf[b]
          PROVE  m \in registry'[y] <=> m \in registry[y]
      BY <1>1, <2>1, <3>2 DEF ChangesOnly
    <3> QED BY <3>1, <3>2
  <2>2. CASE KeyOf[b] # k
    BY <2>1, <2>2
  <2>3. CASE KeyOf[b] = k /\ x \notin chain
    BY <1>1, <2>1, <2>3
  <2>4. CASE KeyOf[b] = k /\ x \in chain
    <3>1. PICK y \in Path(c, x) : Bound(y, k)
      BY <2>4 DEF SeenFrom
    <3>2. PICK m \in registry[y] : KeyOf[m] = k
      BY <3>1 DEF Bound
    <3>3. /\ y \in chain /\ y # x /\ y \notin Ancestors[x] /\ m \in Matching
          /\ m \in registry'[y]
      <4>1. y \in chain /\ y # x /\ y \notin Ancestors[x]
        BY DEF Path
      <4>2. m \in Bindings
        BY <1>1, <3>2, <4>1
      <4>3. m \in Matching
        BY <1>1, <2>4, <3>2, <4>2 DEF ByKey
      <4>4. m \in registry'[y]
        BY <1>1, <3>2, <4>1, <4>2 DEF ChangesOnly
      <4> QED BY <4>1, <4>3, <4>4
    <3>4. ASSUME y \in Path(c, z)
          PROVE  VisNext(b, z) <=> Vis(b, z)
      BY <2>4, <3>2, <3>3, <3>4
    <3>5. CASE z = x
      BY <3>4, <3>5
    <3>6. CASE z \in Ancestors[x]
      <4>1. Ancestors[z] \subseteq Ancestors[x]
        BY <3>6, HierarchyAssumption
      <4>2. y \in Path(c, z)
        BY <3>3, <3>6, <4>1 DEF Path
      <4> QED BY <3>4, <4>2
    <3>7. CASE x \in Ancestors[z]
      <4>1. x \notin Path(c, z) /\ x # z
        BY <1>1, <3>7 DEF Path
      <4> QED BY <2>1, <4>1
    <3> QED BY <1>1, <2>4, <3>5, <3>6, <3>7
  <2> QED BY <2>2, <2>3, <2>4
<1>3. Find(c) = {b \in Matching : \E z \in chain : Vis(b, z)}
  BY DEF Find
<1>4. Find(c)' = {b \in Matching : \E z \in chain : VisNext(b, z)}
  BY DEF Find, Path
<1> HIDE DEF Vis, VisNext, chain
<1> QED BY <1>2, <1>3, <1>4

LEMMA SameFind ==
  ASSUME UNCHANGED registry, NEW c
  PROVE  Find(c)' = Find(c)
BY DEF Find, Path

(* The view v has something else than find() returns.                      *)
Stale(v) ==
  /\ Subscribed(v) /\ Home[v] \notin closed /\ Unharmed(Home[v])
  /\ cached[v] # NULL /\ cached[v] # Find(Home[v])

(* Emit tells the views that see the change.                               *)
LEMMA EmitTellsViews ==
  ASSUME ByKey, IInv, StaleIsNotified,
         NEW x \in Contexts, NEW k, NEW bs \in Seq(Bindings), bs # <<>>,
         \A i \in 1..Len(bs) : KeyOf[bs[i]] = k,
         Emit(x, bs), ChangesOnly(x, k),
         UNCHANGED <<observers, hooked, closed, current, cached, waiting, heard>>
  PROVE  StaleIsNotified'
<1> SUFFICES ASSUME NEW v \in Views, Stale(v)'
             PROVE  Awaits(v)'
  BY DEF StaleIsNotified, Stale
<1> DEFINE c == Home[v]
<1>0. TypeOK /\ Reached
  BY DEF IInv
<1>1. /\ c \in Contexts /\ v \in Observers
      /\ registry \in [Contexts -> SUBSET Bindings]
      /\ queue[c] \in Seq(Notification) /\ Len(queue[c]) \in Nat /\ Len(bs) \in Nat \ {0}
      /\ pendingNotifications[c] \in Nat
  BY <1>0, HierarchyAssumption DEF Observers, TypeOK
<1>2. PICK n \in Nat : n = Len(queue[c])
  BY <1>1
<1>3. /\ queue'[c] \in Seq(Notification)
      /\ Len(queue'[c]) \in {n, n + Len(bs)}
      /\ pendingNotifications'[c] = pendingNotifications[c] + (Len(queue'[c]) - n)
      /\ \A i \in 1..n : queue'[c][i] = queue[c][i]
      /\ \A i \in (n + 1)..Len(queue'[c]) :
           queue'[c][i] = [number |-> emitted + (i - n), binding |-> bs[i - n],
                           rest |-> observers[c]]
      /\ c \in Receivers(x, KeyOf[Head(bs)]) /\ hooked[c] /\ observers[c] # <<>>
           => Len(queue'[c]) = n + Len(bs)
  <2>1. /\ queue' \in [Contexts -> Seq(Notification)]
        /\ \A d \in Contexts : Queued(x, bs, d)
    BY <1>0, Emitted
  <2> HIDE DEF c
  <2> QED BY <1>1, <1>2, <2>1 DEF Queued
<1>4. /\ Subscribed(v) /\ c \notin closed /\ cached[v] # NULL /\ cached[v] # Find(c)'
      /\ Unharmed(c)'
  BY DEF Stale, Subscribed
<1> HIDE DEF c
<1>5. Unharmed(c)
  <2>1. PICK m \in Nat : m = Len(queue'[c])
    BY <1>1, <1>3
  <2>2. /\ pendingNotifications'[c] = pendingNotifications[c] + (m - n)
        /\ pendingNotifications'[c] = Outstanding(c)'
    BY <1>3, <1>4, <2>1 DEF Unharmed
  <2>3. CASE current[c] = NULL
    <3>1. Outstanding(c) = n + 0 /\ Outstanding(c)' = m + 0
      BY <1>2, <2>1, <2>3 DEF Outstanding
    <3>2. pendingNotifications[c] = n + 0
      BY <1>1, <2>2, <3>1
    <3> QED BY <3>1, <3>2 DEF Unharmed
  <2>4. CASE current[c] # NULL
    <3>1. Outstanding(c) = n + 1 /\ Outstanding(c)' = m + 1
      BY <1>2, <2>1, <2>4 DEF Outstanding
    <3>2. pendingNotifications[c] = n + 1
      BY <1>1, <2>2, <3>1
    <3> QED BY <3>1, <3>2 DEF Unharmed
  <2> QED BY <2>3, <2>4
<1>6. CASE Find(c)' = Find(c)
  <2>1. Awaits(v)
    BY <1>4, <1>5, <1>6 DEF StaleIsNotified, c
  <2>2. CASE current[c] # NULL /\ current[c].binding \in Matching /\ v \in ToSet(current[c].rest)
    BY <2>2 DEF Awaits, c
  <2>3. ASSUME NEW i \in DOMAIN queue[c], queue[c][i].binding \in Matching,
               v \in ToSet(queue[c][i].rest)
        PROVE  Awaits(v)'
    <3>1. i \in DOMAIN queue'[c] /\ queue'[c][i] = queue[c][i]
      BY <1>1, <1>2, <1>3
    <3> QED BY <2>3, <3>1 DEF Awaits, c
  <2> QED BY <2>1, <2>2, <2>3 DEF Awaits, c
<1>7. CASE Find(c)' # Find(c)
  <2>1. SeenFrom(c, x, k)
    BY <1>1, <1>7, UnseenKeepsFind
  <2>2. Head(bs) = bs[1] /\ bs[1] \in Bindings /\ KeyOf[bs[1]] = k
    BY <1>1
  <2>3. \A y \in {c} \cup Ancestors[c] : hooked[y]
    BY <1>0, <1>1, <1>4 DEF Reached, c
  <2>4. c \in Receivers(x, KeyOf[Head(bs)])
    <3>1. CASE x = c
      BY <3>1 DEF Receivers
    <3>2. CASE x \in Ancestors[c]
      <4>1. \A y \in Path(c, x) : hooked[y] /\ ~Bound(y, k)
        BY <2>1, <2>3 DEF SeenFrom, Path
      <4> QED BY <1>1, <2>2, <3>2, <4>1 DEF Receivers
    <3> QED BY <2>1, <3>1, <3>2 DEF SeenFrom
  <2>5. v \in ToSet(observers[c]) /\ observers[c] # <<>>
    BY <1>4 DEF Subscribed, ToSet, c
  <2>6. Len(queue'[c]) = n + Len(bs)
    BY <1>3, <2>3, <2>4, <2>5
  <2>7. n + 1 \in DOMAIN queue'[c] /\ n + 1 \in (n + 1)..Len(queue'[c]) /\ (n + 1) - n = 1
    BY <1>1, <1>3, <2>6
  <2>8. queue'[c][n + 1] = [number |-> emitted + ((n + 1) - n), binding |-> bs[(n + 1) - n],
                            rest |-> observers[c]]
    BY <1>3, <2>7
  <2>9. queue'[c][n + 1].binding = bs[1] /\ queue'[c][n + 1].rest = observers[c]
    BY <2>7, <2>8
  <2>10. bs[1] \in Matching
    BY <2>1, <2>2, HierarchyAssumption DEF SeenFrom, ByKey
  <2> QED BY <2>5, <2>7, <2>9, <2>10 DEF Awaits, c
<1> QED BY <1>6, <1>7

LEMMA AddTellsViews ==
  ASSUME ByKey, IInv, StaleIsNotified, NEW c \in Contexts, NEW b \in Bindings, Add(c, b)
  PROVE  StaleIsNotified'
<1> DEFINE old == {a \in registry[c] : KeyOf[a] = KeyOf[b]}
           bs == IF old = {} THEN <<b>> ELSE <<CHOOSE a \in old : TRUE, b>>
           k == KeyOf[b]
<1>1. registry \in [Contexts -> SUBSET Bindings]
  BY DEF IInv, TypeOK
<1>2. /\ bs \in Seq(Bindings) /\ bs # <<>>
      /\ \A i \in 1..Len(bs) : KeyOf[bs[i]] = k
  <2>1. old \subseteq Bindings /\ \A a \in old : KeyOf[a] = k
    BY <1>1
  <2>2. CASE old = {}
    <3>1. bs = <<b>>
      BY <2>2
    <3> HIDE DEF bs, old
    <3> QED BY <3>1
  <2>3. CASE old # {}
    <3>1. PICK a \in old : a = CHOOSE x \in old : TRUE
      BY <2>3
    <3>2. bs = <<a, b>> /\ a \in Bindings /\ KeyOf[a] = k
      BY <2>1, <2>3, <3>1
    <3> HIDE DEF bs, old
    <3> QED BY <3>2
  <2> QED BY <2>2, <2>3
<1>3. /\ registry' = [registry EXCEPT ![c] = (@ \ old) \cup {b}]
      /\ Emit(c, bs)
      /\ UNCHANGED <<observers, hooked, closed, current, cached, waiting, heard>>
  BY DEF Add
<1>4. ChangesOnly(c, k)
  <2> SUFFICES ASSUME NEW y \in Contexts, NEW a \in Bindings, y # c \/ KeyOf[a] # k
               PROVE  a \in registry'[y] <=> a \in registry[y]
    BY DEF ChangesOnly
  <2>1. CASE y # c
    BY <1>1, <1>3, <2>1
  <2>2. CASE y = c /\ KeyOf[a] # k
    <3>1. a \notin old /\ a # b
      BY <2>2
    <3>2. registry'[c] = (registry[c] \ old) \cup {b}
      BY <1>1, <1>3
    <3> HIDE DEF old
    <3> QED BY <2>2, <3>1, <3>2
  <2> QED BY <2>1, <2>2
<1> HIDE DEF old, bs, k
<1> QED BY <1>2, <1>3, <1>4, EmitTellsViews

LEMMA UnbindTellsViews ==
  ASSUME ByKey, IInv, StaleIsNotified, NEW c \in Contexts, NEW b \in Bindings, Unbind(c, b)
  PROVE  StaleIsNotified'
<1>1. registry \in [Contexts -> SUBSET Bindings]
  BY DEF IInv, TypeOK
<1>2. /\ registry' = [registry EXCEPT ![c] = @ \ {b}] /\ Emit(c, <<b>>)
      /\ UNCHANGED <<observers, hooked, closed, current, cached, waiting, heard>>
  BY DEF Unbind
<1>3. ChangesOnly(c, KeyOf[b])
  BY <1>1, <1>2 DEF ChangesOnly
<1>4. PICK bs \in Seq(Bindings) : bs = <<b>>
  <2>1. <<b>> \in Seq(Bindings)
    OBVIOUS
  <2> QED BY <2>1, Zenon
<1>5. bs # <<>> /\ \A i \in 1..Len(bs) : KeyOf[bs[i]] = KeyOf[b]
  BY <1>4
<1> QED BY <1>2, <1>3, <1>4, <1>5, EmitTellsViews

(* What a step of context c leaves alone elsewhere.                        *)
LEMMA ElsewhereTold ==
  ASSUME IInv, StaleIsNotified, NEW c \in Contexts, NEW v \in Views, Home[v] # c,
         UNCHANGED <<registry, cached[v]>>, Stale(v)',
         Subscribed(v), Home[v] \notin closed,
         \A d \in Contexts \ {c} :
           UNCHANGED <<queue[d], current[d], pendingNotifications[d]>>
  PROVE  Awaits(v)'
<1> DEFINE d == Home[v]
<1>1. d \in Contexts \ {c}
  BY HierarchyAssumption DEF Observers
<1>2. /\ queue'[d] = queue[d] /\ current'[d] = current[d]
      /\ pendingNotifications'[d] = pendingNotifications[d]
      /\ cached'[v] = cached[v] /\ Find(d)' = Find(d)
  BY <1>1, SameFind
<1>3. Unharmed(d)' => Unharmed(d)
  BY <1>2 DEF Unharmed, Outstanding
<1>4. Stale(v)
  BY <1>2, <1>3 DEF Stale
<1>5. Awaits(v)
  BY <1>4 DEF StaleIsNotified, Stale
<1> QED BY <1>2, <1>5 DEF Awaits

LEMMA TakeTellsViews ==
  ASSUME IInv, StaleIsNotified, NEW c \in Contexts, Take(c)
  PROVE  StaleIsNotified'
<1> SUFFICES ASSUME NEW v \in Views, Stale(v)'
             PROVE  Awaits(v)'
  BY DEF StaleIsNotified, Stale
<1>1. /\ current[c] = NULL /\ queue[c] # <<>>
      /\ current' = [current EXCEPT ![c] = Head(queue[c])]
      /\ queue' = [queue EXCEPT ![c] = Tail(@)]
      /\ UNCHANGED <<registry, observers, hooked, closed, pendingNotifications,
                     cached, waiting, heard, emitted>>
  BY DEF Take
<1>2. /\ queue \in [Contexts -> Seq(Notification)]
      /\ current \in [Contexts -> Notification \cup {NULL}]
  BY DEF IInv, TypeOK
<1>3. /\ Subscribed(v) /\ Home[v] \notin closed /\ cached[v] # NULL
      /\ cached[v] # Find(Home[v]) /\ Unharmed(Home[v])'
  BY <1>1, SameFind DEF Stale, Subscribed
<1>4. CASE Home[v] # c
  <2>1. \A d \in Contexts \ {c} : UNCHANGED <<queue[d], current[d], pendingNotifications[d]>>
    BY <1>1, <1>2
  <2> QED BY <1>1, <1>3, <1>4, <2>1, ElsewhereTold
<1>5. CASE Home[v] = c
  <2>1. PICK n \in Nat \ {0} : n = Len(queue[c])
    BY <1>1, <1>2
  <2>2. /\ current'[c] = queue[c][1] /\ current'[c] \in Notification
        /\ Len(queue'[c]) = n - 1 /\ DOMAIN queue'[c] = 1..(n - 1) /\ DOMAIN queue[c] = 1..n
        /\ \A i \in 1..(n - 1) : queue'[c][i] = queue[c][i + 1]
    <3>1. /\ Head(queue[c]) = queue[c][1] /\ Head(queue[c]) \in Notification
          /\ Tail(queue[c]) \in Seq(Notification) /\ Len(Tail(queue[c])) = n - 1
          /\ \A i \in 1..(n - 1) : Tail(queue[c])[i] = queue[c][i + 1]
      BY <1>1, <1>2, <2>1
    <3>2. queue'[c] = Tail(queue[c]) /\ current'[c] = Head(queue[c])
      BY <1>1, <1>2
    <3>3. DOMAIN queue[c] = 1..n
      BY <1>2, <2>1
    <3> QED BY <3>1, <3>2, <3>3
  <2>3. current'[c] # NULL
    BY <2>2, HierarchyAssumption
  <2>4. Unharmed(c)
    <3>1. Outstanding(c) = n + 0 /\ Outstanding(c)' = (n - 1) + 1
      BY <1>1, <2>1, <2>2, <2>3 DEF Outstanding
    <3>2. pendingNotifications[c] = Outstanding(c)'
      BY <1>1, <1>3, <1>5 DEF Unharmed
    <3>3. (n - 1) + 1 = n + 0
      OBVIOUS
    <3> QED BY <3>1, <3>2, <3>3 DEF Unharmed
  <2>5. Awaits(v)
    BY <1>3, <1>5, <2>4 DEF StaleIsNotified
  <2>6. PICK i \in 1..n : queue[c][i].binding \in Matching /\ v \in ToSet(queue[c][i].rest)
    BY <1>1, <1>5, <2>2, <2>5 DEF Awaits
  <2>7. CASE i = 1
    BY <1>5, <2>2, <2>3, <2>6, <2>7 DEF Awaits
  <2>8. CASE i # 1
    <3>1. i - 1 \in 1..(n - 1) /\ (i - 1) + 1 = i
      BY <2>8
    <3>2. i - 1 \in DOMAIN queue'[c] /\ queue'[c][i - 1] = queue[c][i]
      BY <2>2, <3>1
    <3> QED BY <1>5, <2>6, <3>2 DEF Awaits
  <2> QED BY <2>7, <2>8
<1> QED BY <1>4, <1>5

LEMMA DeliverTellsViews ==
  ASSUME IInv, StaleIsNotified, NEW c \in Contexts, Deliver(c)
  PROVE  StaleIsNotified'
<1> SUFFICES ASSUME NEW v \in Views, Stale(v)'
             PROVE  Awaits(v)'
  BY DEF StaleIsNotified, Stale
<1>1. PICK k \in DOMAIN current[c].rest :
        /\ ComesTo(c, k)
        /\ cached' = [w \in Views |-> IF w = current[c].rest[k] THEN NULL ELSE cached[w]]
        /\ current' = [current EXCEPT ![c].rest = SubSeq(@, k + 1, Len(@))]
  BY DEF Deliver
<1>2. /\ current[c] # NULL
      /\ UNCHANGED <<registry, observers, hooked, closed, queue,
                     pendingNotifications, waiting, emitted>>
  BY DEF Deliver
<1>3. /\ current \in [Contexts -> Notification \cup {NULL}]
      /\ current[c] \in Notification /\ current[c].rest \in Snapshot(c)
      /\ cached \in [Views -> (SUBSET Matching) \cup {NULL}]
  BY <1>2 DEF IInv, TypeOK, Snapshots
<1>4. v # current[c].rest[k] /\ cached'[v] = cached[v]
  BY <1>1, <1>3 DEF Stale
<1>5. /\ Subscribed(v) /\ Home[v] \notin closed /\ cached[v] # NULL
      /\ cached[v] # Find(Home[v]) /\ Unharmed(Home[v])'
  BY <1>2, <1>4, SameFind DEF Stale, Subscribed
<1>6. CASE Home[v] # c
  <2>1. \A d \in Contexts \ {c} : UNCHANGED <<queue[d], current[d], pendingNotifications[d]>>
    BY <1>1, <1>2, <1>3
  <2> QED BY <1>2, <1>4, <1>5, <1>6, <2>1, ElsewhereTold
<1>7. CASE Home[v] = c
  <2> DEFINE rest == current[c].rest
             left == SubSeq(rest, k + 1, Len(rest))
  <2>1. rest \in Seq(Observers) /\ IsInjective(rest) /\ k \in 1..Len(rest)
    BY <1>3 DEF Snapshot
  <2>2. ToSet(left) = {rest[i] : i \in (k + 1)..Len(rest)}
    BY <2>1, BehindRemoves, Zenon
  <2>3. current'[c] = [current[c] EXCEPT !.rest = left]
    BY <1>1, <1>3
  <2> HIDE DEF left
  <2>4. /\ current'[c] \in Notification /\ current'[c].rest = left
        /\ current'[c].binding = current[c].binding
    <3>1. left \in Seq(Observers)
      BY <2>1, BehindPosition DEF left
    <3> QED BY <1>3, <2>3, <3>1 DEF Notification
  <2>5. current'[c] # NULL
    BY <2>4, HierarchyAssumption
  <2>6. Unharmed(c)
    BY <1>2, <1>5, <1>7, <2>5 DEF Unharmed, Outstanding
  <2>7. Awaits(v)
    BY <1>5, <1>7, <2>6 DEF StaleIsNotified
  <2>8. CASE \E i \in DOMAIN queue[c] :
               queue[c][i].binding \in Matching /\ v \in ToSet(queue[c][i].rest)
    BY <1>2, <1>7, <2>8 DEF Awaits
  <2>9. CASE current[c].binding \in Matching /\ v \in ToSet(rest)
    <3>1. PICK i \in 1..Len(rest) : rest[i] = v
      BY <2>1, <2>9 DEF ToSet
    <3>2. Interested(rest[i], current[c].binding)
      BY <2>9 DEF Interested
    <3>3. i \notin 1..(k - 1)
      BY <1>1, <3>2 DEF ComesTo
    <3>4. i \in (k + 1)..Len(rest)
      BY <1>4, <2>1, <3>1, <3>3
    <3> QED BY <1>7, <2>2, <2>4, <2>5, <2>9, <3>1, <3>4 DEF Awaits
  <2> QED BY <1>7, <2>7, <2>8, <2>9 DEF Awaits
<1> QED BY <1>6, <1>7

LEMMA DeliveredTellsViews ==
  ASSUME IInv, StaleIsNotified, NEW c \in Contexts, Delivered(c)
  PROVE  StaleIsNotified'
<1> SUFFICES ASSUME NEW v \in Views, Stale(v)'
             PROVE  Awaits(v)'
  BY DEF StaleIsNotified, Stale
<1>1. /\ current[c] # NULL
      /\ \A o \in ToSet(current[c].rest) : ~Interested(o, current[c].binding)
      /\ current' = [current EXCEPT ![c] = NULL]
      /\ pendingNotifications' = [pendingNotifications EXCEPT ![c] = @ - 1]
      /\ UNCHANGED <<registry, observers, hooked, closed, queue, cached, heard, emitted>>
  BY DEF Delivered
<1>2. /\ queue \in [Contexts -> Seq(Notification)]
      /\ current \in [Contexts -> Notification \cup {NULL}]
      /\ pendingNotifications \in [Contexts -> Nat]
  BY DEF IInv, TypeOK
<1>3. /\ Subscribed(v) /\ Home[v] \notin closed /\ cached[v] # NULL
      /\ cached[v] # Find(Home[v]) /\ Unharmed(Home[v])'
  BY <1>1, SameFind DEF Stale, Subscribed
<1>4. CASE Home[v] # c
  <2>1. \A d \in Contexts \ {c} : UNCHANGED <<queue[d], current[d], pendingNotifications[d]>>
    BY <1>1, <1>2
  <2> QED BY <1>1, <1>3, <1>4, <2>1, ElsewhereTold
<1>5. CASE Home[v] = c
  <2>1. PICK n \in Nat : n = Len(queue[c])
    BY <1>2
  <2>2. Outstanding(c) = n + 1 /\ Outstanding(c)' = n + 0
    BY <1>1, <1>2, <2>1 DEF Outstanding
  <2>3. pendingNotifications[c] - 1 = n + 0 /\ pendingNotifications[c] \in Nat
    BY <1>1, <1>2, <1>3, <1>5, <2>2 DEF Unharmed
  <2>4. pendingNotifications[c] = n + 1
    BY <2>3
  <2>5. Awaits(v)
    BY <1>3, <1>5, <2>2, <2>4 DEF StaleIsNotified, Unharmed
  <2>6. ~(current[c].binding \in Matching /\ v \in ToSet(current[c].rest))
    BY <1>1 DEF Interested
  <2> QED BY <1>1, <1>5, <2>5, <2>6 DEF Awaits
<1> QED BY <1>4, <1>5

LEMMA FailToDeliverTellsViews ==
  ASSUME IInv, StaleIsNotified, NEW c \in Contexts, FailToDeliver(c)
  PROVE  StaleIsNotified'
<1> SUFFICES ASSUME NEW v \in Views, Stale(v)'
             PROVE  Awaits(v)'
  BY DEF StaleIsNotified, Stale
<1>1. /\ current[c] # NULL
      /\ current' = [current EXCEPT ![c] = NULL]
      /\ UNCHANGED <<registry, observers, hooked, closed, queue,
                     pendingNotifications, cached, emitted>>
  BY DEF FailToDeliver
<1>2. /\ queue \in [Contexts -> Seq(Notification)]
      /\ current \in [Contexts -> Notification \cup {NULL}]
      /\ pendingNotifications \in [Contexts -> Nat]
  BY DEF IInv, TypeOK
<1>3. /\ Subscribed(v) /\ Home[v] \notin closed /\ Unharmed(Home[v])'
  BY <1>1 DEF Stale, Subscribed
<1>4. CASE Home[v] # c
  <2>1. \A d \in Contexts \ {c} : UNCHANGED <<queue[d], current[d], pendingNotifications[d]>>
    BY <1>1, <1>2
  <2> QED BY <1>1, <1>3, <1>4, <2>1, ElsewhereTold
<1>5. CASE Home[v] = c
  <2>1. PICK n \in Nat : n = Len(queue[c])
    BY <1>2
  <2>2. Outstanding(c) = n + 1 /\ Outstanding(c)' = n + 0
    BY <1>1, <1>2, <2>1 DEF Outstanding
  <2>3. pendingNotifications[c] = n + 0 /\ pendingNotifications[c] >= n + 1
    BY <1>1, <1>3, <1>5, <2>2 DEF Unharmed, IInv, PendingCovers
  <2> QED BY <2>3
<1> QED BY <1>4, <1>5

LEMMA SubscribeTellsViews ==
  ASSUME IInv, StaleIsNotified, NEW o \in Observers, Subscribe(o) \/ Unsubscribe(o)
  PROVE  StaleIsNotified'
<1> SUFFICES ASSUME NEW v \in Views, Stale(v)'
             PROVE  Awaits(v)'
  BY DEF StaleIsNotified, Stale
<1>1. UNCHANGED <<registry, queue, current, pendingNotifications, cached>> /\ closed \subseteq closed'
  BY DEF Subscribe, Unsubscribe
<1>2. /\ observers \in [Contexts -> Seq(Observers)]
      /\ \A d \in Contexts : observers[d] \in Snapshot(d)
  BY DEF IInv, TypeOK, Snapshots
<1>3. Home[o] \in Contexts /\ Home[v] \in Contexts
  BY HierarchyAssumption DEF Observers
<1>4. Subscribed(v)
  <2>1. CASE Unsubscribe(o)
    <3>1. /\ observers' = [observers EXCEPT ![Home[o]] = RemoveFirst(@, o)]
          /\ o \in ToSet(observers[Home[o]])
      BY <2>1 DEF Unsubscribe
    <3>2. /\ observers[Home[o]] \in Seq(Observers)
          /\ IsInjective(observers[Home[o]])
      BY <1>2, <1>3 DEF Snapshot
    <3>3. ToSet(RemoveFirst(observers[Home[o]], o)) \subseteq ToSet(observers[Home[o]])
      BY <3>1, <3>2, RemoveFirstRemoves
    <3>4. ToSet(observers'[Home[v]]) \subseteq ToSet(observers[Home[v]])
      BY <1>2, <1>3, <3>1, <3>3
    <3> QED BY <3>4 DEF Stale, Subscribed
  <2>2. CASE Subscribe(o)
    <3>1. /\ observers' = [observers EXCEPT ![Home[o]] = Append(@, o)]
          /\ o \notin closed /\ Home[o] \notin closed
      BY <2>2 DEF Subscribe
    <3>2. ToSet(Append(observers[Home[o]], o)) = ToSet(observers[Home[o]]) \cup {o}
      BY <1>2, <1>3, AppendAdds
    <3>3. v \in ToSet(observers[Home[v]]) \/ v = o
      BY <1>2, <1>3, <3>1, <3>2 DEF Stale, Subscribed
    <3> QED BY <1>1, <3>1, <3>3 DEF Stale, Subscribed, IInv, CachedBySubscribed
  <2> QED BY <2>1, <2>2
<1>5. Find(Home[v])' = Find(Home[v])
  BY <1>1, SameFind
<1>6. Stale(v)
  BY <1>1, <1>4, <1>5 DEF Stale, Unharmed, Outstanding
<1>7. Awaits(v)
  BY <1>6 DEF StaleIsNotified, Stale
<1> QED BY <1>1, <1>7 DEF Awaits

LEMMA CloseTellsViews ==
  ASSUME IInv, StaleIsNotified, NEW c \in Contexts, Close(c)
  PROVE  StaleIsNotified'
<1> SUFFICES ASSUME NEW v \in Views, Stale(v)'
             PROVE  Awaits(v)'
  BY DEF StaleIsNotified, Stale
<1>1. PICK n \in 0..Len(queue[c]) : queue' = [queue EXCEPT ![c] = SubSeq(@, 1, n)]
  BY DEF Close
<1>2. /\ closed' = closed \cup {c}
      /\ observers' = [observers EXCEPT ![c] = <<>>]
      /\ UNCHANGED <<registry, current, pendingNotifications, cached>>
  BY DEF Close
<1>3. /\ queue \in [Contexts -> Seq(Notification)]
      /\ observers \in [Contexts -> Seq(Observers)]
  BY DEF IInv, TypeOK
<1>4. Home[v] \in Contexts /\ Home[v] # c /\ Home[v] \notin closed
  BY <1>2, HierarchyAssumption DEF Observers, Stale
<1>5. Subscribed(v)
  BY <1>2, <1>3, <1>4 DEF Stale, Subscribed
<1>6. \A d \in Contexts \ {c} : UNCHANGED <<queue[d], current[d], pendingNotifications[d]>>
  BY <1>1, <1>2, <1>3
<1> QED BY <1>2, <1>4, <1>5, <1>6, ElsewhereTold

LEMMA ReadBindingsTellsViews ==
  ASSUME IInv, StaleIsNotified, NEW w \in Views, ReadBindings(w)
  PROVE  StaleIsNotified'
<1> SUFFICES ASSUME NEW v \in Views, Stale(v)'
             PROVE  Awaits(v)'
  BY DEF StaleIsNotified, Stale
<1>1. /\ cached' = [cached EXCEPT ![w] = Find(Home[w])]
      /\ UNCHANGED <<registry, observers, hooked, closed, queue, current,
                     pendingNotifications, waiting, heard, emitted>>
      /\ cached \in [Views -> (SUBSET Matching) \cup {NULL}]
  BY DEF ReadBindings, IInv, TypeOK
<1>2. Find(Home[v])' = Find(Home[v])
  BY <1>1, SameFind
<1>3. v # w
  BY <1>1, <1>2 DEF Stale
<1>4. Stale(v)
  BY <1>1, <1>2, <1>3 DEF Stale, Subscribed, Unharmed, Outstanding
<1>5. Awaits(v)
  BY <1>4 DEF StaleIsNotified, Stale
<1> QED BY <1>1, <1>5 DEF Awaits

LEMMA QuietTellsViews ==
  ASSUME StaleIsNotified,
         UNCHANGED <<registry, observers, closed, queue, current, pendingNotifications, cached>>
  PROVE  StaleIsNotified'
<1> SUFFICES ASSUME NEW v \in Views, Stale(v)'
             PROVE  Awaits(v)'
  BY DEF StaleIsNotified, Stale
<1>1. Find(Home[v])' = Find(Home[v])
  BY SameFind
<1>2. Stale(v)
  BY <1>1 DEF Stale, Subscribed, Unharmed, Outstanding
<1>3. Awaits(v)
  BY <1>2 DEF StaleIsNotified, Stale
<1> QED BY <1>3 DEF Awaits

(* A view whose filter looks at the key is a live list: whatever is bound, *)
(* hidden or uncovered anywhere in its chain, a notification is on its way *)
(* to an open view that has something else cached than find() returns, as  *)
(* long as no observer of its context failed.                              *)
THEOREM StaleViewsAreNotified == ByKey => (Spec => []StaleIsNotified)
<1> SUFFICES ASSUME ByKey PROVE Spec => []StaleIsNotified
  OBVIOUS
<1>1. Init => StaleIsNotified
  BY DEF Init, StaleIsNotified
<1>2. IInv /\ StaleIsNotified /\ [Next]_vars => StaleIsNotified'
  <2> SUFFICES ASSUME IInv, StaleIsNotified, [Next]_vars PROVE StaleIsNotified'
    OBVIOUS
  <2>1. ASSUME NEW c \in Contexts, NEW b \in Bindings, Add(c, b) \/ Unbind(c, b)
        PROVE  StaleIsNotified'
    BY <2>1, AddTellsViews, UnbindTellsViews
  <2>2. ASSUME NEW o \in Observers, Subscribe(o) \/ Unsubscribe(o)
        PROVE  StaleIsNotified'
    BY <2>2, SubscribeTellsViews
  <2>3. ASSUME NEW c \in Contexts,
               Close(c) \/ Take(c) \/ Deliver(c) \/ Delivered(c) \/ FailToDeliver(c)
        PROVE  StaleIsNotified'
    BY <2>3, CloseTellsViews, TakeTellsViews, DeliverTellsViews, DeliveredTellsViews,
       FailToDeliverTellsViews
  <2>4. ASSUME NEW c \in Contexts, Wait(c)
        PROVE  StaleIsNotified'
    BY <2>4, QuietTellsViews DEF Wait
  <2>5. ASSUME NEW v \in Views, ReadBindings(v)
        PROVE  StaleIsNotified'
    BY <2>5, ReadBindingsTellsViews
  <2>6. CASE UNCHANGED vars
    BY <2>6, QuietTellsViews DEF vars
  <2> QED BY <2>1, <2>2, <2>3, <2>4, <2>5, <2>6 DEF Next
<1> QED BY <1>1, <1>2, EventsInductive, PTL DEF Spec

=============================================================================
