# LoopBack 4: formal models

TLA+ models of LoopBack 4: its core (`src/packages/core`, `context`, `boot`, `metadata`),
the REST server with its pipeline and routers (`rest`, `express`, `http-server`), the
relations of repositories with the filters that constrain them (`repository`, `filter`), and
the pooling extension; the TLC configurations that check them on small instances; and
theorems that hold for every instance, proved with TLAPS. Paths below are relative to
`src/`, and those in the tables mostly to `src/packages`.

Run TLC with `tlc -config <run>.cfg <module>`, the prover with `tlapm <module>.tla` on
`ApplicationProofs`, `RegistryProofs`, `EventsProofs`, `ResolutionProofs`, `RestProofs`,
`PipelineProofs`, `ComponentProofs` and `SequenceLemmas`.

## The system

LoopBack is a library for Node.js. Everything runs on one event loop: code between two
`await`s is atomic, and whatever awaits can interleave with everything else. That is the
source of nearly all behaviour that is hard to test: several callers of one asynchronous
method, notifications that arrive after the state they report has changed again, caches
that are invalidated between two continuations, promises that reject while their siblings
are still running.

| Component | State it keeps | Operations | Interacts with |
| --- | --- | --- | --- |
| Application (`core/src/application.ts`) | `_state`, `_initialized`, `_isShuttingDown`, the signal listener | `init`, `start`, `stop`, `setupShutdown` | life cycle registry (awaits it), process signals, timers |
| Boot mixin (`boot/src/mixins/boot.mixin.ts`) | none of its own | `boot`, the override of `start` | application state, bootstrapper |
| Life cycle registry (`core/src/lifecycle-registry.ts`) | options (ordered and disabled groups, parallel) | `init`, `start`, `stop`, `setOrderedGroups` | a context view of the observers, and the observers |
| Binding sorter (`context/src/binding-sorter.ts`) | none | `compareByOrder`, `sortBindingsByPhase` | registry, interceptors, middleware |
| Context (`context/src/context.ts`) | registry of bindings, parent, caches of scoped values | `add`, `unbind`, `find`, `contains`, `get`, `close` | emits `bind` and `unbind` events |
| Context subscriptions (`context-subscription.ts`) | observers, the notification queue, the count of pending notifications, listeners on the parents | `subscribe`, `unsubscribe`, `close`, the background task, `waitUntilPendingNotificationsDone` | events of a context and of its ancestors; observers |
| Context view (`context-view.ts`) | cached bindings, cached values | `open`, `close`, `observe`, `bindings`, `values`, `resolve` | subscriptions, `find`, bindings |
| Binding (`binding.ts`) | scope, source, the value cache | `getValue`, `refresh`, `lock` | context, resolution sessions |
| Resolution sessions (`resolution-session.ts`, `resolver.ts`) | stack of bindings and injections | `pushBinding`, `popBinding`, `fork` | bindings, injection |
| Interceptors (`interceptor-chain.ts`, `interceptor.ts`, `invocation.ts`) | index into the chain | `invokeInterceptors`, `next` | invocation, context |
| Value-or-promise helpers (`value-promise.ts`) | none | `transformValueOrPromise`, `resolveList`, `tryCatchFinally`, `resolveUntil` | everything that resolves |
| Tag indexer (`context-tag-indexer.ts`) | bindings by tag, the bindings it listens to | handlers of `bind`, `unbind` and `changed`; `findByTagIndex`, `close` | events of its context and of the bindings |
| Metadata (`metadata/src`) | a map of specs per class, specs that are changed in place | `DecoratorFactory.decorate`, `inherit`, `mergeWithOwn`; the inspector | every decorator of the framework |
| Bootstrapper (`boot/src/bootstrapper.ts`) | none | `boot(phases, booters)` | booters, registry of artifacts |
| REST server (`rest/src/rest.server.ts`, `http-handler.ts`) | the request handler, the bindings `controllers.*`, `routes.*` and `API_SPEC` | `start`, `stop`, `requestHandler`, `route`, `controller`, `api` | an observer of these bindings, which binds routes itself; HTTP server |
| Routing (`rest/src/router`) | a map of fixed paths, a trie, a sorted array of patterns | `add`, `find` | REST server |
| Middleware and sequence (`express/src`, `rest/src/sequence.ts`, `rest/src/providers`) | chain per group, the response | `invokeMiddleware`, `sendResponse`, `findRoute`, `invokeMethod` | interceptors, view |
| HTTP server (`http-server/src/http-server.ts`) | `_listening`, address | `start`, `stop` | the Node server (and the `stoppable` library) |
| Pooling (`extensions/pooling`) | the pool | `acquire`, `release`, `start`, `stop` | `generic-pool`, observers |
| Repositories of relations (`repository/src/relations`) | the tables of sources, targets and links | `create`, `delete`, `link`, `unlink`, `unlinkAll` of hasManyThrough, each several queries without a transaction; inclusion resolvers | repositories of the models involved |
| Filter builder (`filter/src/query.ts`) | the `where` built so far | `impose`, `and`, `or`, `eq`, ... | constraints of relations |
| CRUD repositories, authentication, authorization | little; delegation and decisions | queries, strategies, votes | juggler, passport, interceptors |

`PROJECT.json` lists every component with its sources and status, and under `hazards`
the lines where things can go wrong in ways a test would hardly reach.

What makes each component correct:

* *Application*: one operation at a time; the life cycle of the documentation; every caller
  that waits is woken; nothing starts uninitialized; the signal listener neither leaks nor
  gets lost; a shutdown ends the process and does not kill an application that was
  restarted.
* *Life cycle registry*: each observer is notified once per operation, group by group in
  the configured order, in reverse for `stop`; an operation ends if its observers do.
* *Subscriptions and views*: an observer hears events in order and at most once; a view
  whose cache is out of date is going to be told; a failing observer harms only what came
  after it; waiting for pending notifications ends; values are cached under their binding.
* *Bindings and sessions*: a value is calculated once where its scope says so, also when
  it is asked for while it is being calculated; it holds nothing of a smaller scope; a
  refreshed value does not come back; circular dependencies are reported, and no others.
* *Interceptors and middleware*: a request is answered, by the framework only if nobody has
  done so, and after it by nobody whose turn it was before; nothing runs twice; who
  does not call `next()` keeps what comes after it from running; the context of an
  invocation is not closed under those that still run in it.
* *REST server*: the handler catches up with the bindings; a request in flight is answered
  by the owner of its endpoint although the handler is replaced; rebuilding ends.
* *Routers*: they find the same route for the same request.
* *Tag index*: it finds what a search without it would.
* *Metadata*: a class has the metadata of its base with its own merged in, and the base
  keeps its own.
* *Where builder*: a constraint cannot be lifted by what it is combined with.
* *Relations*: an operation deletes its own and nothing else's, no link to a deleted target
  stays, and entities get the related models that are theirs.
* *Pool*: a resource is lent to one borrower at a time, clean, and comes back; nobody waits
  for ever.

## The modules

| Module | Models | Composed with |
| --- | --- | --- |
| `LifeCycleStates` | abstract: the states of an application and the operations between them | implemented by `Application` |
| `Application` | callers of boot, init, start, stop; the signal listener | `LifeCycleStates` |
| `ApplicationProofs` | theorems about `Application` | |
| `ArrayMethods` | `indexOf` and `filter` of JavaScript arrays, by positions | extended by `BindingSorter`, `ViewPromise` and `InclusionResolvers` |
| `BindingSorter` | `compareByOrder`, `sortBindingsByPhase` | extended by `LifeCycleRegistry` |
| `ViewCache` | the cache of a context view, as operators on a record | used by `LifeCycleRegistry` and `ViewPromise` |
| `GroupNotification` | abstract: notification of observers group by group | implemented by `LifeCycleRegistry` |
| `LifeCycleRegistry` | one operation of the registry after the other, over a view | `GroupNotification`, `ViewCache` |
| `RegistryProofs` | theorems about `BindingSorter` and `LifeCycleRegistry` | `SequenceLemmas` |
| `ContextEvents` | a chain of contexts, their subscriptions and the observers, views among them | |
| `EventsProofs` | theorems about `ContextEvents` | `SequenceLemmas` |
| `ViewPromise` | what a view has cached, and that it is what its context has (`LiveList`) | `ViewCache` |
| `ContextView` | several callers that read one view | extends `ViewPromise` |
| `BindingResolution` | calls of `get()` and running factories: scopes, the value cache, sessions | |
| `ResolutionProofs` | theorems about `BindingResolution` and `DecoratorFactories` | `SequenceLemmas`, `MetadataPromise` |
| `IndexPromise` | the search by tags in the registries of two contexts, and in their indices (`IndexIsTrue`) | extended by `MCSequential` |
| `TagIndexer` | what changes the registries, the tags of their bindings and the indices | extends `IndexPromise`; run by `MCSequential` |
| `MetadataPromise` | the metadata of a chain of classes, and what they should be (`MetadataMerged`) | extended by `MCSequential` |
| `DecoratorFactories` | what changes them, decorator by decorator | extends `MetadataPromise`; run by `MCSequential` |
| `RestServer` | the request handler, the bindings it is built from, the HTTP server, requests | |
| `RestProofs` | theorems about `RestServer` | `SequenceLemmas` |
| `RequestPipeline` | one request in the middleware chain and the chain of its method | |
| `PipelineProofs` | theorems about `RequestPipeline` | `SequenceLemmas` |
| `Routers` | `TrieRouter` and `RegExpRouter` with the same routes | extended by `MCSequential` |
| `WhereBuilder` | a `where` that is built call by call | run by `MCSequential` |
| `InclusionResolvers` | the helpers and resolvers of relations, as operators on tables | extended by `EntityRelations` |
| `EntityRelations` | callers of a hasManyThrough repository, query by query | `InclusionResolvers` |
| `PoolPromise` | who has which resource: at most one (`Exclusive`), and clean (`Clean`) | |
| `ResourcePool` | the pooling service and its borrowers, over `generic-pool` (external) | extends `PoolPromise` |
| `ComponentProofs` | theorems about `EntityRelations`, `ContextView`, `TagIndexer` and `ResourcePool` | `SequenceLemmas`, the promises of the last three |
| `SequenceLemmas` | lemmas about least and greatest positions, removing and appending, and filtering by positions (`ArrayMethods`) | |
| `MC*` | constants for TLC; `MCSequential` runs four algorithms that nothing interrupts, one per behaviour | |

### Application

The variables are the fields of the class and, for each call, the method invoked (`op`),
the method whose body it executes (`body`; `init` inside of `start`) and where it is
(`pc`). `Call` is a method up to its first `await`; the early returns, `awaitState` and
the assertions are the disjuncts of `Enter`, in the order in which the code tries them.
`Complete` is the continuation after the registry or the bootstrapper has fulfilled its
promise, with the event that wakes the waiters; `Fail` is its rejection, after which the
state stays in process, as in the code. `Resume` is `start()` after the `init()` it
awaited, whatever happened meanwhile. `Signal`, `FinishShutdown` and `GraceExpires` are
the signal listener, its `finally` block and its timer. `kill()` removes *one*
registration of the listener and sends the signal again: the process survives if another
registration catches it.

Signals and timers come from the event loop, which runs due continuations first: guard
`Quiet`. A plain caller's method call is not so restricted, because the listener of a
`stateChanged` event, or a continuation, can call a method at any point.

A signal without a listener is not modelled (Node ends the process). `ErrorEvent` is an
`error` event emitted on the application while somebody is in `awaitState`
(`events.once` rejects on it); the context emits one when an observer of its bindings
fails.

### LifeCycleRegistry

`run` holds the locals of `notifyGroups`. One operation is `Begin` (grouping, which sorts
the cached array of the view in place), `Tick` and `Resolved` (`values()`), `Collect` (the
second read of the bindings), and then group after group: all members at once
(`NotifyParallel`, `GroupNotified`) or one by one (`EnterGroup`, `NotifySerial`).
`Settle` fulfils or rejects what an observer returned. The members of a group are looked
up by the *position* of their binding in the array read after the await: an index into an
array that may be newer than the groups, so that a member may be undefined. Around it, `Bind`, `Unbind`,
`SetOrderedGroups` and the late `Notify` of the view interleave with every step.

Every observer has a method for every event. `GroupIn` takes the explicit group tag, then
the first ordered group that is among the plain tags, as `getObserverGroup` does, while
`Sorted` sorts by the explicit tag alone, as `sortObserverBindingsByGroup` does.

### ContextEvents

Each context has a queue of notifications (the number of the event, the binding, the
observers still to be told), the one that its background task works on (`current`), its set
of observers in the order in which they subscribed, the count of pending notifications, and
whether it listens to its ancestors (`hooked`). `Add` and `Unbind`
change the registry and emit; `Receivers` are the contexts whose managers react: the
context itself, and descendants that listen to it, unless they contain the key
themselves (`handleParentEvent`). `Take`, `Deliver`, `Delivered` and `FailToDeliver` are
the background task: the loop of `notifyObservers` goes through the observers, passes over
those whose filter does not match (`ComesTo`), and awaits each one that it tells; `Wait` and `WaitEnds` are `waitUntilPendingNotificationsDone`;
`Close` unhooks and lets the task still deliver what the queue's iterator has already taken
(any prefix). Views are observers that drop their cache; watchers are observers that may
fail.

Abstractions: keys are few, and a filter is the set of bindings it matches and does not
depend on what is bound; the order in which `find` returns bindings is left to
`ContextView` and `LifeCycleRegistry`, where it is the order of insertion. Only contexts
without children are closed. A context is not subscribed to again after `close()`; nothing
in the framework does so. A view is read only once it is open (`ReadBindings` requires the
subscription): `open()` keeps an older cache. Some context of the chain has a listener for
`error` events, as the application has while it waits: otherwise a failing observer ends
the process.

### ContextView

Several callers of `values()` on one open view. `Call` is the part before the `nextTick`;
then the cached values are returned (`ReturnCached`), resolved at once (`ResolveNow`), or
waited for (`ResolveLater`, then `Resolved` or `Rejected`), while bindings change
(`Change`) and notifications arrive late (`Observe`). Calls overlap in any way. The history
variable `overtaken` holds the calls that are waiting for their values while another reader
has found the bindings anew, and `outdated` says that the cached values come from such a
call: the code lets it put them in the cache, where they need not fit (`View_overlap`), and
this is the one case that `LiveList` leaves out. It does not leave out the other calls that
overlap, nor what is in the cache after the next notification.

A binding in `Singletons` that has been unbound has no owner context any more and resolves
to `undefined` (`Disowned`), which `resolve` drops; a view that has not been told yet then
caches one value less than it has bindings, and the values after the gap belong to the
bindings before them until the notification arrives. That is why `LiveList` speaks of the
time after the notifications only. `LifeCycleRegistry` treats values in the same way
(`ValuesOf`), and its property `CacheTrue` is stated for a view without pending
notifications.

### BindingResolution

Tasks are the calls of `get()` and the factories that they, or other factories, start. A
task resolves its dependencies one after the other: each time `Binding.getValue` finds
the context where the value belongs (`CheckedContext`, `Place`), looks for the binding on
the session's stack (`Circular`), awaits the cached promise (`UseCached`) or runs the
factory (`Calculate`). The cache maps a binding and a context to the *task* whose promise
it holds, so a promise that is not settled yet, or is rejected later, stays in it, as in the code,
until `refresh` (`Refresh`) or a new source or scope (`SetSource`). A factory that throws at
once caches nothing (`Throw`). `generation` counts the resets and exists for the
properties only. A session is the path of bindings from the call to a factory (`PathTo`).
A call of `get()` is a context with a key (`Wanted`); what a key means to a factory is looked
up in the context of the factory when it starts (`Lookup`), through the chain (`Nearest`).

Abstractions: factories are either immediate, without dependencies, or asynchronous: they
await something, and then one dependency after the other, in their own session, as an
asynchronous factory, a provider or an injected getter does. Constructor injection
resolves all dependencies at once in forks of the session; its interleavings are among
those of the model. Left out: `optional`, proxies with interceptors, aliases, injection
of configuration, and changing the bindings of a context meanwhile.

### RestServer

Controllers, routes and the API specification are bindings; `handler` is the routing table
of the current `_httpHandler`, which requests look their route up in. `BindController`,
`UnbindController`, `BindRoute`, `UnbindRoute` and `Api` are what users call; each sends
notifications to the observer (`pending`), which exists once the first handler has been set
up. `Observe` is the observer: it builds a new handler, and in doing so `_createHttpHandler`
unbinds the old controller routes and binds the new ones, which are bindings again:
`Echoes` counts those of its own changes that it hears, which are the routes of the user
that a controller's route replaces. A build that throws leaves a handler with a part of
the routes (`Operations`, `BuildFails`). `Start`, `Listening`, `Stop` and `Closed` are the
server's life; `Receive`, `FindRoute` and `InvokeMethod` a request's. `promised` exists for
the properties only: the owner of the endpoint when the request came, until a change makes
that another one.

Abstractions: a route is its owner; the order in which routes match is that of `Routers`;
the notifications of the context's queue are counted, because the observer does the same for
each (their order is a matter of `ContextEvents`).

### RequestPipeline

The functions are numbered: the sequence is 0, the middleware chain `1..Method`, with
`sendResponse` first and `invokeMethod` last, and the chain of the method
`Method+1..Target`, with the method itself last. Each chain has *one* `index`, shared by
all `next()` calls of an invocation (`Following`), as in `InvocationState`: a second
`next()` goes on where the first has. A function may have to be loaded from its binding
first (`Load`), which can fail. `Next1` is what the functions of the framework do, `UserNext`
and `Settle` those of the user: they call `next()` up to `MaxNext` times, wait for it or
not (`hasty`), and settle with a value, an error or the response object. `HandlerProceeds`,
`HandlerFails`, `HandlerFinishes` and `HandlerReturns` are an Express handler and its
wrapper, which returns the response once somebody has written it. `Write` is any function of
the user, or the method, that writes the response while it runs, or after it has returned
the response object, whether somebody has written before or not. `CloseInvocation` closes
the context of the invocation once its chain has settled. `SendResponse` writes the result
unless it is the response itself or the headers have been sent, or else the error, and
`SequenceEnds` leaves the rest to the error handler of Express.

Abstractions: a function of the user that has returned a value or an error does not write
any more, and each writes once; what is written is left out.

### EntityRelations and InclusionResolvers

A client runs one operation of a `hasManyThrough` repository at a time, query by query:
`Create` and `LinkCreated`, `Link`, `Unlink`, `UnlinkAll` and `DeleteLink`, and `Delete`,
which reads the links of the source, groups them by the type of their target
(`Categorized`), and for each type removes links (`DeleteAllLinks`, or `FindMatching` and
`DeleteOwnLinks` with a condition) and then targets (`DeleteTargets`). `Fail` rejects any
query. Operations of other clients come in between. The through table is a sequence of
links with generated keys; targets of different types may have the same id.

`InclusionResolvers` has the resolvers as operators from tables to included models; the
properties `Includes` and `IncludesPolymorphic` compare them, in every state that the tables
can reach, with a query of each entity's own. Of the scope of an inclusion, `limit` and
`totalLimit` are modelled, and of the options `isThroughModelInclude`, which the resolver of
hasManyThrough passes to its query of targets and with it to what is included below:
`FindByForeignKeys` is one query or one for each key, as they say. The limits of polymorphic
relations, and the other parts of a scope, are left out.

### ResourcePool

`Acquire` queues a borrower; the pool creates resources up to its maximum (`Create`,
`Created`), lends them in the order of requests (`Lend`), and the borrower goes through its
hooks: `SetUp`, `Use`, `Release` or `ReleaseFails`, `Destroy`. Hooks fail at any point.
`Stop` drains the pool. `used` says which resources have been used since they were last
cleaned, for the properties. The actions under the heading `generic-pool` are that
package's, as `pooling.ts` uses it; a resource that is being stopped does not count any
more, so that `Resources` has more slots than `MaxResources`.

### Sequential algorithms

What nothing interrupts is in modules of its own, as long sequences of calls are what makes
it hard. `MCSequential` composes the four of them by a variable `algorithm`, which chooses
the one that takes the steps; the others stay in an initial state. They share nothing.

* `Routers`: routes are added to both routers in any order; `RoutersAgree` compares what
  they find for every request. The trie is a sequence of nodes in the order of their
  creation, searched depth first; the other router sorts by `compareRoute`. Verbs, external
  routes and redirects are left out.
* `TagIndexer`: bindings are added, replaced, removed and tagged, before and after they are
  bound, in a context and its parent; `FindByTag` is the index, `FindBindings` the search
  it stands for. The indexer hears `changed` only of the bindings it listens to.
* `WhereBuilder`: a `where` that a caller passes, and the calls that constrain it further.
  `Admits` is what a `where` means.
* `DecoratorFactories`: decorators of one factory are applied to classes, members and
  parameters of a chain of classes, base first, as the language does it. Specs are objects
  that are changed in place; maps refer to them, so that sharing, and copies that are not
  deep, are visible. `Merged`, in `MetadataPromise`, is the metadata of a class as they should
  be, calculated from those of its base and from what has been applied to it.

## The runs

| Run | Question | Bounds and why they are enough |
| --- | --- | --- |
| `Application` | All safety properties, the refinement, and that calls settle | four calls of any method (one that runs, one that waits, one inside `start`, one that interferes), one signal with a grace period, failures at any point: 165,000 states |
| `Registry` | Notification by groups in both directions, serial and parallel, with a disabled group; operations end | four observers in three groups, two of them in the same one, bound in any order and number, two operations, every choice of options; any observer may fail, also while the other one of its group is being notified: 52,000 states |
| `Registry_dynamic` | Nobody is notified twice while bindings and options change | two observers share a group, two changes, one reordering, two operations: every step of one operation can be cut by each change |
| `Events` | Staleness is notified, order, pending counts, eventual freshness, waits end | a parent and a child, two bindings that share a key (hence shadowing), a view and a watcher that may fail, two changes, unsubscribing and closing at any point |
| `View` | The cache is right once all notifications are in | three bindings, of which two have promises, two are singletons and one resolves to null, two callers that overlap in any way, four changes: 90,000 states |
| `Resolution` | Values are shared and confined as their scopes say; only real cycles are reported; everyone is answered but for those in a circle across sessions | an application and a request, eight bindings of all scopes, one shadowed, a cycle of two that can be entered at both, two calls, one reset, failures at any point: 382,000 states; the number of tasks has no bound of its own: it follows from the calls, the resets and the cache |
| `Rest` | Does the handler catch up, are requests in flight undisturbed, does rebuilding end | a fixed and a templated path, two controllers that claim a path both, and a binding that is no class, API specifications in agreement and in conflict with them, one request, four changes (bind two controllers, replace a route, change the specification): 134,000 states |
| `Pipeline` | Is a request answered, by the framework last and only if need be; does anything run twice; do those that skip `next()` end the chain; is the context closed last | an Express handler and one function of the user in the middleware chain, two interceptors (one that may skip and one that can be skipped, or bypassed), two calls of `next()` each, which is what it takes to go past a function; two writes by functions of the user, one before and one after another's, or the framework's: 1,917,000 states |
| `Relations` | Does `delete` remove what it must and nothing else, are the links of others spared, do resolvers distribute rightly | two sources, two types with two ids each (so that ids coincide across types and a target is shared), two clients, four operations, failures of any query: 127,000 states up to symmetry |
| `Relations_polymorphic` | The same of polymorphic relations? No | as above |
| `Pool` | Is a resource lent to one at a time, and clean; is everyone served, and does `stop` end | three clients for two resources, so that one waits, a slot for a resource that is being stopped, one failure of the factory, any number of failing hooks: 37,000 states |
| `Sequential` | Routers agree; the index is true; constraints hold; metadata are merged | all tables of three routes of up to two segments; two bindings of one key and one of another, three tags in all, three changes; a where of two properties and three calls; a chain of three classes with two members, four applications: 420,000 states together, up to symmetry |

Counters (`runs`, `rebinds`, `regroups`, `changes`, `emitted`, `requests`, `resets`, `calls`,
`operations`, `failures`, and the numbers of routes, tags and applied decorators) are
bounded in the guards by constants (`Max...`); a behaviour may stop there, so deadlock is
not checked: also the program stops when nobody calls it.

Every module has a type invariant. Those of `Application`, `LifeCycleRegistry`,
`ContextEvents`, `BindingResolution`, `RestServer`, `RequestPipeline`, `EntityRelations` and
`ResourcePool` are proved; the runs spend their properties on other questions.

Every property of a passing run has a mutant in `PROJECT.json`: a plausible mistake in a
mapped definition under which TLC finds the property violated in the same run.

### Counterexamples that can be reproduced

These configurations end with a counterexample. They document where a condition of a
property is needed or where the code differs from what is said about it.

| Configuration (module) | What it shows |
| --- | --- |
| `Application_waiters` (`Application`) | a waiter never learns that the operation failed |
| `Application_signal` (`Application`) | a caught signal does not end the process if a restart comes in between |
| `Registry_server` (`MCLifeCycleRegistry`) | servers bound by `Application.server` are not started last |
| `Events_shadow` (`MCContextEvents`) | a child's binding that does not match the filter keeps the events of its key from the view |
| `View_overlap` (`ContextView`) | two callers that resolve at the same time leave old values in the cache (`AlwaysLive`) |
| `Resolution_cycle` (`MCBindingResolution`) | two calls that enter a cycle at different places wait for ever (`EveryRequestSettles`) |
| `Rest_api` (`MCRestServer`) | `api()` does not take precedence if its path has variables and is taken |
| `Pipeline_bypass` (`RequestPipeline`) | a function that skips `next()` is bypassed by an earlier one that calls it twice |
| `Decorators_documented` (`MCSequential`) | methods after the first do not inherit, and inherited properties cannot be decorated any more |

### Fairness

* Continuations and armed timers run (`Resume`, `FinishShutdown`, `GraceExpires`, the steps of
  a registry operation, the background task of a context, `Observe` and `Serve` of `RestServer`,
  the tasks of `BindingResolution`, whose fairness is one condition for all, because each step
  brings its task forward): the event loop guarantees it.
* What is awaited settles (`Complete \/ Fail`, `Settle`, delivery to an observer, `Proceed` of
  `RequestPipeline`, `ClientStep` and `PoolStep` of `ResourcePool`): an assumption on user
  code, for the pool that whoever has acquired a resource gives it back, as the documentation
  demands. Liveness properties say what LoopBack adds under it. `Proceed` and `PoolStep` are
  fair as a whole: each of their steps brings a request, or a resource, forward, and the
  pool's `MaxFailures` bounds how often creating fails.
* Nobody has to call anything: `Call`, `Signal`, `Bind`, `Unbind`, `Change`, `Request`,
  `Refresh`, `UserNext`, `Acquire`, `Start` and `Stop` are never fair.

## What the models show

Held in all interleavings within the bounds: operations exclude each other and keep the
life cycle; no wake-up of `awaitState` is missed as long as operations succeed; the listener
count is balanced over stop and restart; an application restarted during a shutdown is not
killed half way; groups are notified in order, each observer once; events are heard in
order across a chain; open views become fresh; a value is calculated once per scope however
many ask for it, and holds nothing of a request that it outlives; the request handler
catches up with its bindings and replacing it harms no request; a request is answered
whatever its middleware does, by the framework if nobody else has; tasks wait for each other
for ever only in circles across sessions; a pool neither leaks nor lends twice whichever hooks fail;
operations on links of one source spare those of others; the tag index, the routers, the
where builder and the decorator factories do what a simpler definition of theirs says, under
the conditions stated with each property.

One difference is listed under `findings`, as the run `Relations_polymorphic`:
`has-many-through.inclusion-resolver.ts` groups the links of all sources by the type of
their target, queries each type once and shifts the targets back one per link (line 187),
and its comment explains "Why the order is correct:" (line 164). But the query returns each
target once, however many links lead to it, and in the order of its own table: sources that
share a target, or whose links are in another order, get too few targets or those of others.

Differences that the other configurations reproduce:

1. Waiters of `awaitState` are never told that the operation failed (`application.ts:298`;
   `docs/site/Life-cycle.md:31-33`: "it awaits the operation to finish").
2. A restart between the end of the shutdown's `stop()` and its `finally` block registers
   the listener again; the process survives and `_isShuttingDown` makes it deaf to all
   later signals (`application.ts:594`; the comment at `:584`: "Set up signals that are
   captured to shutdown the application").
3. `Application.server` gives a plain tag `server`, which is not what the registry sorts by:
   such a server starts before named groups and before ungrouped observers that were
   bound later (`lifecycle-registry.ts:127`; the comment at `:117-118`: "we can start other
   observers before servers").
4. `handleParentEvent` drops a parent's event if the child contains the key at all, while
   `find` lets a child's binding hide a parent's only if both match
   (`context-subscription.ts:166`; `context-view.ts:37-39`: "a live list of matching bindings").
5. A slow read of a view caches its old values under bindings that another reader has found
   since (`context-view.ts:216`; the same comment), and they stay there until the next
   notification. `LiveList` says that nothing else is ever wrong in the cache.
6. Two calls that enter a cycle of asynchronous, cached bindings at different places await
   each other's promise for ever: each session knows only its own path (`binding.ts:521`;
   `docs/site/Dependency-injection.md:308-309`: "can detect circular dependencies").
7. An operation of `api()` whose path has variables and is decorated on a controller, too,
   makes the trie throw for a duplicate, and the new handler lacks the operation and those
   after it (the comment of `api()` in `rest.server.ts:802-805`: it "will override any routes
   defined via decorators").
8. The `next()` calls of an invocation share one index: an interceptor that calls it twice
   goes past one that did not call it (`docs/site/Interceptor.md:653-656`: "If `next()` is not
   invoked, neither downstream interceptors nor the target method be executed").
9. `MethodDecoratorFactory.mergeWithOwn` does not merge inherited metadata for the methods
   that a class decorates after its first, and `PropertyDecoratorFactory.mergeWithOwn` throws
   for an inherited property once the class has metadata of its own
   (`packages/metadata/README.md:326-330` and `:406-408`).

One more is excluded by a condition of a property, and comes out as a counterexample when
the condition is taken away:

10. `fetchHasManyThroughModels` passes the option `isThroughModelInclude` to its query of
    targets, which hands it on to the inclusions below: a hasMany that is included there
    with a `limit` is fetched by one query with that limit for all targets together
    (`relation.helpers.ts:54-56`), so that later targets get too few or none
    (`docs/site/Include-filter.md:287`: "The `limit` filter will be applied on a per parent
    record basis"). It is the disjunct `~below \/ scope.limit = NONE` of `HasManyRight`.

Noticed while reading and not turned into a run:

* `stop()` of an application that is created or booted returns without making it
  `stopped` (`application.ts:402`).
* An order set by `setOrderedGroups`, or an observer bound, while `values()` is awaited
  misaligns groups and observers: with `Regroups = 1` or `Rebinds = 1`, notification by
  groups no longer holds; `Registry_dynamic` shows what still does.
* Values that are null are dropped before values and bindings are paired by position: the
  values after them are shifted. `LiveList` allows for that (`ValuesInCache`); `CacheTrue` of
  the registry, which looks values up by position, holds only if `Absent = {}`.
* A function that returns the response object without writing it leaves the request without
  an answer, as the comment at `writer.ts:22` says: `Answered` counts that as done
  (`LeftToUser`).
* A promise that is rejected stays in the value cache of its binding, and all later calls
  get the same error until a refresh; a factory that throws synchronously is run again.
* A singleton's owner is looked up by its *key* (`context.ts:537`): a view of a child that
  binds the key to something else calculates the parent's singleton once more, in the
  child.
* If an observer of a context fails, later observers of the same event are not told and
  the pending count never returns to zero (`Unharmed` in `ContextEvents`).
* `LIFE_CYCLE_OBSERVER_OPTIONS` bound without `parallel` means one by one, although
  `docs/site/Life-cycle.md` gives `true` as default.
* `ContextView.open()` keeps a cache from before; the bootstrapper leaves the phases that
  all booters have done when a later one fails; `tryCatchFinally` runs its final action
  twice if the error action of a synchronous failure returns a value (`value-promise.ts:224`).
* After `Context.close()` the tag indexer still listens to `changed` of its bindings.
  `findByTag({})` returns nothing, while `filterByTag({})` matches everything, and value
  matchers that match an absent tag find less through the index.
* A decorator function that is applied to several members shares one spec: a subclass that
  decorates one of them anew changes the other, too, because the clone keeps the sharing, or
  gets an error. Specs that are class instances are not cloned: inheriting changes the base's.
* The trie does not come back from a literal to a variable; variables with different names
  at the same place make its result depend on the order of registration; in strict mode it
  still ignores the slash at the end of paths with variables, which the comment in
  `rest-router.ts:30-43` says it does not. `RegExpRouter` ignores case.
* A middleware whose configuration changes while a request waits for it is built from the
  old one and kept (`middleware-interceptor.ts:249`).
* `FilterBuilder.impose({})` throws a TypeError, and a constraint whose keys are all names
  of filter fields, such as a foreign key `order`, is taken for a filter.
* hasManyThrough: `delete()` without condition and `unlink()` of a polymorphic relation
  remove links to targets of another type with the same id (the condition of
  `SparesOthers` allows for that); `delete()` with a condition leaves links of other sources
  to what it deletes; `unlinkAll()` without links throws; `patch()` writes an `inq` constraint
  into the data; a failed link leaves `create()` with a target that nobody is linked to.
* A resource that is released twice, while another borrower has it, is taken from that
  borrower.

## The proofs

### Application

`ApplicationProofs` proves about `Application`, for any set of calls, with and without a
grace period or failures, from `HandlerAssumption` (the signal listener's call is none of
the others) and `FlagAssumption`:

| Theorem | States |
| --- | --- |
| `TypeCorrect` | `[]TypeOK` |
| `OneOperationAtATime` | `[]SoleOperation` |
| `NoMissedWakeUp` | `[]NobodyWaitsInVain` |
| `InitComesFirst` | `[]InitializedWhenUp` |
| `ListenersBalance` | `[]ListenerBalance` |
| `Inductive` | `[]IndInv` |
| `NoRestartIsKilled` | `NoKillAfterRestart` |
| `KeepsLifeCycle` | `LifeCycle`: `Application` implements `LifeCycleStates` |

The safety properties are not inductive alone. That nobody else changes the state while an
operation runs rests on the fact that a state in process is *held* by a call
(`InProcessHeld`), or a second call might find it so and wait for nobody. That `start()`
finds the application initialized after its wait rests on `ResumesInitialized`, which in
turn needs to know that only an `init` inside of `start` is ever resumed (`InnerInit`),
that `init` leaves `initialized` set (`InitializedWhenReady`) and that no operation before
`init` can run again after it (`StableWhenDone`). `IInv` is their conjunction. `EnterCore`
and `CompleteCore` are the two steps that matter: a call enters a method, and an operation
ends with its waiters.

`NoKillAfterRestart` needs an account of the listeners *during* a shutdown, when
`ListenerBalance` says nothing: the signal finds one registration and a `stop()` that it
begins takes none away; once that `stop()` has succeeded, only a restart leaves state
`stopped`, and it registers the listener a second time (`RestartRegisters`). So if
`kill()` finds a single registration, the state is `stopped`. This invariant,
`ShutdownInv`, is inductive relative to `IInv`; `IndInv` is their conjunction.

The refinement follows from `IInv` step by step (`EnterRefines`, `StepRefines`): what
begins an operation is `Begin`, what completes it is `End`, all else stutters.

### The life cycle registry

`RegistryProofs` proves about `LifeCycleRegistry`, for any finite set of observers, any groups,
tags and options, and any numbers of operations and changes, from `ObserversAssumption`
(groups have names, and `undefined` is none of the observers):

| Theorem | States |
| --- | --- |
| `RegistryTypeOK` | `[]TypeOK` |
| `NobodyNotifiedTwice` | `[]NotifiedOnce` |
| `CachePairsValues` | `[]CacheTrue`, if no binding resolves to null (`Absent = {}`) |
| `RegistryNotifiesByGroups` | `NotifiesByGroups`: `LifeCycleRegistry` implements `GroupNotification`, under `FixedGroups` |

`Array.filter` and `sort` are defined by positions (`Filtered`, `InOrder` in `ArrayMethods`),
and lemmas of `SequenceLemmas` and `RegistryProofs` say what the proofs need of them: filtering keeps the order
(`FilteredKeeps`), sorting by a preorder gives a permutation in that order
(`SortingPermutes`, which rests on `OrderPlaces`), and `compareByOrder` is such a preorder
for any list of groups (`Compares`). `GroupsPartition` says that the groups of a list of
bindings partition it.

*Nobody twice.* `NotifiedOnce` holds although an operation looks observers up in bindings
that may be newer than its groups. `IInv` says why: groups stay a partition of distinct
bindings (`Partitioned`), the bindings, values and members are without duplicates
(`Unique`), and whoever is in a group that is still to come, or among the members that
are left, is not in the log (`NotYet`). A group whose binding is gone contributes
`undefined`, never somebody else twice.

*The cache.* `updateCachedValues` pairs values and bindings by position. `Fresh` says that
this is right: once no notification is on its way, the bindings under resolution are still
those in the cache, if it has any, because the notification of a change drops those that it
had.
The hypothesis is needed, because `resolve()` drops nulls before the pairing.

*By groups.* `FixedGroups` says that neither bindings nor the order of groups change
(`Rebinds = 0`, `Regroups = 0`), no binding resolves to null, and the group that
`getObserverGroup` names is the tag by which bindings are sorted. The first three are what
keeps positions aligned between the two reads of the bindings; the last is what
`Registry_server` shows to be needed. Under them, `OInv` says that the cached array is
sorted (`CacheSorted`), that the operation has looked up the observers of that array
(`ObserversFound`), that the groups that are left are in the order of the event
(`GroupsInOrder`) and after the group whose members are being notified (`MembersNext`),
and that everybody who is enabled is in the log, in a group to come or among these members
(`Covered`). A step that notifies then takes the next group as a whole, or one member of it
while nobody of an earlier group is left or busy, which is a step of the abstract
specification; all other steps stutter. It takes `GroupsAscend` (the groups of a sorted
array ascend strictly) and `RankGrows` (the rank that the abstract specification gives to
a group follows the order of the comparison).

### Context events

`EventsProofs` proves about `ContextEvents`, for any tree of contexts, any number of
observers, bindings and events, with and without failing observers, from
`HierarchyAssumption` (the ancestors of a context are a chain):

| Theorem | States |
| --- | --- |
| `EventsInductive` | `[]IInv` |
| `EventsTypeOK` | `[]TypeOK` |
| `PendingAlwaysCovers` | `[]PendingCovers` |
| `HeardAlwaysInOrder` | `[]HeardInOrder` |
| `StaleViewsAreNotified` | `[]StaleIsNotified`, if bindings of one key match the filter both or neither (`ByKey`) |

`HeardInOrder` is about the past of an observer, while the next event that it hears comes out
of a queue. `IInv` connects the two: a queue holds later and later events (`Ordered`), all
later than what the observers of its context have heard (`Told`), and what the task works on
comes in between; an observer that is still to be told of that event has not heard it yet.
An observer is told only once per event because a snapshot names it once (`Snapshots`), and
only by one queue because it is at home in one context.

For `StaleIsNotified`, every step that changes what `find()` returns has to send the view an
event. `Reached` says that the managers up the chain are set up for whoever is subscribed.
`UnseenKeepsFind` shows the converse: if a change of context `x` cannot be *seen* from the
view's context, because a context in between has the key, then `find()` returns what it did.
This is where `ByKey` is needed: `handleParentEvent` stops at a context that contains the
key, `find` only at one whose binding also matches. Filters by key, as `filterByKey` makes
them, satisfy it; without it the theorem is false, as `Events_shadow` shows. The rest of
the proof is that an event on its way stays on its way until the view has dropped its
cache; `Unharmed` excludes what gets lost when an observer fails.

### Resolution of bindings

`ResolutionProofs` proves about `BindingResolution`, for any contexts, scopes, bindings and
dependencies, and any number of calls, resets and failures, from `ContextAssumption` (the
chain of a context begins with the context) and `BindingAssumption` (a context has one
binding per key):

| Theorem | States |
| --- | --- |
| `ResolutionInductive` | `[]IInv` |
| `ResolutionTypeOK` | `[]TypeOK` |
| `CacheAlwaysCurrent` | `[]CacheCurrent` |
| `AlwaysCalculatedOnce` | `[]CalculatedOnce` |
| `AlwaysConfined` | `[]Confined` |
| `OnlyRealCyclesReported` | `[]OnlyRealCycles` |
| `CirclesAcrossSessions` | `[]CirclesApart` |

`CalculatedOnce` compares any two tasks of the past. The cache remembers one: the newest
calculation of a value since the last reset is the one in the cache (`Latest`). So, when a
task finds the cache empty, there has been none since the reset, and the one that begins is
alone with its generation (`OneEach`). For singletons, that the contexts agree follows from
`Placed`. `Confined` rests on `LooksUp`, which says that what a task is going to resolve is
what its own context sees, and on `PlaceIsSeen`: a value is placed in a context that is seen
from there. For `OnlyRealCycles`, `OnPath` says that each binding on the stack leads, by
dependencies, to the binding on top; `StackLeadsOn` closes the circle. "Leads to" is
`Reach`, the least closed set of keys, which spares the proof an induction over paths.

`CirclesApart` is why `RequestsSettle` has one exception and no other: of tasks that await each
other in a circle, two have been begun independently. `Sessions` says that nobody awaits the
value of a binding that is on its own stack. If all tasks of a circle were begun one by the
other, their stacks would be prefixes of each other, and the one with the longest would
await a binding on it. That a circle is the only way to wait for ever is liveness, and left
to TLC.

### Metadata of decorators

`ResolutionProofs` also proves about `DecoratorFactories`, for chains of classes of any length,
any members, parameters and fields, and any number of decorators of each of the five kinds,
from `FactoryAssumption` (there is a class, and what stands for `undefined` is neither a
number, a map nor a place):

| Theorem | States |
| --- | --- |
| `MetadataMergedAlways` | `[]MetadataMerged` |
| `MetadataApart` | `[]MapsApart` |

That the metadata of a class are merged rightly is not inductive: decorating a class changes
specs in place, which must not be those of a base. `MapsApart` says so without conditions:
no two classes have a spec in common, because a class starts from a deep copy (`Cloning`) and a
spec that bears the name of a class cannot be given to another. With it, a step
leaves the metadata of the bases alone, and the classes above have none yet. `MapRight` is
about a class that shares no decorator function with its bases: no two of its places share a
spec, those that it has decorated are exactly those whose specs bear its name, and none has
been decorated twice. The first two keep a step from changing another place of
the same class; the last two tell which duplicates the factories report, so that an error is
raised only for a place or a function that was used before. For `methodParameter` decorators,
the reason is that the index counts down (`CountsDown`). `DInv`, the conjunction of all this,
has also been checked by TLC within the bounds of `Sequential`.

### The REST server

`RestProofs` proves about `RestServer`, for any finite set of endpoints, any controllers, API
specifications, requests and numbers of changes, from `RestAssumption`:

| Theorem | States |
| --- | --- |
| `RestInductive` | `[]IInv` |
| `RestTypeOK` | `[]TypeOK` |
| `HandlerUpToDate` | `[]UpToDate` |
| `RequestsUndisturbed` | `[]Undisturbed` |

Without notifications on the way, the handler is what building one *now* would give, and
the routes are those that building binds (`Fresh`). The step that matters is the observer's,
because it changes the bindings it builds from: `Rebuilding` shows that building is
idempotent, that is, the routes it has bound make the next build neither bind nor register
anything else. `Undisturbed` is about the answer that a request gets in the end; `Promises`
follows it from the table over the route that was found to the controller that is invoked,
and `BuiltOffers` says that whoever the table offers is bound. A handler that is replaced
in between leaves the promise as it is, because the new one is built from the same bindings.

### The repository of a relation

`ComponentProofs` proves about `EntityRelations`, for any sources, types, ids and
conditions, any number of clients and operations, and any failing queries, from
`RelationsAssumption` (ids are numbers, `NONE` is none):

| Theorem | States |
| --- | --- |
| `RelationsInvariant` | `[]RInv` |
| `RelationsTypeCorrect` | `[]TypeOK` |
| `RelationsDeleteRightly` | `DeletesRightly` |
| `RelationsSpareOthers` | `SparesOthers` |

These are action properties: what a query does depends on what its operation has read
several queries before, while others went on. `RInv` says what is left of that knowledge. A
`delete()` knows only targets that have been linked to its source (`KnowsOwn`), and since
keys of links ascend, "the links that it has read" are those below the key that it
remembers: of these, it knows the ids of all that match its condition (`KnowsMatching`),
and once it has deleted links, none of those that it should delete is left
(`HasUnlinked`); other clients only add links with later keys, or remove some. A target
that is gone does not come back (`TablesMove`), so that neither can be undone. When nobody
comes in between, there are no later keys, and it knows all links of its source
(`KnowsAll`). `BystandersKnow` shows that a client keeps all this while others take steps.

### Views

`ComponentProofs` proves about `ContextView`, for any bindings, readers and changes, with and
without rejected values:

| Theorem | States |
| --- | --- |
| `ViewIsLive` | `[]LiveList` |

The only assumption is `ViewAssumption`: what stands for "nothing cached" is neither a binding
nor a list of them. `ViewInv` adds to `LiveList` what a reader holds while its values are
resolved: if no event is on its way, the bindings are cached and the reader has not been
overtaken, then they are the bindings of the context and the reader's values are theirs. An
event drops the cached bindings; whoever finds them next overtakes all that are waiting at
that time, and until then a reader who ends caches no values.

### The tag index

`ComponentProofs` proves about `TagIndexer`, for any bindings and values, any finite set of
tag names and any number of calls, from `TagAssumption` (what stands for `undefined` is
neither a value of a tag nor a set of bindings):

| Theorem | States |
| --- | --- |
| `IndexAlwaysTrue` | `[]IndexIsTrue` |

`TagInv` says of each context that is not closed that the entry of a name in its index is
the set of the bindings in the registry with a tag of that name (`IndexOfRegistry`), and that
it hears `changed` of exactly the bindings in its registry; without the latter, a binding that
is tagged after it has been removed would come back. `IndexFinds` is about the search: a
map of tags is looked up name by name, and stops at the first without a match, which is right
because what has all tags is found under every name.

### The pool

`ComponentProofs` proves about `ResourcePool`, for any borrowers, any finite set of resources and
any maximum, from `PoolAssumption`:

| Theorem | States |
| --- | --- |
| `PoolInductive` | `[]PoolInv` |
| `PoolTypes` | `[]TypeOK` |
| `NothingLeaks` | `[]Exclusive` |
| `NothingDirty` | `[]Clean` |

That a resource is lent to one borrower is not inductive alone: the pool lends to the head of
its queue, and the proof must know that this borrower has no resource yet. `PoolQueued` says
that those in the queue are those that wait, each once. `PoolQueueStep` is about queues,
`PoolExclusiveStep` about resources that change hands and `PoolCleanStep` about their use.

### The pipeline

`PipelineProofs` proves about `RequestPipeline`, for chains of any length, any places of
Express handlers and any number of `next()` calls and writes, from `PipelineAssumption`:

| Theorem | States |
| --- | --- |
| `PipelineInductive` | `[]IInv` |
| `PipelineTypes` | `[]TypeOK` |
| `FrameworkAnswersLast` | `[]AnswersLast` |
| `NobodyRunsTwice` | `[]RunsOnce` |
| `SkippingSkips` | `[]SkipIsRespected` |
| `ContextOutlivesCalls` | `[]ClosedLast` |

The index of a chain says which functions have run: those up to it, once, and none beyond
(`Indexed`). It goes past a function only by its own `next()` call or by a further one of a
function before it (`Fed`), hence `SkipIsRespected`. For `ClosedLast`, suppose that something
of the method's chain were active when the chain has settled, and take the least
such function (`LeastOf` in `SequenceLemmas`). A function before it has invoked it (`Entered`), is not active
any more, and was not hasty, so that it has awaited it (`Awaited`): a contradiction.
`AnswersLast` rests on the same argument for both chains (`LateWorker`): who still works when
`sendResponse` is done comes after a function that did not wait, because the least that works
was called by such a one. `Sent` connects it to what has been written: by the framework only
once `sendResponse` is done.

### Only model-checked

* Liveness (`CallsSettle`, `OperationEnds`, `EventuallyFresh`, `WaitEnds`, `RequestsSettle`,
  `Quiesces`, `Answered`, `NobodyWaits`): fairness is out of the prover's reach.
* `Includes` of `EntityRelations`: that the inclusion resolvers agree with one query per
  entity, which is about lists that are grouped, flattened, filtered and cut in both
  definitions.
* `SameRoutes` of `Routers` and `ConstraintsHold` of `WhereBuilder`, which compute by folds or
  recursion: what they compute for every input takes an induction over data. `WhereBuilder`
  is written with a recursive operator, as a `where` is a tree.

## Not modelled

Registration of servers and components; injection metadata; OpenAPI and JSON schemas,
request parsing, coercion and validation, body parsers (sequential conversions of data);
CRUD repositories, which delegate to the juggler; the bootstrapper and its booters, a loop
over files; authentication and authorization, loops over strategies and voters; adapters to
third-party libraries; tests and their snapshots, generators and the command line, which are
more than half of the lines of the repository. The reasons are in `PROJECT.json`.

## Plan

1. `BindingResolution`, continued: an abstract specification (a register for each binding
   and owner context that is written once per reset), bindings that change during a
   resolution, and `optional`.
2. `LifeCycleSystem`: `Application` over `LifeCycleRegistry`, the promise of an operation
   opened up; then the HTTP server as an observer (events of the Node server, stop during
   start, two stops).
3. Merging of global, class and method interceptors and the sorting of middleware groups
   against reference definitions; `tryCatchFinally` and `resolveUntil`; votes of
   authorizers.

Theorems to come: `Includes` of `EntityRelations`, which needs its folds as closed forms
first.
