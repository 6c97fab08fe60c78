----------------------------- MODULE RestServer -----------------------------
(***************************************************************************)
(* The request handler of a REST server (packages/rest/src/rest.server.ts) *)
(* and the requests it serves: controllers, routes and the API             *)
(* specification are bindings; whenever one of them changes, an observer   *)
(* builds a new handler, and in doing so it binds routes itself.  Around   *)
(* it, the server is started and stopped (packages/http-server).           *)
(*                                                                         *)
(* An endpoint is a verb with a path.  A route is its owner: USER for a    *)
(* route added by route(), or the controller it is dispatched to.          *)
(***************************************************************************)
EXTENDS Naturals, FiniteSets, SequencesExt

CONSTANTS
  Endpoints,
  Templated,    \* the endpoints whose path has variables
  Controllers,  \* keys that controllers are bound to
  NotClasses,   \* those that are bound to something else than a class
  Decorated,    \* the endpoints of each controller class
  Specs,        \* values for api(): sequences of [endpoint, controller]
  Requests,
  MaxChanges,   \* bound on the number of changes of bindings
  USER,
  NONE

Owners == Controllers \cup {USER, NONE}
DescribedOperation == [endpoint : Endpoints, controller : Controllers]

ASSUME RestAssumption ==
  /\ IsFiniteSet(Endpoints)
  /\ Templated \subseteq Endpoints
  /\ NotClasses \subseteq Controllers
  /\ Decorated \in [Controllers -> SUBSET Endpoints]
  /\ \A s \in Specs : s \in Seq(DescribedOperation)
  /\ USER \notin Controllers
  /\ NONE \notin Controllers \cup {USER}
  /\ NONE \notin [Endpoints -> Owners]

NoRoutes == [e \in Endpoints |-> NONE]

VARIABLES
  controllers,  \* the bindings controllers.*, in order
  routes,       \* the bindings routes.*: the owner of each
  spec,         \* the binding API_SPEC
  handler,      \* the routing table of _httpHandler, or NONE
  pending,      \* notifications that the observer is going to get
  server,       \* _httpServer
  request,
  changes

bindings == <<controllers, routes, spec>>
vars == <<bindings, handler, pending, server, request, changes>>

ServerStates == {"none", "opening", "listening", "closing", "failed"}

(*-------------------------------------------------------------------------*)
(* Building a handler                                                      *)
(*-------------------------------------------------------------------------*)

Bound == ToSet(controllers)

(* The controllers up to the first that is not a class.                    *)
Usable ==
  {i \in DOMAIN controllers :
     \A j \in 1..i : controllers[j] \notin NotClasses}
AllUsable == Usable = DOMAIN controllers

(* The controllers that bind a route for e: the last one overwrites.       *)
Claims(e) == {i \in Usable : e \in Decorated[controllers[i]]}
LastClaim(e) == controllers[Max(Claims(e))]

(* The bindings routes.* after the old controller routes are unbound and   *)
(* those of all usable controllers are bound.                              *)
Rebound ==
  [e \in Endpoints |->
     IF Claims(e) # {} THEN LastClaim(e)
     ELSE IF routes[e] = USER THEN USER ELSE NONE]

(* What is registered before API_SPEC is read: nothing, if a controller    *)
(* made the loop throw.                                                    *)
Registered == IF AllUsable THEN Rebound ELSE NoRoutes

(* _setupOperation throws if the controller is not known or no class; the  *)
(* trie does if it has another route for the same template.                *)
OperationFails(i) ==
  \/ spec[i].controller \notin Bound \ NotClasses
  \/ spec[i].endpoint \in Templated /\ Registered[spec[i].endpoint] # NONE

(* The operations of API_SPEC that get registered.                         *)
Operations ==
  {i \in DOMAIN spec : AllUsable /\ \A j \in 1..i : ~OperationFails(j)}
BuildFails == ~AllUsable \/ Operations # DOMAIN spec

(* The table that _createHttpHandler leaves, also if it throws.            *)
Built ==
  [e \in Endpoints |->
     LET at == {i \in Operations : spec[i].endpoint = e} IN
     IF at # {} THEN spec[Max(at)].controller ELSE Registered[e]]

(* Mutant: the observer hears of controller routes, too.                   *)
EchoesOfAll == IF Rebound = NoRoutes THEN 0 ELSE 1

(* The routes added by the user that a controller's route replaced: the    *)
(* observer hears that they are unbound, but not of controller routes.     *)
Echoes == Cardinality({e \in Endpoints : routes[e] = USER /\ Rebound[e] # USER})

(* Mutant: a later handler is left without the API specification.          *)
RebuildInPart(heard) ==
  /\ routes' = Rebound
  /\ handler' = IF handler = NONE THEN Built ELSE Registered
  /\ pending' = pending - heard + Echoes

Rebuild(heard) ==
  /\ routes' = Rebound
  /\ handler' = Built
  /\ pending' = pending - heard + Echoes

(*-------------------------------------------------------------------------*)
(* Behaviour                                                               *)
(*-------------------------------------------------------------------------*)

Init ==
  /\ controllers = <<>>
  /\ routes = NoRoutes
  /\ spec = <<>>
  /\ handler = NONE
  /\ pending = 0
  /\ server = "none"
  /\ request = [r \in Requests |->
                  [at |-> "idle", endpoint |-> NONE, route |-> NONE,
                   answer |-> NONE, promised |-> NONE]]
  /\ changes = 0

(* The observer is subscribed when the first handler is set up.            *)
Notify(n) == pending' = IF handler = NONE THEN 0 ELSE pending + n

(* What a request may count on, for the properties: the owner that its     *)
(* endpoint has when it comes, unless a change makes that another one.     *)
Wanted(e) == IF BuildFails THEN NONE ELSE Built[e]

(* A request is under way.                                                 *)
Active(r) == request[r].at \in {"received", "found"}
KeepPromises ==
  LET kept == {e \in Endpoints : Wanted(e)' = Wanted(e)} IN
  request' = [r \in Requests |->
    IF Active(r) /\ request[r].endpoint \notin kept
    THEN [request[r] EXCEPT !.promised = NONE] ELSE request[r]]

Change ==
  /\ changes < MaxChanges
  /\ changes' = changes + 1
  /\ KeepPromises
  /\ UNCHANGED <<handler, server>>

BindController(c) ==
  /\ c \notin Bound
  /\ controllers' = Append(controllers, c)
  /\ Notify(1)
  /\ UNCHANGED <<routes, spec>>
  /\ Change

UnbindController(c) ==
  /\ c \in Bound
  /\ controllers' = RemoveFirst(controllers, c)
  /\ Notify(1)
  /\ UNCHANGED <<routes, spec>>
  /\ Change

(* route(): an older route of the user is heard to go.                     *)
BindRoute(e) ==
  /\ routes' = [routes EXCEPT ![e] = USER]
  /\ Notify(IF routes[e] = USER THEN 2 ELSE 1)
  /\ UNCHANGED <<controllers, spec>>
  /\ Change

UnbindRoute(e) ==
  /\ routes[e] = USER
  /\ routes' = [routes EXCEPT ![e] = NONE]
  /\ Notify(1)
  /\ UNCHANGED <<controllers, spec>>
  /\ Change

(* Mutant: the filter does not match API_SPEC.                             *)
ApiUnheard(s) ==
  /\ spec' = s
  /\ UNCHANGED <<controllers, routes, pending>>
  /\ Change

(* api(): API_SPEC has been bound before.                                  *)
Api(s) ==
  /\ spec' = s
  /\ Notify(2)
  /\ UNCHANGED <<controllers, routes>>
  /\ Change

(* The observer is notified: it builds another handler.                    *)
Observe ==
  /\ pending > 0
  /\ Rebuild(1)
  /\ UNCHANGED <<controllers, spec, server, request, changes>>

(* start(): it sets up the handler if there is none; that may throw, but a *)
(* handler is there from then on.                                          *)
Start ==
  /\ server \in {"none", "failed"}
  /\ IF handler = NONE THEN Rebuild(0) ELSE UNCHANGED <<routes, handler, pending>>
  /\ server' = IF handler = NONE /\ BuildFails THEN server ELSE "opening"
  /\ UNCHANGED <<controllers, spec, request, changes>>

(* HttpServer.start(): the socket listens, or emits an error.              *)
Listening(ok) ==
  /\ server = "opening"
  /\ server' = IF ok THEN "listening" ELSE "failed"
  /\ UNCHANGED <<bindings, handler, pending, request, changes>>

(* stop(), and the 'close' event, which comes when all requests have been  *)
(* answered.  A server that does not listen is just dropped.               *)
Stop ==
  /\ server \in {"listening", "failed"}
  /\ server' = IF server = "listening" THEN "closing" ELSE "none"
  /\ UNCHANGED <<bindings, handler, pending, request, changes>>

Closed ==
  /\ server = "closing"
  /\ \A r \in Requests : ~Active(r)
  /\ server' = "none"
  /\ UNCHANGED <<bindings, handler, pending, request, changes>>

(* A request arrives.                                                      *)
Receive(r, e) ==
  /\ server = "listening"
  /\ request[r].at = "idle"
  /\ request' = [request EXCEPT ![r] =
       [at |-> "received", endpoint |-> e, route |-> NONE, answer |-> NONE,
        promised |-> IF handler[e] = Wanted(e) THEN handler[e] ELSE NONE]]
  /\ UNCHANGED <<bindings, handler, pending, server, changes>>

(* The middleware findRoute takes the handler of this moment.              *)
FindRoute(r) ==
  /\ request[r].at = "received"
  /\ LET found == handler[request[r].endpoint] IN
     request' = [request EXCEPT ![r].route = found,
                                ![r].at = IF found = NONE THEN "answered" ELSE "found"]
  /\ UNCHANGED <<bindings, handler, pending, server, changes>>

(* invokeHandler: a controller is resolved from its binding, if there is   *)
(* one still.  sendResponse answers in any case.                           *)
InvokeMethod(r) ==
  /\ request[r].at = "found"
  /\ LET owner == request[r].route IN
     request' = [request EXCEPT ![r].at = "answered",
                   ![r].answer = IF owner \in Bound \cup {USER} THEN owner ELSE NONE]
  /\ UNCHANGED <<bindings, handler, pending, server, changes>>

Forget(r) ==
  /\ request[r].at = "answered"
  /\ request' = [request EXCEPT ![r] =
       [at |-> "idle", endpoint |-> NONE, route |-> NONE, answer |-> NONE,
        promised |-> NONE]]
  /\ UNCHANGED <<bindings, handler, pending, server, changes>>

Serve(r) == FindRoute(r) \/ InvokeMethod(r)

Next ==
  \/ \E c \in Controllers : BindController(c) \/ UnbindController(c)
  \/ \E e \in Endpoints : BindRoute(e) \/ UnbindRoute(e)
  \/ \E s \in Specs : Api(s)
  \/ Observe
  \/ Start
  \/ \E ok \in BOOLEAN : Listening(ok)
  \/ Stop
  \/ Closed
  \/ \E r \in Requests : Serve(r) \/ Forget(r) \/ \E e \in Endpoints : Receive(r, e)

(* The background task of the context and the continuations of a request   *)
(* run; nobody has to change, start or ask for anything.                   *)
Spec == Init /\ [][Next]_vars /\ WF_vars(Observe) /\ WF_vars(\E r \in Requests : Serve(r))
-----------------------------------------------------------------------------
RequestType ==
  [at : {"idle", "received", "found", "answered"}, endpoint : Endpoints \cup {NONE},
   route : Owners, answer : Owners, promised : Owners]

TypeOK ==
  /\ controllers \in Seq(Controllers)
  /\ routes \in [Endpoints -> Owners]
  /\ spec \in Seq(DescribedOperation)
  /\ handler \in [Endpoints -> Owners] \cup {NONE}
  /\ pending \in Nat
  /\ server \in ServerStates
  /\ request \in [Requests -> RequestType]
  /\ changes \in Nat

(* The handler is up to date unless the observer is going to be notified:  *)
(* the API specification comes first, then the controller bound last, then *)
(* the user's route.                                                       *)
Described(e) == {i \in DOMAIN spec : spec[i].endpoint = e}
Decorating(e) == {i \in DOMAIN controllers : e \in Decorated[controllers[i]]}
UpToDate ==
  handler # NONE /\ pending = 0 /\ ~BuildFails =>
    \A e \in Endpoints :
      \/ \E i \in Described(e) : handler[e] = spec[i].controller
      \/ /\ Described(e) = {}
         /\ \E i \in Decorating(e) :
              handler[e] = controllers[i] /\ \A j \in Decorating(e) : j <= i
      \/ /\ Described(e) \cup Decorating(e) = {}
         /\ handler[e] = routes[e] /\ routes[e] \in {USER, NONE}

(* Replacing the handler while a request is under way does no harm: if its *)
(* endpoint was offered when it came and keeps its owner, the owner answers.*)
Undisturbed ==
  \A r \in Requests :
    request[r].at = "answered" /\ request[r].promised # NONE =>
      request[r].answer = request[r].promised

(* Binding routes while a handler is built does not cause handlers to be   *)
(* built for ever.                                                         *)
Quiesces == <>[](pending = 0)

(* "this will override any routes defined via decorators at the controller *)
(* level (this function takes precedent)": the comment of api().           *)
ApiTakesPrecedence ==
  handler # NONE /\ pending = 0 /\ AllUsable =>
    \A i \in DOMAIN spec :
      spec[i].controller \in Bound => handler[spec[i].endpoint] = spec[i].controller
=============================================================================
