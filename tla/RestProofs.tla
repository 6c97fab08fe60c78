----------------------------- MODULE RestProofs -----------------------------
(***************************************************************************)
(* Proofs about RestServer, for all controllers, routes, specifications    *)
(* and requests.                                                           *)
(***************************************************************************)
EXTENDS RestServer, SequenceLemmas, FiniteSetTheorems

(* The handler and the routes are what building a handler gives, unless    *)
(* the observer is going to build another one.                             *)
Fresh == handler # NONE /\ pending = 0 => handler = Built /\ routes = Rebound

(* There is a handler before a request comes.                              *)
HandlerFirst ==
  handler = NONE => server = "none" /\ \A r \in Requests : request[r].at = "idle"

(* What is promised to a request is wanted still, and the handler, or the  *)
(* route that was found, keeps the promise.                                *)
Promised(r) == request[r].promised # NONE
Promises ==
  \A r \in Requests :
    Promised(r) =>
      /\ \A e \in Endpoints :
           Active(r) /\ request[r].endpoint = e => request[r].promised = Wanted(e)
      /\ request[r].at = "received" => handler[request[r].endpoint] = request[r].promised
      /\ request[r].at = "found" => request[r].route = request[r].promised

Asked == \A r \in Requests : Active(r) => request[r].endpoint \in Endpoints

IInv == TypeOK /\ Fresh /\ HandlerFirst /\ Asked /\ Promises /\ Undisturbed

-----------------------------------------------------------------------------
(***************************************************************************)
(* What building a handler gives.                                          *)
(***************************************************************************)

LEMMA LastClaimIsBound ==
  ASSUME TypeOK, NEW e \in Endpoints, Claims(e) # {}
  PROVE  /\ Max(Claims(e)) \in Claims(e)
         /\ \A j \in Claims(e) : j <= Max(Claims(e))
         /\ LastClaim(e) \in Bound /\ LastClaim(e) \in Controllers
<1>1. controllers \in Seq(Controllers)
  BY DEF TypeOK
<1>2. Len(controllers) \in Nat /\ Claims(e) \in SUBSET (1..Len(controllers))
  BY <1>1 DEF Claims, Usable
<1>3. Max(Claims(e)) \in Claims(e) /\ \A j \in Claims(e) : j <= Max(Claims(e))
  BY <1>2, LeastAndGreatest
<1>4. Max(Claims(e)) \in 1..Len(controllers)
  BY <1>2, <1>3
<1> DEFINE m == Max(Claims(e))
<1>5. m \in 1..Len(controllers) /\ LastClaim(e) = controllers[m]
  BY <1>4 DEF LastClaim
<1> HIDE DEF m
<1>6. LastClaim(e) \in Bound /\ LastClaim(e) \in Controllers
  BY <1>1, <1>5 DEF Bound, ToSet
<1> QED BY <1>3, <1>6

LEMMA ReboundType ==
  ASSUME TypeOK
  PROVE  /\ Rebound \in [Endpoints -> Owners]
         /\ Registered \in [Endpoints -> Owners]
<1>1. Rebound \in [Endpoints -> Owners]
  BY LastClaimIsBound DEF Rebound, Owners
<1>2. NoRoutes \in [Endpoints -> Owners]
  BY DEF NoRoutes, Owners
<1> QED BY <1>1, <1>2 DEF Registered

(* The last of the operations that are registered for an endpoint.         *)
LEMMA LastOperation ==
  ASSUME TypeOK, NEW e \in Endpoints,
         NEW at, at = {i \in Operations : spec[i].endpoint = e}, at # {}
  PROVE  /\ Max(at) \in Operations /\ Max(at) \in 1..Len(spec)
         /\ spec[Max(at)] \in DescribedOperation
         /\ spec[Max(at)].endpoint = e
<1>1. spec \in Seq(DescribedOperation)
  BY DEF TypeOK
<1>2. Len(spec) \in Nat /\ at \in SUBSET (1..Len(spec))
  BY <1>1 DEF Operations
<1>3. Max(at) \in at
  BY <1>2, LeastAndGreatest
<1>4. Max(at) \in 1..Len(spec)
  BY <1>2, <1>3
<1> QED BY <1>1, <1>3, <1>4

LEMMA BuiltType ==
  ASSUME TypeOK
  PROVE  Built \in [Endpoints -> Owners] /\ Built # NONE
<1>1. ASSUME NEW e \in Endpoints
      PROVE  LET at == {i \in Operations : spec[i].endpoint = e} IN
             (IF at # {} THEN spec[Max(at)].controller ELSE Registered[e]) \in Owners
  <2> DEFINE at == {i \in Operations : spec[i].endpoint = e}
  <2>1. CASE at = {}
    BY <2>1, ReboundType
  <2>2. CASE at # {}
    <3>1. spec[Max(at)] \in DescribedOperation
      BY <2>2, LastOperation, Zenon
    <3>2. spec[Max(at)].controller \in Owners
      BY <3>1 DEF DescribedOperation, Owners
    <3> QED BY <2>2, <3>2, Zenon
  <2> QED BY <2>1, <2>2
<1>2. Built \in [Endpoints -> Owners]
  BY <1>1 DEF Built
<1> QED BY <1>2, RestAssumption

LEMMA EchoesCount == Echoes \in Nat
<1> DEFINE R == {e \in Endpoints : routes[e] = USER /\ Rebound[e] # USER}
<1>1. IsFiniteSet(Endpoints) /\ R \in SUBSET Endpoints
  BY RestAssumption
<1>2. IsFiniteSet(R)
  BY <1>1, FS_Subset
<1>3. Cardinality(R) \in Nat
  BY <1>2, FS_CardinalityType
<1> QED BY <1>3 DEF Echoes

(* What a handler offers that was built without failure, and that whoever  *)
(* it offers is bound.                                                     *)
LEMMA BuiltOffers ==
  ASSUME TypeOK, ~BuildFails, NEW e \in Endpoints
  PROVE  /\ Described(e) # {} =>
              \E i \in Described(e) : Built[e] = spec[i].controller
         /\ Described(e) = {} => Built[e] = Rebound[e]
         /\ Built[e] \in Bound \cup {USER, NONE}
<1> DEFINE at == {i \in Operations : spec[i].endpoint = e}
<1>1. AllUsable /\ Operations = DOMAIN spec
  BY DEF BuildFails
<1>2. Built[e] = IF at # {} THEN spec[Max(at)].controller ELSE Registered[e]
  BY DEF Built
<1>3. at = Described(e)
  BY <1>1 DEF Described
<1>4. CASE at # {}
  <2>1. /\ Max(at) \in Operations /\ Max(at) \in 1..Len(spec)
        /\ spec[Max(at)].endpoint = e
    BY <1>4, LastOperation, Zenon
  <2> DEFINE m == Max(at)
  <2>2. /\ m \in Operations /\ m \in 1..Len(spec) /\ spec[m].endpoint = e
        /\ Built[e] = spec[m].controller
    BY <1>2, <1>4, <2>1
  <2> HIDE DEF m, at
  <2>3. ~OperationFails(m)
    BY <2>2 DEF Operations
  <2>4. m \in Described(e)
    BY <1>1, <2>2 DEF Described
  <2> QED BY <1>3, <1>4, <2>2, <2>3, <2>4 DEF OperationFails
<1>5. CASE at = {}
  <2>1. Built[e] = Rebound[e]
    BY <1>1, <1>2, <1>5 DEF Registered
  <2>2. Rebound[e] \in Bound \cup {USER, NONE}
    BY LastClaimIsBound DEF Rebound
  <2> QED BY <1>3, <1>5, <2>1, <2>2
<1> QED BY <1>4, <1>5

(* A handler is built from the bindings alone, ...                         *)
LEMMA SameClaims ==
  ASSUME controllers' = controllers
  PROVE  /\ Bound' = Bound /\ AllUsable' = AllUsable
         /\ \A e \in Endpoints : Claims(e)' = Claims(e) /\ LastClaim(e)' = LastClaim(e)
<1>1. Usable' = Usable
  BY DEF Usable
<1>2. \A e \in Endpoints : Claims(e)' = Claims(e)
  BY <1>1 DEF Claims
<1>3. \A e \in Endpoints : LastClaim(e)' = LastClaim(e)
  BY <1>2 DEF LastClaim
<1> QED BY <1>1, <1>2, <1>3 DEF Bound, AllUsable

LEMMA SameBuild ==
  ASSUME controllers' = controllers, spec' = spec, Rebound' = Rebound
  PROVE  /\ Built' = Built
         /\ \A e \in Endpoints : Wanted(e)' = Wanted(e)
<1>1. Bound' = Bound /\ AllUsable' = AllUsable
  BY SameClaims
<1>2. Registered' = Registered
  BY <1>1 DEF Registered, NoRoutes
<1>3. \A i : OperationFails(i)' = OperationFails(i)
  BY <1>1, <1>2 DEF OperationFails
<1>4. Operations' = Operations
  BY <1>1, <1>3 DEF Operations
<1>5. BuildFails' = BuildFails
  BY <1>1, <1>4 DEF BuildFails
<1>6. Built' = Built
  BY <1>2, <1>4 DEF Built
<1> QED BY <1>5, <1>6 DEF Wanted

LEMMA SameBindings ==
  ASSUME UNCHANGED bindings
  PROVE  /\ Rebound' = Rebound /\ Built' = Built
         /\ \A e \in Endpoints : Wanted(e)' = Wanted(e)
<1>1. controllers' = controllers /\ routes' = routes /\ spec' = spec
  BY DEF bindings
<1>2. Rebound' = Rebound
  BY <1>1, SameClaims DEF Rebound
<1> QED BY <1>1, <1>2, SameBuild

(* ... and building it once more changes nothing: the routes that it binds *)
(* are not built from.                                                     *)
LEMMA Rebuilding ==
  ASSUME controllers' = controllers, spec' = spec, routes' = Rebound
  PROVE  /\ Rebound' = Rebound /\ Built' = Built
         /\ \A e \in Endpoints : Wanted(e)' = Wanted(e)
<1>1. \A e \in Endpoints : Claims(e)' = Claims(e) /\ LastClaim(e)' = LastClaim(e)
  BY SameClaims
<1>2. \A e \in Endpoints : Claims(e) = {} => (Rebound[e] = USER <=> routes[e] = USER)
  BY RestAssumption DEF Rebound
<1>3. Rebound' = Rebound
  BY <1>1, <1>2 DEF Rebound
<1> QED BY <1>3, SameBuild

-----------------------------------------------------------------------------
(***************************************************************************)
(* The steps.                                                              *)
(***************************************************************************)

(* The requests are not touched, nor what they are served from.            *)
LEMMA RequestsUntouched ==
  ASSUME IInv, request' = request, handler' = handler,
         \A e \in Endpoints : Wanted(e)' = Wanted(e)
  PROVE  Asked' /\ Promises' /\ Undisturbed'
BY DEF IInv, Asked, Promises, Promised, Active, Undisturbed

(* Bindings change: pending and what follows from it are up to the caller. *)
LEMMA ChangeKeeps ==
  ASSUME IInv, Change, pending' \in Nat, handler = NONE \/ pending' > 0,
         controllers' \in Seq(Controllers), routes' \in [Endpoints -> Owners],
         spec' \in Seq(DescribedOperation)
  PROVE  IInv'
<1>1. /\ changes' = changes + 1 /\ KeepPromises
      /\ handler' = handler /\ server' = server
  BY DEF Change
<1> DEFINE kept == {e \in Endpoints : Wanted(e)' = Wanted(e)}
<1>2. request' = [r \in Requests |->
         IF Active(r) /\ request[r].endpoint \notin kept
         THEN [request[r] EXCEPT !.promised = NONE] ELSE request[r]]
  BY <1>1 DEF KeepPromises
<1> HIDE DEF kept
<1>3. ASSUME NEW r \in Requests
      PROVE  /\ request'[r] \in RequestType
             /\ request'[r].at = request[r].at /\ request'[r].endpoint = request[r].endpoint
             /\ request'[r].route = request[r].route /\ request'[r].answer = request[r].answer
             /\ \/ request'[r].promised = NONE /\ Active(r)
                \/ /\ request'[r].promised = request[r].promised
                   /\ Active(r) => request[r].endpoint \in kept
  <2>1. request[r] \in RequestType
    BY DEF IInv, TypeOK
  <2>2. CASE Active(r) /\ request[r].endpoint \notin kept
    <3>1. request'[r] = [request[r] EXCEPT !.promised = NONE]
      BY <1>2, <2>2
    <3> QED BY <2>1, <2>2, <3>1 DEF Owners, RequestType
  <2>3. CASE ~(Active(r) /\ request[r].endpoint \notin kept)
    <3>1. request'[r] = request[r]
      BY <1>2, <2>3
    <3> QED BY <2>1, <2>3, <3>1
  <2> QED BY <2>2, <2>3
<1>4. request' \in [Requests -> RequestType]
  BY <1>2, <1>3
<1>5. TypeOK'
  BY <1>1, <1>4 DEF IInv, TypeOK
<1>6. Fresh'
  BY <1>1, <1>5 DEF Fresh, TypeOK
<1>7. HandlerFirst'
  BY <1>1, <1>3 DEF IInv, HandlerFirst
<1>8. \A r \in Requests : Active(r)' <=> Active(r)
  BY <1>3 DEF Active
<1>9. Asked'
  BY <1>3, <1>8 DEF IInv, Asked
<1>10. Promises'
  <2>1. SUFFICES ASSUME NEW r \in Requests, request'[r].promised # NONE
        PROVE  /\ \A e \in Endpoints :
                    Active(r) /\ request'[r].endpoint = e => request'[r].promised = Wanted(e)'
               /\ request'[r].at = "received" => handler[request'[r].endpoint] = request'[r].promised
               /\ request'[r].at = "found" => request'[r].route = request'[r].promised
    BY <1>1, <1>8 DEF Promises, Promised
  <2>2. /\ request'[r].promised = request[r].promised
        /\ Active(r) => request[r].endpoint \in kept
        /\ request'[r].at = request[r].at /\ request'[r].endpoint = request[r].endpoint
        /\ request'[r].route = request[r].route
    BY <1>3, <2>1
  <2>3. /\ \A e \in Endpoints :
              Active(r) /\ request[r].endpoint = e => request[r].promised = Wanted(e)
        /\ request[r].at = "received" => handler[request[r].endpoint] = request[r].promised
        /\ request[r].at = "found" => request[r].route = request[r].promised
    BY <2>1, <2>2 DEF IInv, Promises, Promised
  <2>4. \A e \in kept : Wanted(e)' = Wanted(e)
    BY DEF kept
  <2>5. ASSUME NEW e \in Endpoints, Active(r), request'[r].endpoint = e
        PROVE  request'[r].promised = Wanted(e)'
    <3>1. e \in kept /\ request[r].promised = Wanted(e)
      BY <2>2, <2>3, <2>5
    <3> QED BY <2>2, <2>4, <3>1
  <2> QED BY <2>2, <2>3, <2>5
<1>11. Undisturbed'
  BY <1>3 DEF IInv, Undisturbed, Active
<1> QED BY <1>5, <1>6, <1>7, <1>9, <1>10, <1>11 DEF IInv

LEMMA BindControllerKeeps ==
  ASSUME IInv, NEW c \in Controllers, BindController(c)
  PROVE  IInv'
<1>1. /\ controllers' = Append(controllers, c)
      /\ pending' = IF handler = NONE THEN 0 ELSE pending + 1
      /\ routes' = routes /\ spec' = spec /\ Change
  BY DEF BindController, Notify
<1>2. TypeOK
  BY DEF IInv
<1>3. pending' \in Nat /\ (handler = NONE \/ pending' > 0)
  BY <1>1, <1>2 DEF TypeOK
<1>4. controllers' \in Seq(Controllers)
  BY <1>1, <1>2 DEF TypeOK
<1> QED BY <1>1, <1>2, <1>3, <1>4, ChangeKeeps DEF TypeOK

LEMMA UnbindControllerKeeps ==
  ASSUME IInv, NEW c \in Controllers, UnbindController(c)
  PROVE  IInv'
<1>1. /\ controllers' = RemoveFirst(controllers, c) /\ c \in ToSet(controllers)
      /\ pending' = IF handler = NONE THEN 0 ELSE pending + 1
      /\ routes' = routes /\ spec' = spec /\ Change
  BY DEF UnbindController, Notify, Bound
<1>2. /\ controllers \in Seq(Controllers) /\ routes \in [Endpoints -> Owners]
      /\ spec \in Seq(DescribedOperation) /\ pending \in Nat
  BY DEF IInv, TypeOK
<1>3. pending' \in Nat /\ (handler = NONE \/ pending' > 0)
  BY <1>1, <1>2
<1>4. controllers' \in Seq(Controllers)
  BY <1>1, <1>2, RemoveFirstTakesOne
<1> QED BY <1>1, <1>2, <1>3, <1>4, ChangeKeeps

LEMMA BindRouteKeeps ==
  ASSUME IInv, NEW e \in Endpoints, BindRoute(e)
  PROVE  IInv'
<1>1. /\ routes' = [routes EXCEPT ![e] = USER]
      /\ pending' = IF handler = NONE THEN 0
                    ELSE pending + (IF routes[e] = USER THEN 2 ELSE 1)
      /\ controllers' = controllers /\ spec' = spec /\ Change
  BY DEF BindRoute, Notify
<1>2. /\ controllers \in Seq(Controllers) /\ routes \in [Endpoints -> Owners]
      /\ spec \in Seq(DescribedOperation) /\ pending \in Nat
  BY DEF IInv, TypeOK
<1>3. pending' \in Nat /\ (handler = NONE \/ pending' > 0)
  BY <1>1, <1>2
<1>4. routes' \in [Endpoints -> Owners]
  BY <1>1, <1>2 DEF Owners
<1> QED BY <1>1, <1>2, <1>3, <1>4, ChangeKeeps

LEMMA UnbindRouteKeeps ==
  ASSUME IInv, NEW e \in Endpoints, UnbindRoute(e)
  PROVE  IInv'
<1>1. /\ routes' = [routes EXCEPT ![e] = NONE]
      /\ pending' = IF handler = NONE THEN 0 ELSE pending + 1
      /\ controllers' = controllers /\ spec' = spec /\ Change
  BY DEF UnbindRoute, Notify
<1>2. /\ controllers \in Seq(Controllers) /\ routes \in [Endpoints -> Owners]
      /\ spec \in Seq(DescribedOperation) /\ pending \in Nat
  BY DEF IInv, TypeOK
<1>3. pending' \in Nat /\ (handler = NONE \/ pending' > 0)
  BY <1>1, <1>2
<1>4. routes' \in [Endpoints -> Owners]
  BY <1>1, <1>2 DEF Owners
<1> QED BY <1>1, <1>2, <1>3, <1>4, ChangeKeeps

LEMMA ApiKeeps ==
  ASSUME IInv, NEW s \in Specs, Api(s)
  PROVE  IInv'
<1>1. /\ spec' = s
      /\ pending' = IF handler = NONE THEN 0 ELSE pending + 2
      /\ controllers' = controllers /\ routes' = routes /\ Change
  BY DEF Api, Notify
<1>2. /\ controllers \in Seq(Controllers) /\ routes \in [Endpoints -> Owners]
      /\ pending \in Nat
  BY DEF IInv, TypeOK
<1>3. pending' \in Nat /\ (handler = NONE \/ pending' > 0)
  BY <1>1, <1>2
<1>4. spec' \in Seq(DescribedOperation)
  BY <1>1, RestAssumption
<1> QED BY <1>1, <1>2, <1>3, <1>4, ChangeKeeps

(* Another handler is built, whether it is the first or not: what was      *)
(* promised is what it offers.                                             *)
LEMMA RebuildKeeps ==
  ASSUME IInv, NEW n \in Nat, pending - n \in Nat, Rebuild(n),
         server' \in ServerStates,
         controllers' = controllers, spec' = spec, request' = request, changes' = changes
  PROVE  IInv'
<1>1. /\ routes' = Rebound /\ handler' = Built
      /\ pending' = (pending - n) + Echoes
  BY DEF Rebuild
<1>2. TypeOK
  BY DEF IInv
<1>3. /\ Rebound' = Rebound /\ Built' = Built
      /\ \A e \in Endpoints : Wanted(e)' = Wanted(e)
  BY <1>1, Rebuilding
<1>4. /\ Rebound \in [Endpoints -> Owners]
      /\ Built \in [Endpoints -> Owners] /\ Built # NONE
  BY <1>2, ReboundType, BuiltType
<1>5. pending' \in Nat
  BY <1>1, EchoesCount
<1>6. TypeOK'
  BY <1>1, <1>2, <1>4, <1>5 DEF TypeOK
<1>7. Fresh' /\ HandlerFirst'
  BY <1>1, <1>3, <1>4 DEF Fresh, HandlerFirst
<1>8. Asked' /\ Undisturbed'
  BY DEF IInv, Asked, Undisturbed, Active
<1>9. Promises'
  <2>1. SUFFICES ASSUME NEW r \in Requests, request[r].promised # NONE
        PROVE  /\ \A e \in Endpoints :
                    Active(r) /\ request[r].endpoint = e => request[r].promised = Wanted(e)'
               /\ request[r].at = "received" => Built[request[r].endpoint] = request[r].promised
               /\ request[r].at = "found" => request[r].route = request[r].promised
    BY <1>1 DEF Promises, Promised, Active
  <2>2. /\ \A e \in Endpoints :
              Active(r) /\ request[r].endpoint = e => request[r].promised = Wanted(e)
        /\ request[r].at = "found" => request[r].route = request[r].promised
    BY <2>1 DEF IInv, Promises, Promised
  <2>3. ASSUME request[r].at = "received"
        PROVE  Built[request[r].endpoint] = request[r].promised
    <3>1. Active(r) /\ request[r].endpoint \in Endpoints
      BY <2>3 DEF Active, IInv, Asked
    <3>2. request[r].promised = Wanted(request[r].endpoint)
      BY <2>2, <3>1
    <3> QED BY <2>1, <3>2 DEF Wanted
  <2> QED BY <1>3, <2>2, <2>3
<1> QED BY <1>6, <1>7, <1>8, <1>9 DEF IInv

LEMMA ObserveKeeps ==
  ASSUME IInv, Observe
  PROVE  IInv'
<1>1. pending \in Nat /\ server \in ServerStates
  BY DEF IInv, TypeOK
<1>2. /\ pending > 0 /\ Rebuild(1)
      /\ controllers' = controllers /\ spec' = spec /\ server' = server
      /\ request' = request /\ changes' = changes
  BY DEF Observe
<1>3. pending - 1 \in Nat
  BY <1>1, <1>2
<1> QED BY <1>1, <1>2, <1>3, RebuildKeeps

(* Only the server moves on.                                               *)
LEMMA ServerKeeps ==
  ASSUME IInv, server' \in ServerStates, handler # NONE,
         UNCHANGED <<bindings, handler, pending, request, changes>>
  PROVE  IInv'
<1>1. /\ controllers' = controllers /\ routes' = routes /\ spec' = spec
      /\ handler' = handler /\ pending' = pending /\ request' = request /\ changes' = changes
      /\ UNCHANGED bindings
  BY DEF bindings
<1>2. /\ Rebound' = Rebound /\ Built' = Built
      /\ \A e \in Endpoints : Wanted(e)' = Wanted(e)
  BY <1>1, SameBindings
<1>3. TypeOK' /\ Fresh' /\ HandlerFirst'
  BY <1>1, <1>2 DEF IInv, TypeOK, Fresh, HandlerFirst
<1>4. Asked' /\ Promises' /\ Undisturbed'
  BY <1>1, <1>2, RequestsUntouched
<1> QED BY <1>3, <1>4 DEF IInv

LEMMA StartKeeps ==
  ASSUME IInv, Start
  PROVE  IInv'
<1>1. /\ server' \in ServerStates /\ UNCHANGED <<controllers, spec, request, changes>>
  BY DEF Start, ServerStates, IInv, TypeOK
<1>2. CASE handler = NONE
  <2>1. Rebuild(0)
    BY <1>2 DEF Start
  <2>2. pending - 0 \in Nat
    BY DEF IInv, TypeOK
  <2> QED BY <1>1, <2>1, <2>2, RebuildKeeps
<1>3. CASE handler # NONE
  <2>1. UNCHANGED <<routes, handler, pending>>
    BY <1>3 DEF Start
  <2> QED BY <1>1, <1>3, <2>1, ServerKeeps DEF bindings
<1> QED BY <1>2, <1>3

LEMMA ListeningStopClosedKeep ==
  ASSUME IInv, (\E ok \in BOOLEAN : Listening(ok)) \/ Stop \/ Closed
  PROVE  IInv'
<1>1. /\ server' \in ServerStates /\ server # "none"
      /\ UNCHANGED <<bindings, handler, pending, request, changes>>
  BY DEF Listening, Stop, Closed, ServerStates
<1>2. handler # NONE
  BY <1>1 DEF IInv, HandlerFirst
<1> QED BY <1>1, <1>2, ServerKeeps

(* A request moves on: what the invariant asks of it then.                 *)
MovesOn(r, q) ==
  /\ q \in RequestType
  /\ request' = [request EXCEPT ![r] = q]
  /\ UNCHANGED <<bindings, handler, pending, server, changes>>
  /\ handler # NONE
  /\ q.at \in {"received", "found"} => q.endpoint \in Endpoints
  /\ q.promised # NONE =>
       /\ \A e \in Endpoints :
            q.at \in {"received", "found"} /\ q.endpoint = e => q.promised = Wanted(e)
       /\ q.at = "received" => handler[q.endpoint] = q.promised
       /\ q.at = "found" => q.route = q.promised
       /\ q.at = "answered" => q.answer = q.promised

LEMMA RequestMovesOn ==
  ASSUME IInv, NEW r \in Requests, NEW q, MovesOn(r, q)
  PROVE  IInv'
<1>1. /\ controllers' = controllers /\ routes' = routes /\ spec' = spec
      /\ handler' = handler /\ pending' = pending /\ server' = server /\ changes' = changes
      /\ UNCHANGED bindings /\ handler # NONE
  BY DEF MovesOn, bindings
<1>2. /\ Rebound' = Rebound /\ Built' = Built
      /\ \A e \in Endpoints : Wanted(e)' = Wanted(e)
  BY <1>1, SameBindings
<1>3. request \in [Requests -> RequestType]
  BY DEF IInv, TypeOK
<1>4. /\ request' \in [Requests -> RequestType]
      /\ \A p \in Requests : request'[p] = IF p = r THEN q ELSE request[p]
  BY <1>3 DEF MovesOn
<1>5. TypeOK' /\ Fresh' /\ HandlerFirst'
  BY <1>1, <1>2, <1>4 DEF IInv, TypeOK, Fresh, HandlerFirst
<1>6. Asked'
  BY <1>4 DEF IInv, Asked, Active, MovesOn
<1>7. Promises'
  <2>1. SUFFICES ASSUME NEW p \in Requests, request'[p].promised # NONE
        PROVE  /\ \A e \in Endpoints :
                    request'[p].at \in {"received", "found"} /\ request'[p].endpoint = e
                      => request'[p].promised = Wanted(e)'
               /\ request'[p].at = "received" => handler[request'[p].endpoint] = request'[p].promised
               /\ request'[p].at = "found" => request'[p].route = request'[p].promised
    BY <1>1 DEF Promises, Promised, Active
  <2>2. CASE p = r
    BY <1>2, <1>4, <2>1, <2>2 DEF MovesOn
  <2>3. CASE p # r
    BY <1>2, <1>4, <2>1, <2>3 DEF IInv, Promises, Promised, Active
  <2> QED BY <2>2, <2>3
<1>8. Undisturbed'
  BY <1>4 DEF IInv, Undisturbed, MovesOn
<1> QED BY <1>5, <1>6, <1>7, <1>8 DEF IInv

LEMMA ReceiveKeeps ==
  ASSUME IInv, NEW r \in Requests, NEW e \in Endpoints, Receive(r, e)
  PROVE  IInv'
<1> DEFINE w == IF handler[e] = Wanted(e) THEN handler[e] ELSE NONE
           q == [at |-> "received", endpoint |-> e, route |-> NONE, answer |-> NONE,
                 promised |-> w]
<1>1. /\ server = "listening" /\ request' = [request EXCEPT ![r] = q]
      /\ UNCHANGED <<bindings, handler, pending, server, changes>>
  BY DEF Receive
<1>2. handler # NONE /\ handler \in [Endpoints -> Owners]
  BY <1>1 DEF IInv, HandlerFirst, TypeOK
<1>3. w \in Owners /\ (w # NONE => w = handler[e] /\ w = Wanted(e))
  BY <1>2 DEF Owners
<1> HIDE DEF w
<1>4. q \in RequestType
  BY <1>3 DEF RequestType, Owners
<1>5. MovesOn(r, q)
  BY <1>1, <1>2, <1>3, <1>4 DEF MovesOn
<1> HIDE DEF q
<1> QED BY <1>5, RequestMovesOn

LEMMA FindRouteKeeps ==
  ASSUME IInv, NEW r \in Requests, FindRoute(r)
  PROVE  IInv'
<1> DEFINE found == handler[request[r].endpoint]
           q == [request[r] EXCEPT !.route = found,
                                   !.at = IF found = NONE THEN "answered" ELSE "found"]
<1>1. /\ request[r].at = "received" /\ request' = [request EXCEPT ![r] = q]
      /\ UNCHANGED <<bindings, handler, pending, server, changes>>
  BY DEF FindRoute
<1>2. request[r] \in RequestType /\ request[r].endpoint \in Endpoints
  BY <1>1 DEF IInv, TypeOK, Asked, Active
<1>3. handler # NONE /\ handler \in [Endpoints -> Owners]
  BY <1>1 DEF IInv, HandlerFirst, TypeOK
<1>4. found \in Owners
  BY <1>2, <1>3
<1>5. request[r].promised # NONE =>
        /\ found = request[r].promised
        /\ \A e \in Endpoints : request[r].endpoint = e => request[r].promised = Wanted(e)
  BY <1>1 DEF IInv, Promises, Promised, Active
<1> HIDE DEF found
<1>6. /\ q \in RequestType
      /\ q.at = IF found = NONE THEN "answered" ELSE "found"
      /\ q.route = found /\ q.endpoint = request[r].endpoint
      /\ q.promised = request[r].promised
  BY <1>2, <1>4 DEF RequestType
<1> HIDE DEF q
<1>7. MovesOn(r, q)
  BY <1>1, <1>2, <1>3, <1>5, <1>6 DEF MovesOn
<1> QED BY <1>7, RequestMovesOn

(* The owner of the route is still there to answer.                        *)
LEMMA InvokeMethodKeeps ==
  ASSUME IInv, NEW r \in Requests, InvokeMethod(r)
  PROVE  IInv'
<1> DEFINE owner == request[r].route
           answer == IF owner \in Bound \cup {USER} THEN owner ELSE NONE
           q == [request[r] EXCEPT !.at = "answered", !.answer = answer]
<1>1. /\ request[r].at = "found" /\ request' = [request EXCEPT ![r] = q]
      /\ UNCHANGED <<bindings, handler, pending, server, changes>>
  BY DEF InvokeMethod
<1>2. request[r] \in RequestType /\ request[r].endpoint \in Endpoints
  BY <1>1 DEF IInv, TypeOK, Asked, Active
<1>3. handler # NONE
  BY <1>1 DEF IInv, HandlerFirst
<1>4. answer \in Owners
  BY <1>2 DEF RequestType, Owners
<1>5. request[r].promised # NONE => answer = request[r].promised
  <2>1. SUFFICES ASSUME request[r].promised # NONE
                 PROVE  answer = request[r].promised
    OBVIOUS
  <2>2. /\ owner = request[r].promised
        /\ request[r].promised = Wanted(request[r].endpoint)
    BY <1>1, <1>2, <2>1 DEF IInv, Promises, Promised, Active
  <2>3. ~BuildFails /\ owner = Built[request[r].endpoint] /\ owner # NONE
    BY <2>1, <2>2 DEF Wanted
  <2>4. TypeOK
    BY DEF IInv
  <2>5. owner \in Bound \cup {USER}
    BY <1>2, <2>3, <2>4, BuiltOffers
  <2> QED BY <2>2, <2>5
<1> HIDE DEF answer
<1>6. /\ q \in RequestType
      /\ q.at = "answered" /\ q.answer = answer /\ q.promised = request[r].promised
  BY <1>2, <1>4 DEF RequestType
<1> HIDE DEF q
<1>7. MovesOn(r, q)
  BY <1>1, <1>3, <1>5, <1>6 DEF MovesOn
<1> QED BY <1>7, RequestMovesOn

LEMMA ForgetKeeps ==
  ASSUME IInv, NEW r \in Requests, Forget(r)
  PROVE  IInv'
<1> DEFINE q == [at |-> "idle", endpoint |-> NONE, route |-> NONE, answer |-> NONE,
                 promised |-> NONE]
<1>1. /\ request[r].at = "answered" /\ request' = [request EXCEPT ![r] = q]
      /\ UNCHANGED <<bindings, handler, pending, server, changes>>
  BY DEF Forget
<1>2. handler # NONE
  BY <1>1 DEF IInv, HandlerFirst
<1>3. MovesOn(r, q)
  BY <1>1, <1>2 DEF MovesOn, RequestType, Owners
<1> HIDE DEF q
<1> QED BY <1>3, RequestMovesOn

LEMMA InitIInv == Init => IInv
<1> SUFFICES ASSUME Init
             PROVE  IInv
  OBVIOUS
<1>1. TypeOK
  BY DEF Init, TypeOK, NoRoutes, Owners, RequestType, ServerStates
<1>2. Fresh /\ HandlerFirst /\ Asked /\ Promises /\ Undisturbed
  BY DEF Init, Fresh, HandlerFirst, Asked, Promises, Promised, Active, Undisturbed
<1> QED BY <1>1, <1>2 DEF IInv

LEMMA NextIInv == IInv /\ [Next]_vars => IInv'
<1> SUFFICES ASSUME IInv, [Next]_vars
             PROVE  IInv'
  OBVIOUS
<1>1. ASSUME NEW c \in Controllers, BindController(c) \/ UnbindController(c)
      PROVE  IInv'
  BY <1>1, BindControllerKeeps, UnbindControllerKeeps
<1>2. ASSUME NEW e \in Endpoints, BindRoute(e) \/ UnbindRoute(e)
      PROVE  IInv'
  BY <1>2, BindRouteKeeps, UnbindRouteKeeps
<1>3. ASSUME NEW s \in Specs, Api(s)
      PROVE  IInv'
  BY <1>3, ApiKeeps
<1>4. CASE Observe \/ Start
  BY <1>4, ObserveKeeps, StartKeeps
<1>5. CASE (\E ok \in BOOLEAN : Listening(ok)) \/ Stop \/ Closed
  BY <1>5, ListeningStopClosedKeep
<1>6. ASSUME NEW r \in Requests,
             Serve(r) \/ Forget(r) \/ \E e \in Endpoints : Receive(r, e)
      PROVE  IInv'
  BY <1>6, FindRouteKeeps, InvokeMethodKeeps, ForgetKeeps, ReceiveKeeps DEF Serve
<1>7. CASE UNCHANGED vars
  <2>1. /\ UNCHANGED bindings
        /\ controllers' = controllers /\ routes' = routes /\ spec' = spec
        /\ handler' = handler /\ pending' = pending /\ request' = request
        /\ server' = server /\ changes' = changes
    BY <1>7 DEF vars, bindings
  <2>2. /\ Rebound' = Rebound /\ Built' = Built
        /\ \A e \in Endpoints : Wanted(e)' = Wanted(e)
    BY <2>1, SameBindings
  <2>3. TypeOK' /\ Fresh' /\ HandlerFirst'
    BY <2>1, <2>2 DEF IInv, TypeOK, Fresh, HandlerFirst
  <2>4. Asked' /\ Promises' /\ Undisturbed'
    BY <2>1, <2>2, RequestsUntouched
  <2> QED BY <2>3, <2>4 DEF IInv
<1> QED BY <1>1, <1>2, <1>3, <1>4, <1>5, <1>6, <1>7 DEF Next

(* The strengthened invariant holds of every behaviour.                     *)
THEOREM RestInductive == Spec => []IInv
BY InitIInv, NextIInv, PTL DEF Spec

-----------------------------------------------------------------------------
(***************************************************************************)
(* What follows.                                                           *)
(***************************************************************************)

(* Every variable keeps its type; above all, a handler that has been set   *)
(* up is a routing table.                                                  *)
THEOREM RestTypeOK == Spec => []TypeOK
<1>1. IInv => TypeOK
  BY DEF IInv
<1> QED BY <1>1, RestInductive, PTL

(* When the observer has heard of everything, the handler dispatches each  *)
(* endpoint as API_SPEC says, else to the last controller that decorates   *)
(* it, else to the route of the user.                                      *)
THEOREM HandlerUpToDate == Spec => []UpToDate
<1>1. IInv => UpToDate
  <2> SUFFICES ASSUME IInv, handler # NONE, pending = 0, ~BuildFails,
                      NEW e \in Endpoints
               PROVE  \/ \E i \in Described(e) : handler[e] = spec[i].controller
                      \/ /\ Described(e) = {}
                         /\ \E i \in Decorating(e) :
                              handler[e] = controllers[i] /\ \A j \in Decorating(e) : j <= i
                      \/ /\ Described(e) \cup Decorating(e) = {}
                         /\ handler[e] = routes[e] /\ routes[e] \in {USER, NONE}
    BY DEF UpToDate
  <2>1. handler = Built /\ routes = Rebound /\ TypeOK
    BY DEF IInv, Fresh
  <2>2. CASE Described(e) # {}
    BY <2>1, <2>2, BuiltOffers
  <2>3. CASE Described(e) = {}
    <3>1. handler[e] = Rebound[e]
      BY <2>1, <2>3, BuiltOffers
    <3>2. Claims(e) = Decorating(e)
      BY DEF BuildFails, AllUsable, Claims, Decorating
    <3>3. CASE Claims(e) # {}
      <4>1. /\ Max(Claims(e)) \in Claims(e)
            /\ \A j \in Claims(e) : j <= Max(Claims(e))
        BY <2>1, <3>3, LastClaimIsBound
      <4>2. Rebound[e] = controllers[Max(Claims(e))]
        BY <3>3 DEF Rebound, LastClaim
      <4> QED BY <2>3, <3>1, <3>2, <4>1, <4>2
    <3>4. CASE Claims(e) = {}
      <4>1. Rebound[e] \in {USER, NONE}
        BY <3>4 DEF Rebound
      <4> QED BY <2>1, <2>3, <3>1, <3>2, <3>4, <4>1
    <3> QED BY <3>3, <3>4
  <2> QED BY <2>2, <2>3
<1> QED BY <1>1, RestInductive, PTL

(* A request whose endpoint was offered when it came, and keeps its owner, *)
(* is answered by that owner, however often the handler is replaced while  *)
(* it is under way.                                                        *)
THEOREM RequestsUndisturbed == Spec => []Undisturbed
<1>1. IInv => Undisturbed
  BY DEF IInv
<1> QED BY <1>1, RestInductive, PTL

=============================================================================
