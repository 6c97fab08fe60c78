-------------------------- MODULE MCContextEvents --------------------------
(* Values for model checking ContextEvents: an application context with a  *)
(* request context below it, and a key that both may bind.                 *)
EXTENDS ContextEvents, TLC

CONSTANTS app, req, key, b1, b2, view, watcher

Chain == (app :> {}) @@ (req :> {app})
OneKey == (b1 :> key) @@ (b2 :> key)
Homes == (view :> req) @@ (watcher :> req)

=============================================================================
