------------------------ MODULE MCBindingResolution ------------------------
(* Values for model checking BindingResolution.                            *)
EXTENDS BindingResolution, TLC

CONSTANTS app, req, s, t, log, reqLog, rq, ap, x, y

Chains == (app :> <<app>>) @@ (req :> <<req, app>>)
ContextScopes == (app :> "application") @@ (req :> "request")

(* A singleton s and a transient t that both need a logger; the request    *)
(* has a logger of its own.  A value per request that needs s.  A binding  *)
(* of the request in the scope of the application, which cannot be         *)
(* resolved.  Two singletons that need each other.                         *)
Keyed == (s :> "s") @@ (t :> "t") @@ (log :> "log") @@ (reqLog :> "log")
         @@ (rq :> "rq") @@ (ap :> "ap") @@ (x :> "x") @@ (y :> "y")
Owned == [b \in Bindings |-> IF b \in {reqLog, ap} THEN req ELSE app]
Scoped == (s :> "singleton") @@ (t :> "transient") @@ (log :> "context")
          @@ (reqLog :> "context") @@ (rq :> "request") @@ (ap :> "application")
          @@ (x :> "singleton") @@ (y :> "singleton")
Needs == (s :> <<"log", "t">>) @@ (t :> <<"log">>) @@ (log :> <<>>)
         @@ (reqLog :> <<>>) @@ (rq :> <<"s", "log">>) @@ (ap :> <<>>)
         @@ (x :> <<"y">>) @@ (y :> <<"x">>)

Calls == {<<app, "s">>, <<req, "rq">>, <<req, "ap">>, <<req, "x">>, <<app, "y">>}
BothEntries == {<<app, "x">>, <<app, "y">>}

=============================================================================
