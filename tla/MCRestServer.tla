---------------------------- MODULE MCRestServer ----------------------------
(* RestServer with two endpoints, one of them with a variable in its path, *)
(* and three controllers that decorate them in part.                       *)
EXTENDS RestServer

CONSTANTS fixed, template, c1, c2, value

MCEndpoints == {fixed, template}
MCControllers == {c1, c2, value}
MCDecorated == (c1 :> {fixed, template}) @@ (c2 :> {fixed}) @@ (value :> {})
MCSpecs ==
  {<<>>, <<[endpoint |-> fixed, controller |-> c1]>>,
   <<[endpoint |-> template, controller |-> c2],
     [endpoint |-> fixed, controller |-> c2]>>}
=============================================================================
