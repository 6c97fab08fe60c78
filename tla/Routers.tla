------------------------------- MODULE Routers -------------------------------
(***************************************************************************)
(* The two routers of packages/rest/src/router: TrieRouter, a tree of path *)
(* segments, and RegExpRouter, a sorted array of patterns.  Both are given *)
(* the same routes.                                                        *)
(*                                                                         *)
(* A route is a path with or without a slash at its end; a path is a       *)
(* sequence of segments, literals and variables.  Routes without variables *)
(* are kept in a map by the base class of both.  The verb, which is the    *)
(* first segment for one router and a filter for the other, is left out.   *)
(***************************************************************************)
EXTENDS Naturals, FiniteSets, SequencesExt

CONSTANTS
  Literals,     \* numbers, in the place of strings: they are compared
  Variables,    \* names of path variables
  MaxLength,    \* bound on the length of paths
  MaxRoutes,    \* bound on the number of routes
  NONE

ASSUME RoutersAssumption ==
  /\ Literals \subseteq Nat /\ MaxLength \in Nat /\ MaxRoutes \in Nat
  /\ Variables \cap Nat = {} /\ NONE \notin Nat

VARIABLES
  strict,       \* the option of the same name
  fixed,        \* routesWithoutPathVars
  nodes,        \* of the trie: prefixes, in the order of their creation
  value,        \* of the trie: the routes at its nodes
  routes        \* of RegExpRouter

vars == <<strict, fixed, nodes, value, routes>>

Paths(segments) == UNION {[1..n -> segments] : n \in 1..MaxLength}
HasVariables(path) == \E i \in DOMAIN path : path[i] \in Variables

Init ==
  /\ strict \in BOOLEAN
  /\ fixed = {}
  /\ nodes = <<>>
  /\ value = <<>>
  /\ routes = <<>>

(*-------------------------------------------------------------------------*)
(* TrieRouter                                                              *)
(*-------------------------------------------------------------------------*)

IsChild(n, parent) == n # <<>> /\ Front(n) = parent

(* Mutant: the variables come first.                                       *)
MatchVariablesFirst(key, parent) ==
  SelectSeq(nodes, LAMBDA n : IsChild(n, parent) /\ Last(n) \in Variables)
    \o SelectSeq(nodes, LAMBDA n : n = Append(parent, key))

(* A literal child hides the variables.                                    *)
MatchChildren(key, parent) ==
  IF Append(parent, key) \in ToSet(nodes) THEN <<Append(parent, key)>>
  ELSE SelectSeq(nodes, LAMBDA n : IsChild(n, parent) /\ Last(n) \in Variables)

(* Depth first: the first child below which a route is found.              *)
Search(path) ==
  LET below[node \in ToSet(nodes) \cup {<<>>}] ==
        IF Len(node) = Len(path)
        THEN IF node \in DOMAIN value THEN value[node] ELSE NONE
        ELSE LET children == MatchChildren(path[Len(node) + 1], node)
                 results == SelectSeq([i \in DOMAIN children |-> below[children[i]]],
                                      LAMBDA r : r # NONE)
             IN IF results = <<>> THEN NONE ELSE Head(results)
  IN below[<<>>]

CreateNode(route) ==
  LET path == route.path
      prefixes == [i \in DOMAIN path |-> SubSeq(path, 1, i)]
  IN /\ nodes' = nodes \o SelectSeq(prefixes, LAMBDA p : p \notin ToSet(nodes))
     /\ value' = [p \in DOMAIN value \cup {path} |->
                    IF p = path THEN route ELSE value[p]]

(*-------------------------------------------------------------------------*)
(* RegExpRouter                                                            *)
(*-------------------------------------------------------------------------*)

(* compareRoute: token by token, variables last, longer paths first.       *)
SameToken(s, t) == s = t \/ {s, t} \subseteq Variables
TokenPrecedes(s, t) == s \notin Variables /\ (t \in Variables \/ s < t)
Precedes(p, q) ==
  \E k \in DOMAIN p :
    /\ \A j \in 1..(k - 1) : j \in DOMAIN q /\ SameToken(p[j], q[j])
    /\ k \in DOMAIN q => TokenPrecedes(p[k], q[k])

Fits(path, request) ==
  /\ Len(path) = Len(request)
  /\ \A i \in DOMAIN path : path[i] \in Variables \cup {request[i]}
MatchesRegExp(route, path, slash) ==
  /\ Fits(route.path, path)
  /\ IF strict THEN slash = route.slash ELSE route.slash => slash

(* The first match in the sorted array; sorting is stable.                 *)
RegExpFind(path, slash) ==
  LET matching == {i \in DOMAIN routes : MatchesRegExp(routes[i], path, slash)}
      first == {i \in matching : \A j \in matching :
                  /\ ~Precedes(routes[j].path, routes[i].path)
                  /\ j < i => Precedes(routes[i].path, routes[j].path)}
  IN IF matching = {} THEN NONE ELSE routes[CHOOSE i \in first : TRUE]

(*-------------------------------------------------------------------------*)
(* BaseRouter                                                              *)
(*-------------------------------------------------------------------------*)

(* The trie does without the slash at the end, whether strict or not.      *)
FindRouteWithPathVars(router, path, slash) ==
  IF router = "trie" THEN Search(path) ELSE RegExpFind(path, slash)

FindRoute(router, path, slash) ==
  LET exact == [path |-> path, slash |-> slash] IN
  IF exact \in fixed THEN exact ELSE FindRouteWithPathVars(router, path, slash)

Find(router, path, slash) ==
  LET first == FindRoute(router, path, slash) IN
  IF strict \/ first # NONE THEN first ELSE FindRoute(router, path, ~slash)

AddFixed(route) ==
  /\ ~HasVariables(route.path)
  /\ fixed' = fixed \cup {route}
  /\ UNCHANGED <<strict, nodes, value, routes>>

(* Where the trie has a route already, it throws: such tables are not      *)
(* compared.                                                               *)
AddWithPathVars(route) ==
  /\ HasVariables(route.path)
  /\ route.path \notin DOMAIN value
  /\ CreateNode(route)
  /\ routes' = Append(routes, route)
  /\ UNCHANGED <<strict, fixed>>

Next ==
  /\ Cardinality(fixed) + Len(routes) < MaxRoutes
  /\ \E path \in Paths(Literals \cup Variables), slash \in BOOLEAN :
       LET route == [path |-> path, slash |-> slash] IN
       AddFixed(route) \/ AddWithPathVars(route)

Spec == Init /\ [][Next]_vars
-----------------------------------------------------------------------------
(* Variables at the same place have the same name, and paths with          *)
(* variables do not end with a slash.                                      *)
SameNames(p, q) ==
  \A i \in DOMAIN p \cap DOMAIN q :
    SubSeq(p, 1, i - 1) = SubSeq(q, 1, i - 1) /\ {p[i], q[i]} \subseteq Variables
      => p[i] = q[i]
Regular ==
  \A i \in DOMAIN routes :
    /\ ~routes[i].slash
    /\ \A j \in DOMAIN routes : SameNames(routes[i].path, routes[j].path)

(* Another route has a literal where this one has a variable.              *)
Hidden(route, path) ==
  \E i \in DOMAIN route.path, j \in DOMAIN routes :
    LET other == routes[j].path IN
    /\ i \in DOMAIN other /\ SubSeq(other, 1, i - 1) = SubSeq(route.path, 1, i - 1)
    /\ route.path[i] \in Variables /\ other[i] = path[i]

(* The routers can be exchanged.  If paths are regular, they find the same *)
(* route for every request, but for requests where the trie follows a      *)
(* literal and does not come back to a variable: then it finds none, or a  *)
(* route without variables, never another one with variables.  In any      *)
(* case, the trie finds a route only if it matches.  (In strict mode,      *)
(* requests that end with a slash are different.)                          *)
RoutersAgree ==
  \A path \in Paths(Literals), slash \in BOOLEAN :
    LET t == Find("trie", path, slash)
        r == Find("regexp", path, slash)
    IN /\ t # NONE => Fits(t.path, path)
       /\ Regular /\ ~(strict /\ slash) =>
            t = r \/ (Hidden(r, path) /\ t \in fixed \cup {NONE})
=============================================================================
