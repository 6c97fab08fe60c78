----------------------------- MODULE ResourcePool -----------------------------
(***************************************************************************)
(* The pooling service (extensions/pooling/src/pooling.ts): a pool of      *)
(* resources, with hooks that set up a resource for whom it is lent to and *)
(* clean it up before it is lent again.  Every hook may fail.  The pool    *)
(* underneath is the package generic-pool, which is external: it lends     *)
(* resources in the order of requests, creates them up to a maximum and    *)
(* destroys them.                                                          *)
(***************************************************************************)
EXTENDS PoolPromise, Naturals, FiniteSets, Sequences

CONSTANTS
  MaxResources,  \* how many the pool may have
  MaxFailures    \* bound on the failures of create

ASSUME PoolAssumption ==
  /\ MaxResources \in Nat \ {0} /\ MaxFailures \in Nat
  /\ IsFiniteSet(Resources) /\ Cardinality(Resources) >= MaxResources
  /\ NOTHING \notin Resources

VARIABLES
  service,      \* the pool as a whole
  queue,        \* who waits for a resource
  failures

vars == <<service, resource, queue, borrower, holds, used, failures>>

Init ==
  /\ service = "new"
  /\ resource = [r \in Resources |-> "none"]
  /\ queue = <<>>
  /\ borrower = [c \in Borrowers |-> "idle"]
  /\ holds = [c \in Borrowers |-> NOTHING]
  /\ used = {}
  /\ failures = 0

In(at) == {r \in Resources : resource[r] = at}
Size == Cardinality(In("creating") \cup In("available") \cup In("lent"))

(*-------------------------------------------------------------------------*)
(* generic-pool                                                            *)
(*-------------------------------------------------------------------------*)

(* The factory creates a resource: it gets the value of a binding and      *)
(* calls its start().                                                      *)
Create(r) ==
  /\ resource[r] = "none"
  /\ Size < MaxResources
  /\ Cardinality(In("creating") \cup In("available")) < Len(queue)
  /\ resource' = [resource EXCEPT ![r] = "creating"]
  /\ UNCHANGED <<service, queue, borrower, holds, used, failures>>

Created(r, ok) ==
  /\ resource[r] = "creating"
  /\ ~ok => failures < MaxFailures
  /\ resource' = [resource EXCEPT ![r] = IF ok THEN "available" ELSE "none"]
  /\ failures' = IF ok THEN failures ELSE failures + 1
  /\ UNCHANGED <<service, queue, borrower, holds, used>>

(* Who waits longest gets a resource.                                      *)
Lend(r) ==
  /\ resource[r] = "available"
  /\ queue # <<>>
  /\ resource' = [resource EXCEPT ![r] = "lent"]
  /\ queue' = Tail(queue)
  /\ borrower' = [borrower EXCEPT ![Head(queue)] = "setup"]
  /\ holds' = [holds EXCEPT ![Head(queue)] = r]
  /\ UNCHANGED <<service, used, failures>>

(* A destroyed resource does not count any more while its stop() runs.     *)
Destroyed(r) ==
  /\ resource[r] = "stopping"
  /\ resource' = [resource EXCEPT ![r] = "none"]
  /\ used' = used \ {r}
  /\ UNCHANGED <<service, queue, borrower, holds, failures>>

(* clear(), after drain() has seen everything returned.                    *)
Clear(r) ==
  /\ service = "draining"
  /\ queue = <<>> /\ In("lent") = {}
  /\ resource[r] = "available"
  /\ resource' = [resource EXCEPT ![r] = "stopping"]
  /\ UNCHANGED <<service, queue, borrower, holds, used, failures>>

(*-------------------------------------------------------------------------*)
(* PoolingService                                                          *)
(*-------------------------------------------------------------------------*)

Start ==
  /\ service = "new"
  /\ service' = "started"
  /\ UNCHANGED <<resource, queue, borrower, holds, used, failures>>

(* stop(): nobody can acquire any more.                                    *)
Stop ==
  /\ service = "started"
  /\ service' = "draining"
  /\ UNCHANGED <<resource, queue, borrower, holds, used, failures>>

Stopped ==
  /\ service = "draining"
  /\ queue = <<>> /\ \A r \in Resources : resource[r] = "none"
  /\ service' = "stopped"
  /\ UNCHANGED <<resource, queue, borrower, holds, used, failures>>

Acquire(c) ==
  /\ service = "started"
  /\ borrower[c] = "idle"
  /\ borrower' = [borrower EXCEPT ![c] = "waiting"]
  /\ queue' = Append(queue, c)
  /\ UNCHANGED <<service, resource, holds, used, failures>>

(* Mutant: when the hook fails, the error is just passed on.               *)
SetUpAndForget(c, ok) ==
  /\ borrower[c] = "setup"
  /\ borrower' = [borrower EXCEPT ![c] = IF ok THEN "using" ELSE "idle"]
  /\ holds' = IF ok THEN holds ELSE [holds EXCEPT ![c] = NOTHING]
  /\ UNCHANGED <<service, resource, queue, used, failures>>

(* The acquire hook of the factory or of the resource.                     *)
SetUp(c, ok) ==
  /\ borrower[c] = "setup"
  /\ borrower' = [borrower EXCEPT ![c] = IF ok THEN "using" ELSE "discarding"]
  /\ UNCHANGED <<service, resource, queue, holds, used, failures>>

(* The task of run() ends, and the resource is released, or destroyed if   *)
(* the task failed.  A caller of acquire() does either itself.             *)
Use(c, ok) ==
  /\ borrower[c] = "using"
  /\ borrower' = [borrower EXCEPT ![c] = IF ok THEN "cleanup" ELSE "discarding"]
  /\ used' = used \cup {holds[c]}
  /\ UNCHANGED <<service, resource, queue, holds, failures>>

LeavesHands(c, at) ==
  /\ resource' = [resource EXCEPT ![holds[c]] = at]
  /\ borrower' = [borrower EXCEPT ![c] = "idle"]
  /\ holds' = [holds EXCEPT ![c] = NOTHING]

(* Mutant: the resource goes back before the hook has run.                 *)
ReleaseFirst(c) ==
  /\ borrower[c] = "cleanup"
  /\ LeavesHands(c, "available")
  /\ UNCHANGED <<service, queue, used, failures>>

(* The release hook, and release() of the pool.                            *)
Release(c) ==
  /\ borrower[c] = "cleanup"
  /\ LeavesHands(c, "available")
  /\ used' = used \ {holds[c]}
  /\ UNCHANGED <<service, queue, failures>>

ReleaseFails(c) ==
  /\ borrower[c] = "cleanup"
  /\ borrower' = [borrower EXCEPT ![c] = "discarding"]
  /\ UNCHANGED <<service, resource, queue, holds, used, failures>>

(* destroy() of the pool; the error is thrown.                             *)
Destroy(c) ==
  /\ borrower[c] = "discarding"
  /\ LeavesHands(c, "stopping")
  /\ UNCHANGED <<service, queue, used, failures>>

(*-------------------------------------------------------------------------*)

PoolStep ==
  \/ \E r \in Resources : Create(r) \/ Lend(r) \/ Destroyed(r) \/ Clear(r)
  \/ \E r \in Resources, ok \in BOOLEAN : Created(r, ok)
  \/ Stopped

ClientStep(c) ==
  \/ \E ok \in BOOLEAN : SetUp(c, ok) \/ Use(c, ok)
  \/ Release(c) \/ ReleaseFails(c) \/ Destroy(c)

Next == PoolStep \/ Start \/ Stop \/ \E c \in Borrowers : Acquire(c) \/ ClientStep(c)

(* Hooks settle, and who has a resource gives it back ("it MUST be         *)
(* released"); nobody has to acquire one, or to stop the service.          *)
Spec ==
  Init /\ [][Next]_vars /\ WF_vars(PoolStep) /\ \A c \in Borrowers : WF_vars(ClientStep(c))
-----------------------------------------------------------------------------
TypeOK ==
  /\ service \in {"new", "started", "draining", "stopped"}
  /\ resource \in [Resources -> {"none", "creating", "available", "lent", "stopping"}]
  /\ queue \in Seq(Borrowers)
  /\ borrower \in [Borrowers -> {"idle", "waiting"} \cup Busy]
  /\ holds \in [Borrowers -> Resources \cup {NOTHING}]
  /\ used \subseteq Resources
  /\ failures \in 0..MaxFailures

(* Whoever waits for a resource gets one, however many are destroyed.      *)
Served == \A c \in Borrowers : borrower[c] = "waiting" ~> borrower[c] # "waiting"

(* stop() ends when everything has been returned.                          *)
StopEnds == service = "draining" ~> service = "stopped"

(* Nobody waits for ever, neither a borrower for a resource nor stop() for *)
(* the resources to come back, whichever hooks fail.                       *)
NobodyWaits == Served /\ StopEnds
=============================================================================
