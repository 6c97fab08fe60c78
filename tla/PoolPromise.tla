---------------------------- MODULE PoolPromise ----------------------------
(***************************************************************************)
(* What the pooling service (extensions/pooling/src/pooling.ts) promises   *)
(* its borrowers, in terms of the resources and of who has them.  What     *)
(* becomes of them is in ResourcePool.                                     *)
(***************************************************************************)
CONSTANTS
  Borrowers,    \* callers of the service
  Resources,    \* the slots that resources are created in
  NOTHING

VARIABLES
  resource,     \* what has become of each resource
  borrower,     \* what each of them is doing
  holds,        \* the resource that it works with, or NOTHING
  used          \* resources used since the last clean-up

(* Who has a resource is in a hook, works with it or gives it back.        *)
Busy == {"setup", "using", "cleanup", "discarding"}

(* A resource is in the hands of one borrower at a time, and what is lent  *)
(* is in somebody's hands: nothing leaks, whichever hook fails.            *)
Exclusive ==
  /\ \A c, d \in Borrowers : holds[c] = holds[d] /\ holds[c] # NOTHING => c = d
  /\ \A c \in Borrowers : holds[c] # NOTHING <=> borrower[c] \in Busy
  /\ \A r \in Resources : resource[r] = "lent" <=> \E c \in Borrowers : holds[c] = r

(* A resource that has been used is not lent again before its release hook *)
(* has cleaned it up.                                                      *)
Clean ==
  /\ \A r \in used : resource[r] \notin {"available", "creating", "none"}
  /\ \A c \in Borrowers : borrower[c] \in {"setup", "using"} => holds[c] \notin used

=============================================================================
