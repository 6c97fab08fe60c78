---------------------------- MODULE ArrayMethods ----------------------------
(***************************************************************************)
(* Methods of JavaScript arrays, defined by positions, so that one can     *)
(* prove something about them.                                             *)
(***************************************************************************)
EXTENDS Integers, SequencesExt, FiniteSets

(* indexOf, but 0 instead of -1 and counting from 1.                       *)
IndexOf(seq, e) == SelectInSeq(seq, LAMBDA x : x = e)

(* The elements of a finite set in a strict order: as many come before the *)
(* k-th as there are places before it.                                     *)
InOrder(S, Before(_, _)) ==
  [k \in 1..Cardinality(S) |->
     CHOOSE x \in S : Cardinality({y \in S : Before(y, x)}) = k - 1]

(* filter: what is at some positions.                                      *)
Filtered(seq, positions) ==
  LET p == InOrder(positions, <) IN [k \in DOMAIN p |-> seq[p[k]]]

=============================================================================
