-------------------------- MODULE MCEntityRelations --------------------------
(* Values for model checking EntityRelations.                              *)
EXTENDS EntityRelations, TLC

CONSTANTS s1, s2, a, b

MCHot == {<<a, 1>>, <<b, 2>>}
Symmetry == Permutations(Clients)
=============================================================================
