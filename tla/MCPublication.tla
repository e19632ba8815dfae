--------------------------- MODULE MCPublication ---------------------------
(* Publication on small instances.                                         *)
EXTENDS Publication, TLC

\* Tasks are interchangeable: only safety properties are checked.
Symmetry == Permutations(Tasks)

============================================================================
