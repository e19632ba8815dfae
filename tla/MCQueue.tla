------------------------------ MODULE MCQueue ------------------------------
(* StackQueue on small instances.                                          *)
EXTENDS StackQueueRefinement, TLC

\* Tasks are interchangeable where no liveness property is checked.
Symmetry == Permutations(Tasks)

============================================================================
