---------------------------- MODULE MCTaskService ----------------------------
(* Model-checking instance of TaskService. *)
EXTENDS TaskService, TLC

\* Callers, Tasks and reasons are interchangeable.
Symmetry == Permutations(Callers) \cup Permutations(Tasks)
=============================================================================
