-------------------------- MODULE MCResponsibility --------------------------
(* Model-checking instance of Responsibility: one Goal, one Responsibility. *)
EXTENDS Responsibility, TLC

Symmetry == Permutations(Commands) \cup Permutations(Staff)
=============================================================================
