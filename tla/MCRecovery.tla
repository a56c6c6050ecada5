----------------------------- MODULE MCRecovery -----------------------------
(* Model-checking instance of Recovery: the actors are few and distinct, so  *)
(* there is no symmetry to use.                                              *)
EXTENDS Recovery, TLC
=============================================================================
