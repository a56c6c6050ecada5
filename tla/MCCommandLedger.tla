--------------------------- MODULE MCCommandLedger ---------------------------
(* Model-checking instance of CommandLedger. *)
EXTENDS CommandLedger, TLC

\* Callers, requests and result payloads are interchangeable.
Symmetry ==
    Permutations(Callers) \cup Permutations(Requests) \cup Permutations(Results)
=============================================================================
