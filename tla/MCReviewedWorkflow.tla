------------------------- MODULE MCReviewedWorkflow -------------------------
(* A small Project for ReviewedWorkflow: two independent Tasks and a third *)
(* one that depends on both; and the Task limits of its two Commands.      *)
EXTENDS ReviewedWorkflow

MCFan == <<{}, {}, {1, 2}>>

MCWideThenTight == <<3, 2>>
=============================================================================
