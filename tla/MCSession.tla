------------------------------ MODULE MCSession ------------------------------
(* Model-checking instance of Session. *)
EXTENDS Session, TLC

\* One Task, two Tasks, and a Plan that asks two questions.
ThreePlans == {[tasks |-> 1, questions |-> 0], [tasks |-> 2, questions |-> 0],
               [tasks |-> 1, questions |-> 2]}

All == {"start", "generate", "answer", "apply", "approve", "workflow",
        "recover", "action", "archive", "unarchive"}

\* Commands are interchangeable.
Symmetry == Permutations(Commands)
=============================================================================
