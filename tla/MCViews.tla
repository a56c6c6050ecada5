------------------------------- MODULE MCViews -------------------------------
EXTENDS Views

\* One Task, two Tasks, and a Plan that asks the CEO two questions first.
MCPlans == {[tasks |-> 1, questions |-> 0], [tasks |-> 2, questions |-> 0],
            [tasks |-> 1, questions |-> 2]}
=============================================================================
