--------------------------- MODULE MCOrganization ---------------------------
(* Model-checking instance of Organization.  Names: 1, 2 and 3 differ; 4 is  *)
(* another spelling of 1; 5 has the given name of 2; 6 is not well-formed;   *)
(* 7 is the Workspace Manager.                                               *)
EXTENDS Organization, TLC

MCNames == 1 .. 7
MCGivenName == <<"a", "b", "c", "a", "b", "f", "m">>
MCNormalName == <<"A", "B", "C", "A", "E", "F", "M">>
MCWellFormed == MCNames \ {6}

Hire(id, name) == [kind |-> "hire", id |-> id, name |-> name, role |-> "Writer"]
Rename(id, old, new) == [kind |-> "rename", id |-> id, old |-> old, new |-> new, at |-> 1]

MCStarters == <<[id |-> 1, name |-> 1, role |-> "Writer"],
                [id |-> 3, name |-> 3, role |-> "Reviewer"]>>

Employee(id, role) == [id |-> id, role |-> role]

MCRequests ==
    {Hire(3, 3), Hire(3, 4), Hire(4, 5), Hire(4, 6),
     Rename(1, 1, 3), Rename(1, 3, 1), Rename(2, 2, 5), Rename(2, 2, 3),
     [kind |-> "sync"]}

MCOrganizations ==
    {<<>>,
     <<Employee(1, "Writer"), Employee(2, "Reviewer")>>,
     <<Employee(1, "Writer"), Employee(1, "Reviewer")>>,
     <<Employee(1, "Writer"), Employee(1, "Reviewer"), Employee(1, "Writer")>>}

Symmetry == Permutations(Commands)
=============================================================================
