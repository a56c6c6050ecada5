SPECIFICATION Spec

CONSTANTS
    Commands = {c1, c2, c3}
    Goals = {g}
    Responsibilities = {r}
    Employees = {e1, e2, e3}
    Staff = {e1, e2}
    Vacant = Vacant
    Absent = Absent
    NoCommand = NoCommand

SYMMETRY Symmetry

CHECK_DEADLOCK FALSE

INVARIANTS
    ToldStands
    PageLagIsOnRecord
    RefsResolve

