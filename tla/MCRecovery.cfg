SPECIFICATION Spec
CONSTANTS
    Workers = {w1}
    Operators = {o1}
    Tasks = {t1, t2}
    Spare = {t2}
    Damaged = {t2}
    Reasons = {r}
    NoReason = NoReason
    NoTask = NoTask
    NoPlan = NoPlan
    MaxVersion = 4
INVARIANTS
    NeverAccused
    ViewsAgree
    ToldIsRepaired
PROPERTIES
    RepairLandsOnApproved
CHECK_DEADLOCK FALSE
