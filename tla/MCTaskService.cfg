SPECIFICATION ServiceSpec
CONSTANTS
    Callers = {p1, p2}
    Tasks = {t1}
    Reasons = {r}
    NoReason = NoReason
    NoTask = NoTask
    NoOne = NoOne
    MaxVersion = 4
SYMMETRY Symmetry
INVARIANTS
    AuditTellsHistory
    ReplyTellsCommit
PROPERTIES
    ImplementsLifecycle
CHECK_DEADLOCK TRUE
