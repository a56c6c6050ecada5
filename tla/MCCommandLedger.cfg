SPECIFICATION LedgerSpec
CONSTANTS
    Callers = {p1, p2, p3}
    CommandIDs = {c1}
    Requests = {r1, r2}
    Results = {ok}
    BlankID = BlankID
SYMMETRY Symmetry
INVARIANTS
    EffectAtMostOnce
    ToldIsProduced
PROPERTIES
    ImplementsOnceOnly
CHECK_DEADLOCK TRUE
