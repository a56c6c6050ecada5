SPECIFICATION Spec
CONSTANTS
    Commands = {c1, c2, c3, c4}
    NoCommand = NoCommand
    Plans <- ThreePlans
    Ops <- All
    MaxSuffix = 2
SYMMETRY Symmetry
INVARIANTS
    TypeOK
    ToldIsRecorded
    RecordedIsDone
    MethodsAgreeWithReplay
    BoundedOnce
CHECK_DEADLOCK FALSE
