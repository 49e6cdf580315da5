SPECIFICATION Spec
CONSTANTS
    m1 = m1
    m2 = m2
    r1 = r1
    r2 = r2
    Idle = Idle
    Absent = Absent
    Machines <- TwoMachines
    Requests <- TwoRequests
    Restores = TRUE
    MayFail = TRUE
    MaxUsers = 2
    MaxTokens = 3
    MaxChanges = 2
SYMMETRY Symmetry
INVARIANTS
    TypeOK
    RevokedStaysOut
    OneMachine
CHECK_DEADLOCK FALSE
