SPECIFICATION MCSpec
CONSTANTS
    w1 = w1
    w2 = w2
    s1 = s1
    s2 = s2
    p1 = p1
    p2 = p2
    stamped = stamped
    plain = plain
    keyless = keyless
    Idle = Idle
    Unknown = Unknown
    Writes <- TwoWrites
    Pushes <- TwoPushes
    Pulls <- TwoPulls
    Batch = 2
    MaxAttempts = 2
    MaxVersion = 3
    Rows <- ThreeRows
    Stamped <- StampedRows
    Keyed <- KeyedRows
    MaxSaves = 4
SYMMETRY Symmetry
INVARIANTS
    TypeOK
    UpdateAppliedOnce
    DoneWasAnswered
    NoDoubleSend
PROPERTIES
    NoRowIsPassed
CHECK_DEADLOCK FALSE
