SPECIFICATION MCSpec
CONSTANTS
    c1 = c1
    c2 = c2
    x = x
    y = y
    NoContent = NoContent
    NoVersion = NoVersion
    Absent = Absent
    None = None
    Gone = Gone
    MaxId = 2
    MaxVersion = 3
    MaxSent = 3
    MaxMarks = 1
    Contents <- StdContents
    Statuses <- TwoStatuses
    Clients <- TwoClients
    Calcs <- StdOnly
    CalcOf <- AllStd
    Starting <- StdStart
    Patient = TRUE
SYMMETRY ClientSymmetry
INVARIANTS
    TypeOK
    UnsavedIsMarked
PROPERTIES
    NoSilentOverwrite
