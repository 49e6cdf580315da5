SPECIFICATION MCSpec
CONSTANTS
    c1 = c1
    c2 = c2
    x = x
    y = y
    NoContent = NoContent
    NoVersion = NoVersion
    Absent = Absent
    None = None
    Gone = Gone
    MaxId = 2
    MaxVersion = 3
    MaxSent = 3
    MaxMarks = 2
    Contents <- StdContents
    Statuses <- TwoStatuses
    Clients <- OneClient
    Calcs <- StdOnly
    CalcOf <- AllStd
    Starting <- StdStart
    Patient = TRUE
INVARIANTS
    UpdatesOwnQuote
