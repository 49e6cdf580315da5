SPECIFICATION MCSpec
CONSTANTS
    i1 = i1
    i2 = i2
    c1 = c1
    c2 = c2
    NoContent = NoContent
    NoVersion = NoVersion
    Absent = Absent
    Idle = Idle
    MaxId = 2
    MaxVersion = 2
    Budget = 4
    Contents <- OneContent
    Statuses <- TwoStatuses
    Instances <- OneInstance
    Offered <- PostAndPurge
    Backend = "sqlite"
    MultiInstance = FALSE
    ReadMayFail = FALSE
    MirrorMayFail = TRUE
PROPERTIES
    OthersUntouched
