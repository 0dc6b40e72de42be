SPECIFICATION Spec
CONSTANTS
    Sess = {s1, s2}
    Key = {k1}
    RobotKey = {k1}
    NoData = NoData
    NoVersion = NoVersion
    MaxLockId = 1
    DrawsDistinct = FALSE
    DbLockTimeout = 1
    MaxClock = 2
    DbMayFail = TRUE
    Ops = {"update", "insert", "delete"}
PROPERTIES
    InsertNeverOverwrites
