SPECIFICATION Spec
CONSTANTS
    Sess = {s1, s2, s3}
    Key = {k1}
    RobotKey = {k1}
    NoData = NoData
    NoVersion = NoVersion
    MaxLockId = 2
    DrawsDistinct = FALSE
    DbLockTimeout = 0
    MaxClock = 1
    DbMayFail = TRUE
    Ops = {"update", "insert"}
SYMMETRY Symmetry
INVARIANTS
    TypeOK
    VersionNamesData
PROPERTIES
    NoLostUpdate
    LeaseExclusive
