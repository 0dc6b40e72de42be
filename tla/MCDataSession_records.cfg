SPECIFICATION Spec
CONSTANTS
    Sess = {s1, s2}
    Key = {k1, k2}
    RobotKey = {k1}
    NoData = NoData
    NoVersion = NoVersion
    MaxLockId = 4
    DrawsDistinct = TRUE
    DbLockTimeout = 0
    MaxClock = 1
    DbMayFail = FALSE
    Ops = {"update", "delete"}
SYMMETRY Symmetry
INVARIANTS
    HolderNotRefused
    ResponseFitsState
PROPERTIES
    LeaseSpec
