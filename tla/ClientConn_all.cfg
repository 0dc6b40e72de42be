SPECIFICATION Spec
CONSTANTS
    Client = {c1, c2}
    Fd = {1, 2}
    Free = Free
    NoConn = NoConn
    NeedHeartBeat = TRUE
    ClientConnSize = 1
    Relogin = TRUE
    HeartBeatTimeout = 1
    MaxAsk = 1
    MaxFailures = 1
INVARIANTS
    TypeOK
    ViewsAgree
PROPERTIES
    LeftIsForgotten
    RequestAnswered
