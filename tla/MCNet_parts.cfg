SPECIFICATION MCSpec
CHECK_DEADLOCK FALSE
CONSTANTS
    Request = {r1, r2, r3}
    Worker = {w1, w2}
    NoRequest = NoRequest
    MaxAdds = 4
    ReaddsOwn = FALSE
    Conn = {c1, c2}
    Files = 2
    MaxCells = 5
    NoConn = NoConn
    Servers = 2
    Proxies = 1
    Links = 3
    MaxMessages = 1
    MaxFaults = 1
    MaxSlow = 1
    Pauses = {FALSE}
    Asker = {g, p}
    GameServer = {g}
    MaxEdits = 1
    MaxTroubles = 2
INVARIANTS
    TypeOK
    RegisteredAreUnderway
    CallbacksInOrder
    OwnMessages
    NoneLostAtClose
    EndsByItsOwn
    CompletionsMatch
    RegisteredIsCurrent
    AtMostOnce
    ConnectedIsCurrent
PROPERTIES
    EveryCallback
    EveryMessage
    LinksSettle
    CalmArrives
    ConfigArrives
