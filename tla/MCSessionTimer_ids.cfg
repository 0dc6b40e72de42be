SPECIFICATION Spec
CONSTANTS
    Request = {r1, r2, r3}
    Free = Free
    NoTimer = NoTimer
    SessionSize = 2
    TimerSize = 6
    MaxSessionId = 3
    MaxTimerId = 7
    FirstSession = 3
    FirstTimer = 6
    Timeout = 1
    LeakTime = 3
    MaxCalls = 2
    MaxRestarts = 1
    MaxCrashes = 0
SYMMETRY Symmetry
PROPERTIES
    ResponseIsOwn
