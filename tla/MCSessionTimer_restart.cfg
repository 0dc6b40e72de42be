SPECIFICATION Spec
CONSTANTS
    Request = {r1, r2}
    Free = Free
    NoTimer = NoTimer
    SessionSize = 1
    TimerSize = 2
    MaxSessionId = 3
    MaxTimerId = 7
    FirstSession = 3
    FirstTimer = 7
    Timeout = 1
    LeakTime = 4
    MaxCalls = 2
    MaxRestarts = 1
    MaxCrashes = 1
PROPERTIES
    EveryRequestAnswered
    EverySessionEnds
