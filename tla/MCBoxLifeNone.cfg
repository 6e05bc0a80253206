CONSTANTS
    u1 = u1
    u2 = u2
    d1 = d1
    d2 = d2
    t1 = t1
    a1 = a1
    a2 = a2
    user = user
    jail = jail
    NoProc = NoProc
    NoBox = NoBox
    NoAgent = NoAgent
    User = user
    PidMax = 8
    FirstPid = 6
    Agent = {a1, a2}
    AgentOf <- Resumed
    JailOf <- AllUser
    Up = {u1}
    Down = {d1, d2}
    Cmd = {}
    Owned = {}
    Agented = {}
    Idling = {}
    Covered = {}
    Windowed = {}
    SlowLaunch = {u1}
    MaxUps = 2
    MaxTick = 2
    MaxKills = 0
SPECIFICATION Spec
INVARIANTS NoneMeansNone
CHECK_DEADLOCK FALSE
