CONSTANTS
    u1 = u1
    u2 = u2
    d1 = d1
    d2 = d2
    t1 = t1
    a1 = a1
    a2 = a2
    user = user
    jail = jail
    NoProc = NoProc
    NoBox = NoBox
    NoAgent = NoAgent
    User = user
    PidMax = 8
    FirstPid = 6
    Agent = {a1, a2}
    AgentOf <- Resumed
    JailOf <- AllUser
    Up = {u1, u2}
    Down = {}
    Cmd = {}
    Owned = {}
    Agented = {}
    Idling = {u1}
    Covered = {}
    Windowed = {}
    SlowLaunch = {u1, u2}
    MaxUps = 2
    MaxTick = 1
    MaxKills = 0
SPECIFICATION Spec
INVARIANTS IdleUnused
CHECK_DEADLOCK FALSE
