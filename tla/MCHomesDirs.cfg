CONSTANTS
    u1 = u1
    u2 = u2
    d1 = d1
    s1 = s1
    s2 = s2
    r1 = r1
    r2 = r2
    NoProc = NoProc
    NoBox = NoBox
    NoHome = NoHome
    Runtime = {r1, r2}
    Up = {u1, u2}
    Down = {d1}
    Sweep = {}
    At <- TwoDirs
    LeftFrom = {}
    MaxKills = 0
SPECIFICATION Spec
INVARIANTS HomeLinked
CHECK_DEADLOCK FALSE
