CONSTANTS
    s1 = s1
    s2 = s2
    s3 = s3
    s4 = s4
    b1 = b1
    b2 = b2
    d1 = d1
    d2 = d2
    na1 = na1
    na2 = na2
    Savers = {s1, s2, s3, s4}
    Boxes = {b1, b2}
    Names = {na1, na2}
    BoxOf <- MCBoxOf
    DirOf <- MCDirOf
    NameOf <- MCNameOf
    Forced = {s2, s4}
    Nobody = Nobody
    None = None
    Before = Before
    Forking = {b2}
    Rounds = {{s1, s2}, {s1, s3}, {s1, s4}}
    MaxFaults = 2
    Shots = {p1, p2}
    Recs = {r1, r2}
    Hides = {h1}
    Shows = {w1}
    NoCmd = NoCmd
    PtrRounds = {{p1, p2, r1}, {p1, h1, w1}, {p1, r1, w1}, {p1, r1, r2}}
    MaxPtrFaults = 2
    j1 = j1
    t1 = t1
    Jobs = {j1, j2}
    Notes = {c1, c2}
    Stops = {t1}
    StopOf <- MCStopOf
    NoJob = NoJob
    JobRounds = {{j1, c1, c2, t1}, {j1, j2, c1}}
    Runs = {1, 2, 3}
    Killers = {2}
    Grace = 1
    Old = 2
    ClockEnd = 3
    Killable = {1}
    x1 = x1
    Addrs = {x1, x2}
    NoAddrs = NoAddrs
    Gap = 2
    FailingMax = 16
    NftWait = 3
    Lag = 1
    MaxFailed = 5
    Callers = {k1, k2, k3}
    MaxHandlers = 2
SPECIFICATION WorkSpec
INVARIANT SaidNotTorn
CHECK_DEADLOCK FALSE
