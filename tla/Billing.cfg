SPECIFICATION FairSpec
CONSTANTS
    p1 = p1
    c1 = c1
    c2 = c2
    Port = {p1}
    Collector = {c1, c2}
    Speed = 1
    Blur = 1
    Narrow = 16
    Old = 20
    Length = 4
    Ops = {"crash", "reset", "fail", "again", "overlap", "edit", "back"}
    None = None
    Start = 1
    MaxTime = 6
    MaxCarried = 1
    MaxTraffic = 1
    MaxRun = 1
    When = {4}
    MaxFaults = 1
INVARIANTS TypeOK NeverOverbilled NothingLeftOut LineRate
PROPERTY HistoryCatchesUp
CHECK_DEADLOCK FALSE
