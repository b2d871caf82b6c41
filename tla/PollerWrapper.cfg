SPECIFICATION FairSpec
CONSTANTS
    w1 = w1
    w2 = w2
    h1 = h1
    h2 = h2
    d1 = d1
    d2 = d2
    Wrapper = {w1, w2}
    Host = {h1, h2}
    Device = {d1}
    HostOf <- TwoHosts
    None = None
    Pickled = Pickled
    Stale = {"node"}
    Ops = {"crash", "lose"}
    MaxFaults = 1
    MaxNodes = 2
INVARIANTS TypeOK OneAtATime
PROPERTIES MasterEnds PolledAgain
