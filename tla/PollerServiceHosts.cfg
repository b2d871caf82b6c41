SPECIFICATION FairSpec
CONSTANTS
    w1 = w1
    w2 = w2
    h1 = h1
    h2 = h2
    Worker = {w1, w2}
    Device = {d1, d2, d3}
    Host = {h1, h2}
    HostOf <- TwoHosts
    NoSession = NoSession
    Single = TRUE
    Prompt = TRUE
    PollFreq = 4
    DiscFreq = 4
    DownRetry = 2
    Horizon = 4
    MaxRun = 1
    Ops = {"down", "pollfail", "discfail"}
    Flaky = {d1, d2}
INVARIANTS TypeOK OneAtATime OneInQueue NoLockLeft
PROPERTY PolledAgain
