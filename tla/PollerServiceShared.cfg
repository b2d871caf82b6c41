SPECIFICATION Spec
CONSTANTS
    w1 = w1
    w2 = w2
    h1 = h1
    h2 = h2
    Worker = {w1, w2}
    Device = {d1}
    Host = {h1}
    HostOf <- OneHost
    NoSession = NoSession
    Single = FALSE
    Prompt = FALSE
    PollFreq = 2
    DiscFreq = 3
    DownRetry = 1
    Horizon = 3
    MaxRun = 2
    Ops = {"lose", "down", "pollfail", "discfail"}
    Flaky = {d1}
INVARIANTS NoLockLeft
