SPECIFICATION Spec
CONSTANTS
    Device = {d1}
    Rule = {r1}
    Extra <- Once
    FixedContacts = FALSE
    Ops = {"ack", "unack", "apiack", "apiunmute", "maintenance", "ignore"}
    Overlap = TRUE
    MaxFaults = 2
    MaxEvents = 3
    MaxIssues = 3
INVARIANTS RecoveryDescribed FaultRemembered
