SPECIFICATION Spec
CONSTANTS
    Device = {d1}
    Rule = {r1, r2}
    Extra <- AndInverted
    FixedContacts = FALSE
    Ops = {"ack", "unack", "apiunmute", "rule"}
    Overlap = FALSE
    MaxFaults = 2
    MaxEvents = 4
    MaxIssues = 3
INVARIANTS MaxAlerts
PROPERTIES NoSpuriousRecovery
