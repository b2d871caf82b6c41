SPECIFICATION FairSpec
CONSTANTS
    Device = {d1}
    Rule = {r1}
    Extra <- Once
    FixedContacts = FALSE
    Ops = {}
    Overlap = TRUE
    MaxFaults = 1
    MaxEvents = 2
    MaxIssues = 3
PROPERTY FaultAnnounced
