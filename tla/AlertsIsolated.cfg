SPECIFICATION FairSpec
CONSTANTS
    Device = {d1}
    Rule = {r1}
    Extra <- TwiceSpaced
    FixedContacts = FALSE
    Ops = {"ack", "apiack", "maintenance"}
    Overlap = FALSE
    MaxFaults = 2
    MaxEvents = 4
    MaxIssues = 3
INVARIANTS TypeOK ClosedMeansNotified MaxAlerts
PROPERTIES NoSpuriousRecovery FaultAnnounced RecoveryAnnounced
