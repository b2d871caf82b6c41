SPECIFICATION FairSpec
CONSTANTS
    Device = {d1}
    Rule = {r1}
    Extra <- Once
    FixedContacts = FALSE
    Ops = {"gone", "purge", "silent", "crash", "contacts"}
    Overlap = TRUE
    MaxFaults = 1
    MaxEvents = 3
    MaxIssues = 3
PROPERTIES DeletedDeviceCleared
