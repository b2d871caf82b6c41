SPECIFICATION Spec
CONSTANTS
    Device = {d1}
    Rule = {r1}
    Extra <- Delayed
    FixedContacts = TRUE
    Ops = {"contacts"}
    Overlap = FALSE
    MaxFaults = 1
    MaxEvents = 2
    MaxIssues = 3
INVARIANTS ContactsFixed
