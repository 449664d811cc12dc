\* Two uploads of one log
SPECIFICATION Spec
CONSTANTS
    a = a  p1 = p1  p2 = p2
    None = None
    Reports = {a}
    Requests = {p1, p2}
    Logs <- OneLog
    Quotas <- NoLimits
    MaxLines = 1
    Faults = {}
    Overlaps = TRUE
    MaxTime = 0
    MaxMade = 1
INVARIANTS
    StoredHasItsLog
CHECK_DEADLOCK FALSE
