SPECIFICATION FairSpec
CONSTANTS
    e1 = e1
    e2 = e2
    r1 = r1
    Emails = {e1, e2}
    Repos = {r1}
    MaxTag = 2
    MaxId = 2
    MaxEvents = 3
    Faults <- NoFaults
INVARIANTS
    LastSeenIsLastTold
PROPERTIES
    RefinesLedger
    LastReleaseIsTold
