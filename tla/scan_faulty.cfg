SPECIFICATION Spec
CONSTANTS
    e1 = e1
    e2 = e2
    r1 = r1
    r2 = r2
    Emails = {e1, e2}
    Repos = {r1, r2}
    MaxTag = 2
    MaxId = 2
    MaxEvents = 3
    Faults <- AllButStaleTag
SYMMETRY Symmetry
INVARIANTS
    TypeOK
    NotifiedInReleaseOrder
    RecordKeepsUp
    PendingNeverNotified
    QuietAfterUnsubscribe
PROPERTIES
    RecordedFirst
