SPECIFICATION Spec
CONSTANTS
    e1 = e1
    r1 = r1
    r2 = r2
    h1 = h1
    h2 = h2
    Emails = {e1}
    Repos = {r1, r2}
    Handlers = {h1, h2}
    MaxTag = 1
    MaxId = 3
    Faults <- AllFaults
SYMMETRY Symmetry
INVARIANTS
    TypeOK
    UniqueSubscription
PROPERTIES
    InvitedLeavesOnlyByUnsubscribe
    RefinesLifecycle
