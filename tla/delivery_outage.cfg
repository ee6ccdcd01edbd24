SPECIFICATION Spec
CONSTANTS
    c1 = c1
    Consumers = {c1}
    MaxEvents = 2
    BufferLimit = 1
    PendingLimit = 2
    Faults <- OutageOnly
INVARIANTS
    OutageLosesNothing
