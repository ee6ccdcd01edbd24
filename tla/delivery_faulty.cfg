SPECIFICATION FairSpec
CONSTANTS
    c1 = c1
    c2 = c2
    Consumers = {c1, c2}
    MaxEvents = 3
    BufferLimit = 1
    PendingLimit = 2
    Faults <- AllFaults
INVARIANTS
    TypeOK
    MailedInOrder
PROPERTIES
    EveryEventIsPublished
