SPECIFICATION FairSpec
CONSTANTS
    scan = scan
    sub = sub
    Clients <- MCClients
    Scanner = scan
    MaxTag = 1
    TTL = 2
    Delay = 1
INVARIANTS
    TypeOK
    AnswersAreRecent
PROPERTIES
    ScannerSettles
