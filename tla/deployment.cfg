SPECIFICATION FairSpec
CONSTANTS
    Instances = {i1, i2}
    None = none
    MaxInFlight = 1
INVARIANTS TypeOK MigrationIsAtomic LosersFindItDone CutOnlyAtTheEnd
PROPERTIES StartSettles StopsInTheEnd
