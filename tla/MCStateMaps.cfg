CONSTANTS
    Clients = {g1, g2}
    Maps = {namespaces}
    Keys = {k1, k2}
    Values = {v1}
    None = None
    Corrupt = Corrupt
    MaxCrashes = 2
    MayRot = TRUE
SPECIFICATION FairSpec
CHECK_DEADLOCK FALSE
INVARIANTS
    TypeOK
    NeverCorrupt
PROPERTIES
    ImplementsAtomicMaps
    UpdateReturns
