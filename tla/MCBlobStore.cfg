CONSTANTS
    w1 = w1  w2 = w2
    d1 = d1  d2 = d2
    c1 = c1  c2 = c2  cx = cx
    x1 = x1  x2 = x2
    Writers = {w1, w2}
    Digests = {d1, d2}
    Targets <- MixedTargets
    Prefixes = {x1}
    PrefixOf <- OnePrefix
    OldDirs = {x1}
    Contents = {c1, c2, cx}
    Hash <- MCHash
    Torn = cx
    Parts = {p1, p2}
    None = None
    IOFaults = TRUE
    MaxCrashes = 1
    MaxRots = 1
SYMMETRY PartSymmetry
SPECIFICATION Spec
CHECK_DEADLOCK FALSE
INVARIANTS
    TypeOK
    BlobsVerified
    NoLeakedPart
    AckedPresent
PROPERTIES
    ImplementsAtomicBlobs
