CONSTANTS
    a1 = a1  a2 = a2  a3 = a3
    q1 = q1  q2 = q2
    f1 = f1  f2 = f2  shared = shared
    Jobs = {j1, j2}
    Names = {n1}
    Artifacts = {a1, a2, a3}
    Quants = {q1, q2}
    QuantOf <- MCQuantOf
    FileIds = {f1, f2, shared}
    FilesOf <- MCFilesOf
    None = None
    MaxImports = 3
    MaxLosses = 1
SYMMETRY JobSymmetry
SPECIFICATION Spec
CHECK_DEADLOCK FALSE
INVARIANTS
    TypeOK
    LinkedComplete
    PublishedComplete
    IndexStored
    ReportedPublished
PROPERTIES
    MembersKept
