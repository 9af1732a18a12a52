CONSTANTS
    Clis = {c1, c2}
    Ids = {i1, i2}
    Launches = {l1, l2}
    Foreign = {x1}
    Pids = {p1, p2}
    None = None
    MaxStops = 1
    MaxKills = 1
SYMMETRY ServeSymmetry
SPECIFICATION Spec
CHECK_DEADLOCK FALSE
INVARIANTS
    TypeOK
    StopHitsOnlyRuntimes
    RunningKeepsScratch
    RuntimeOwned
    ScratchOwned
