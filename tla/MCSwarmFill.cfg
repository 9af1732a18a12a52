CONSTANTS
    Ops = {g1, g2}
    Single = {mf, s}
    Multi = {m}
    Manifest = mf
    NPieces = 2
    MaxTorrents = 3
    MaxHurt = 1
    DropGivesUp = FALSE
    CfgSeed = TRUE
SYMMETRY OpSymmetry
SPECIFICATION Spec
INVARIANTS
    TypeOK
    FillOkComplete
    SeedOkClean
    CompleteWasHashed
    NoLostWakeup
