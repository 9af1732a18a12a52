CONSTANTS
    conf = conf  a = a  b = b  c = c  empty = empty
    Pulls = {g1, g2}
    Files = {conf, a, b, empty}
    NPieces = 2
    PiecesOf <- MCPiecesOf
    Pos <- MCPos
    GitOnly = {conf}
    Worlds <- MCWorlds
    Earlier = {b}
    Wants <- MCWants
    MaxTorrents = 2
    MaxHurt = 1
\* A starved pull waits for ever: see SetPriorities.
CHECK_DEADLOCK FALSE
SYMMETRY PullSymmetry
SPECIFICATION Spec
INVARIANTS
    TypeOK
    PullOkClean
    SleeperServable
