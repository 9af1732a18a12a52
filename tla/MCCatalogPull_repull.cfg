CONSTANTS
    conf = conf  a = a  b = b  c = c  empty = empty
    Pulls = {g1}
    Files = {a, b, c}
    NPieces = 2
    PiecesOf <- QuantPiecesOf
    Pos <- QuantPos
    GitOnly = {}
    Worlds <- QuantWorlds
    Earlier = {b}
    Wants <- QuantWants
    MaxTorrents = 1
    MaxHurt = 0
CHECK_DEADLOCK FALSE
SPECIFICATION Spec
PROPERTY VerifyFailureMeansCorrupt
