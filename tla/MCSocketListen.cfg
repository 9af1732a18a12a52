CONSTANTS
    Daemons = {d1, d2, d3}
    NoNode = NoNode
SPECIFICATION SocketSpec
CHECK_DEADLOCK FALSE
INVARIANTS
    ServerReachable
PROPERTIES
    UserDataKept
    CrashNeverBlocks
