CONSTANTS
    Daemons = {d1, d2}
    NoNode = NoNode
SPECIFICATION SocketSpec
CHECK_DEADLOCK FALSE
PROPERTIES
    RemovedOnlyOrphans
