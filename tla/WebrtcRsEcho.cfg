\* The client's peer and one more.
CONSTANTS
    p1 = p1
    p2 = p2
    Peers = {p1, p2}
    NoPeer = NoPeer
    Mine = p1
SPECIFICATION EchoSpec
CHECK_DEADLOCK FALSE
INVARIANT SuccessMeansAnswered
PROPERTIES
    ImplementsPeerRegistry
    FailedIsRemoved
    ClientReports
