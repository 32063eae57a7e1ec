CONSTANTS
    Peers = {p1, p2}
    NoPeer = NoPeer
SPECIFICATION Spec
CHECK_DEADLOCK FALSE
INVARIANT SurvivesFailedPeer
