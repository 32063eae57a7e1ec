CONSTANT Peers = {p1, p2, p3}
SPECIFICATION FairAiortcSpec
CHECK_DEADLOCK FALSE
INVARIANTS
    DroppedIsClosed
PROPERTIES
    RegistryUntilShutdown
    FailedIsReleased
