CONSTANTS
    r1 = r1
    r2 = r2
    Requests = {r1, r2}
    Mine = r1
    PcTimeout = 60
SPECIFICATION EchoSpec
CHECK_DEADLOCK FALSE
INVARIANTS
    OpenIsGuarded
    SuccessIsEndToEnd
PROPERTIES
    Implements
    BothEnd
