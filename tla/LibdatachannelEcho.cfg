\* The client's request and one more.
CONSTANTS
    r1 = r1
    r2 = r2
    Requests = {r1, r2}
    Mine = r1
SPECIFICATION FairSpec
INVARIANTS
    Lifetimes
    SuccessIsEndToEnd
PROPERTIES
    Implements
    BothEnd
CHECK_DEADLOCK FALSE
