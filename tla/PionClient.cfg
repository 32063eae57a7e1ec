CONSTANT MaxChanges = 4
SPECIFICATION FairClientSpec
CHECK_DEADLOCK FALSE
INVARIANTS
    InTimeResultSeen
PROPERTY ClientExits
