CONSTANTS
    Items = 4
    Strings = {"sdp"}
    MaxText = 9
    MaxChanged = 5
    NestingLimit = 2
    MaxHeld = 2

SPECIFICATION Spec

INVARIANTS
    MemorySound
    ParsedAsWritten

PROPERTIES
    ImplementsItemForest
