CONSTANTS
    Requests = {r1, r2}
    NoRequest = NoRequest
    Kinds = {"options", "empty", "badJson", "pcError", "noSdp", "badSdp", "badRemote", "badLocal", "good"}
SPECIFICATION FairSpec
CHECK_DEADLOCK FALSE
INVARIANTS
    NoLostWakeup
    NoDanglingWithoutTimeout
    ReadAfterComplete
    GoodOfferAnswered
    ShutdownReleasesAll
PROPERTIES
    ImplementsOfferAnswer
    RequestReplied
    InterruptEnds
