CONSTANTS
    Requests = {r1, r2, r3}
    NoRequest = NoRequest
SPECIFICATION FairSpec
CHECK_DEADLOCK FALSE
INVARIANT ReplyMatchesOffer
PROPERTIES
    ImplementsOfferAnswer
    RequestServed
