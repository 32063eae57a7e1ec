\* Janus: three events, the answer, a second one and one more.  Kurento: two
\* requests.
CONSTANTS
    MaxEvents = 3
    r1 = r1
    r2 = r2
    Requests = {r1, r2}
SPECIFICATION GatewaySpec
CHECK_DEADLOCK FALSE
INVARIANTS
    NoAnswerLost
    AnswerIsLooped
PROPERTIES
    SessionOutlivesAnswer
    OfferReplied
    SessionReleased
    HeldOnlyByKurento
