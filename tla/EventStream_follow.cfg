SPECIFICATION FairStreamSpec
CONSTANTS
    NoEvent = NoEvent
    Worker = Worker
    q1 = q1
    q2 = q2
    Requesters <- TwoRequests
    WorkEvents = 5
INVARIANTS
    SentIsAPrefix
PROPERTIES
    StreamCloses
CHECK_DEADLOCK FALSE
