\* A page with two requests, whose socket may be lost twice.
CONSTANTS
    Pages = {"page"}
    MaxSockets = 2
    MaxRequests = 2
SPECIFICATION FairSpec
INVARIANTS
    EventBeforeAnswer
    NoneWaitsOnALostSocket
PROPERTIES
    TheDeadAreNotCounted
    StaysConnected
CHECK_DEADLOCK FALSE
