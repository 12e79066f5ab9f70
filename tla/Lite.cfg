\* Two interfaces, of which one may be missing, and a client that is replaced
\* while it connects.
CONSTANTS
    Interfaces = {"HmIP-RF", "BidCos-RF"}
    Clients = {1, 2, 3}
    NoClient = 0
    MaxCalls = 2
    MaxFaults = 3
    MaxListings = 2
SPECIFICATION FairSpec
INVARIANTS
    OneStream
    RetriesWhatFailed
    ShownIsTheSystem
PROPERTIES
    ConnectsInTheEnd
CHECK_DEADLOCK FALSE
