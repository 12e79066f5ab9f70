CONSTANTS
    a = a
    b = b
    Calls = {a, b}
    Requests <- MCRequests
    Channels = {"one", "two", "odd"}
    Identity <- MCIdentity
    Description <- MCDescription
    Stored <- MCStored
    Line = "BidCos-RF"
    Gap = 1
    ForeignWrites <- MCForeignWrites
    MaxForeign = 1
    MaxCancels = 1
SPECIFICATION FairSpec
INVARIANTS
    SentWasShown
    RepairedIsValid
PROPERTIES
    OkIsTrue
    EveryCallReturns
CHECK_DEADLOCK FALSE
