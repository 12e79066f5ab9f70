\* Two disturbances in a row, one of them perhaps a moved address, and the
\* subscription comes back.
CONSTANTS
    hmip = hmip
    virtual = virtual
    xmlrpc = xmlrpc
    binrpc = binrpc
    Interfaces = {hmip}
    Protocols = {xmlrpc}
    ProtocolOf <- MCProtocolOf
    FixedPorts = {}
    PingAnswering = {hmip}
    LivenessPinged = {hmip}
    Reachable = {hmip}
    Addresses = {home, away}
    NoAddress = none
    StartWindow = TRUE
    MaxAttempts = 1
    MaxCalls = 0
    MaxDisturbances = 2
SPECIFICATION FairSpec
PROPERTIES
    LostMeansLost
    Resubscribed
    ConnectedIsShown
CHECK_DEADLOCK FALSE
