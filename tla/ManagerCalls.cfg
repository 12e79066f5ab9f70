\* One interface, every order of two calls after start() and two #init() of it
\* at once; the process may be down and the fixed port taken.
CONSTANTS
    hmip = hmip
    virtual = virtual
    xmlrpc = xmlrpc
    binrpc = binrpc
    Interfaces = {hmip}
    Protocols = {xmlrpc}
    ProtocolOf <- MCProtocolOf
    FixedPorts = {xmlrpc}
    PingAnswering = {hmip}
    LivenessPinged = {hmip}
    Reachable = {hmip}
    Addresses = {home}
    NoAddress = none
    StartWindow = TRUE
    MaxAttempts = 2
    MaxCalls = 2
    MaxDisturbances = 0
SPECIFICATION Spec
INVARIANTS
    TypeOK
    StoppedIsQuiet
    IdleIsQuiet
    WaitingIsRetried
PROPERTIES
    NoInitAfterStop
    InitNamesOpenPort
CHECK_DEADLOCK FALSE
