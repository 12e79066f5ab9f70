\* Two calls after start(), one #init() at a time; the CCU need not answer.
CONSTANTS
    hmip = hmip
    virtual = virtual
    xmlrpc = xmlrpc
    binrpc = binrpc
    Interfaces = {hmip}
    Protocols = {xmlrpc}
    ProtocolOf <- MCProtocolOf
    FixedPorts = {xmlrpc}
    PingAnswering = {hmip}
    LivenessPinged = {hmip}
    Reachable = {hmip}
    Addresses = {home}
    NoAddress = none
    StartWindow = TRUE
    MaxAttempts = 1
    MaxCalls = 2
    MaxDisturbances = 0
SPECIFICATION OwnSpec
PROPERTIES
    MethodsReturn
    ResubscribedByCcu
CHECK_DEADLOCK FALSE
