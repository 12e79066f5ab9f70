\* One outage, of which events and polls tell.
CONSTANTS
    Devices = {"LEQ1", "LEQ2"}
    AutoAck = TRUE
    Budgets <- OneOutage
SPECIFICATION Spec
INVARIANT OneOutageCountsOnce
CHECK_DEADLOCK FALSE
