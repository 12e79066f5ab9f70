\* Devices that are paired and removed, or a device that goes away, with restarts.
CONSTANTS
    Devices = {"LEQ1", "LEQ2"}
    AutoAck = TRUE
    Budgets <- MCBudgets
SPECIFICATION FairSpec
INVARIANTS
    ListIsTheInterface
    EveryOutageCounts
PROPERTIES
    MessagesSettle
CHECK_DEADLOCK FALSE
