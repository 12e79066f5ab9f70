\* Two pages that save at the same time.
CONSTANTS
    Savers = {"page", "other"}
    MaxSaves = 2
    MaxVisits = 0
SPECIFICATION Spec
INVARIANT StopLeavesNothing
CHECK_DEADLOCK FALSE
