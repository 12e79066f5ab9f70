\* start() and stop() around two saves of a page that is opened and left twice.
CONSTANTS
    Savers = {"page"}
    MaxSaves = 2
    MaxVisits = 2
SPECIFICATION FairSpec
INVARIANTS
    OnlyTheHeldLives
    StopLeavesNothing
    ConnectionIsTheSavedOne
    AttendedIsSubscribed
PROPERTIES
    UnattendedGoesIdle
CHECK_DEADLOCK FALSE
