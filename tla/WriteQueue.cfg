\* Four writes to two interfaces of different pace, cancelled at any moment.
CONSTANTS
    hmip = hmip
    bidcos = bidcos
    Interfaces = {hmip, bidcos}
    Tasks = {t1, t2, t3, t4}
    Pace <- MCPace
SPECIFICATION FairSpec
INVARIANTS
    OneAtATime
    NeverStuck
PROPERTIES
    PaceKept
    SettledForGood
    EveryWriteSettles
CHECK_DEADLOCK FALSE
