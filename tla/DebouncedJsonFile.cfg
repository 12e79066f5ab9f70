\* Three values saved, two removals, killed or failing at any step.
CONSTANTS
    MaxCalls = 3
    MaxSaves = 3
    MaxRemoves = 2
SPECIFICATION FairSpec
INVARIANTS
    FlushedIsKept
    FileIsWhole
PROPERTIES
    IsAKeptFile
    EverySaveLands
CHECK_DEADLOCK FALSE
