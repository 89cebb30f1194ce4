CONSTANTS
    Procs = {p1, p2}
    NameSuffixes = {"", ":tool"}
    Versions = {1, 2, 3}
    HeadOf <- Heads
    Blocks = 2
    Inodes = {11, 12, 13, 14, 15, 16, 17}
    Hole = Hole
    None = None
    MaxSpawns = 2
    Switches = {enabled, qfun}
    Targets = {qq}
    MaxSaves = 2
    MaxPages = 2
SPECIFICATION FilesSpec
CHECK_DEADLOCK FALSE
INVARIANTS
    LoadsWholeUnlessShared
    SwitchesReadBack
    SavedIsOnDisk
PROPERTIES
    StagedStays
    UntouchedKept
