CONSTANTS
    Threads = {t1, t2}
    Targets = {m1}
    Backups = {b1, b2}
    App = App
    None = None
    MaxRegs = 1
    FollowAll = FALSE
    InitSdks = {22, 23, 24, 26, 28, 31, 34, 37}
    Sdks = {21, 22, 23, 24, 26, 27, 29, 30, 31}
    MaxWords = 4
    Cases <- MCCases
    Slots = {"a", "b"}
    Refs = {11, 12, 13}
    Pins = {21, 22}
    Null = 0
    Length = 1
SPECIFICATION LsplantSpec
SYMMETRY Symmetry
CHECK_DEADLOCK FALSE
INVARIANTS
    HookEffective
    BackupIsOriginal
    UnhookedIsOriginal
    MapsAgree
    InitComplete
    MethodIntact
    CallReachesCallback
    RefsOwnedOnce
