CONSTANTS
    Threads = {t1, t2}
    Members = {m1}
    Priorities = {1, 2}
    Null = Null
    MaxEntries = 3
    MaxList = 4
SPECIFICATION EngineSpec
INVARIANTS
    RegistryMatchesNative
    SnapshotOrdered
    NoMissedCallback
    StableHookSafe
    UnhookTakesEffect
    OriginalAtMostOnce
    CallbacksPaired
    OriginalExceptionKept
