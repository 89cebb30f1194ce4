CONSTANTS
    Threads = {t1, t2}
    Members = {m1}
    Priorities = {1}
    Null = Null
    MaxEntries = 2
    MaxList = 1
SPECIFICATION EngineSpec
INVARIANTS
    BackupNeverCalledAfterUnhook
