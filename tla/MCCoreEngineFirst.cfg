CONSTANTS
    Threads = {t1, t2}
    Members = {m1}
    Priorities = {1}
    Null = Null
    MaxEntries = 1
    MaxList = 3
SPECIFICATION EngineSpec
INVARIANTS
    FirstReplaceWins
