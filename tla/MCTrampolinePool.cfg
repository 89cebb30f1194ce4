CONSTANTS
    Threads = {t1, t2}
    PageNumbers = {1, 3, 5}
    SlotsPerPage = 2
    CountRange = 8
    MaxCalls = 7
SPECIFICATION Spec
INVARIANTS
    SlotsDistinct
    CarryNeedsFailures
PROPERTIES
    CallsReturn
