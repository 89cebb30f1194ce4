SPECIFICATION Spec
CONSTANTS
    PageSize = 4
    Pages = 7
    Functions = {8, 12}
    LastOf <- MCLast
    Points = {8, 9}
    Thumb = {12}
    TextPages = {2, 3}
    LowPages = {0}
    TrampSize = 2
    BranchRange = 7
    Replacements = 100
    Threads = {t1}
    MaxOps = 3
    MaxForeign = 1
INVARIANTS
    CallsSound
    TextMatchesEntries
    RelocatedIntact
    ForeignKept
CHECK_DEADLOCK FALSE
