SPECIFICATION BuildSpec
CONSTANTS
    Archs = {}
    Relocated = 536870912
    PageBits = 4
    AdrpBits = 6
    MaxSteps = 8
    FullPacks = {TRUE, FALSE}
    CallerSp = 4096
    Origins <- MCOrigins
    Hooks <- MCHooks
    Programs <- MCPrograms
    Written <- MCWritten
    Instrumented <- MCInstrumented
    AsmAbis = {}
    MaxCalls = 3
    Requests <- MCRequests
    Fillers <- MCFillers
    Isas = {"x64"}
    Origin = 1048576
    HookAt = 2097152
    Stub = 1060864
    ChunkBase = 4194304
    NearBase = 1114112
    MaxRun = 10
    Texts <- JumpTexts
INVARIANTS
    ShortJccAgrees
CHECK_DEADLOCK FALSE
