SPECIFICATION BuildSpec
CONSTANTS
    Archs = {"arm64", "arm", "thumb"}
    Relocated = 536870912
    PageBits = 4
    AdrpBits = 6
    MaxSteps = 8
    FullPacks = {TRUE, FALSE}
    CallerSp = 4096
    Origins <- MCOrigins
    Hooks <- MCHooks
    Programs <- MCPrograms
    Written <- MCWritten
    Instrumented <- MCInstrumented
    AsmAbis = {"arm64", "arm"}
    MaxCalls = 3
    Requests <- MCRequests
    Fillers <- MCFillers
    Isas = {"x64", "ia32"}
    Origin = 1048576
    HookAt = 2097152
    Stub = 1060864
    ChunkBase = 4194304
    NearBase = 1114112
    MaxRun = 10
    Texts <- MCTexts
INVARIANTS
    RelocatedAgrees
    TrampolineReaches
    BridgeTransparent
    WordsMeanCalls
    X86RelocatedAgrees
CHECK_DEADLOCK FALSE
