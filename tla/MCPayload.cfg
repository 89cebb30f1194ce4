CONSTANTS
    Payload = payload
    Clients = {c1, c2}
    Null = Null
    Stages = 3
    Budget = 3
    Procs = {main, msf}
    Main = main
    Activities = {a1, a2}
    MaxTries = 3
SPECIFICATION PayloadSpec
INVARIANTS
    HookOnlyAfterFullInit
    HooksInstalledOnce
PROPERTIES
    PayloadFinishes
    SoleActivityGetsBar
    RunnableEnds
