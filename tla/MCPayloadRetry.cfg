CONSTANTS
    Payload = payload
    Clients = {}
    Null = Null
    Stages = 1
    Budget = 3
    Procs = {main}
    Main = main
    Activities = {}
    MaxTries = 1
SPECIFICATION PayloadSpec
INVARIANTS
    RetrySeesLibart
