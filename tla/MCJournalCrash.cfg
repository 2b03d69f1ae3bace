\* Kills and failures in the middle of a write, a signal, and a client that opens the journal late.
CONSTANTS
    worker = worker
    client1 = client1
    client2 = client2
    Thread <- WorkerAndClient
    Ready = {worker}
    MaxEvents = 5
    MaxKills = 2
    MaxFails = 1
    MaxTorn = 2
    MaxSignals = 1
SPECIFICATION Spec
INVARIANTS
    StatusNotAhead
    StatusIsCurrent
CHECK_DEADLOCK FALSE
