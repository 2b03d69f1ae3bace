\* Emits of two threads and another process, a kill between two steps, a write that raises.
CONSTANTS
    worker = worker
    client1 = client1
    client2 = client2
    Thread <- WorkerAndClient
    Ready <- WorkerAndClientProcs
    MaxEvents = 5
    MaxKills = 1
    MaxFails = 2
    MaxTorn = 0
    MaxSignals = 0
SPECIFICATION FairSpec
INVARIANT JournalIsReplayable
PROPERTIES
    LogSpec
    EmitsReturn
CHECK_DEADLOCK FALSE
