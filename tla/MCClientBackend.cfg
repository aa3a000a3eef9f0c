CONSTANTS
    MaxRetries = 1
    MaxRuns = 3
    MaxDeaths = 2
    Requesters = {"web", "loop"}
    Networks = {"site", "office"}
    MaxOutside = 2
SPECIFICATION FairSpec
INVARIANTS
    DeviceHeard
    LoopRestartDeaf
    HandlerOnce
    DaemonKnows
    ReceiverHears
PROPERTIES
    LoopLetGo
CHECK_DEADLOCK FALSE
