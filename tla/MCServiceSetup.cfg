CONSTANTS
    MaxSignals = 3
    MaxOutside = 1
    MaxFaults = 2
    MaxRestarts = 1
SPECIFICATION FairSpec
INVARIANTS
    ForceStopHolds
    FailureAnswered
    ConfigWritten
    ConfigInForce
PROPERTIES
    SetupEnds
CHECK_DEADLOCK FALSE
