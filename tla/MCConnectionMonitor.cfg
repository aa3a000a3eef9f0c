CONSTANTS
    c1 = c1
    c2 = c2
    loop = loop
    main = main
    Checkers <- MCCheckers
    Callers <- MCCallers
    FailLimit = 2
    MaxFailures = 2
    MaxCalls = 4
SPECIFICATION FairSpec
INVARIANTS
    StoppedStays
    MonitorLives
    LimitNoticed
    RestoreJustified
PROPERTIES
    OutageRestored
