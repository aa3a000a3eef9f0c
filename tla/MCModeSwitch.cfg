CONSTANTS
    loop = loop
    timer = timer
    Threads <- MCThreads
    FailLimit = 2
    MaxFailures = 3
    SplitRestart <- MCSplitRestart
SPECIFICATION SwitchSpec
INVARIANTS
    SwitchTypeOK
    LimitNoticed
    SwitchExclusive
PROPERTIES
    BothOnOnlyTainted
    KeepsPromise
