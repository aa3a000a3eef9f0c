CONSTANTS
    loop = loop
    expiry = expiry
    front = front
    Threads <- MCThreads
    FailLimit = 2
    MaxFailures = 2
    MaxCalls = 1
    SplitRestart <- MCNetworkManager
    MaxEvents = 1
VIEW MCView
SPECIFICATION Spec
INVARIANTS
    TypeOK
    FallbackArmed
    
    ConnectedWatched
