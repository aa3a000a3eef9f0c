CONSTANTS
    loop = loop
    expiry = expiry
    front = front
    Threads <- MCThreads
    FailLimit = 5
    MaxFailures = 5
    MaxCalls = 1
    SplitRestart <- MCNetworkManager
    MaxEvents = 1
SPECIFICATION Spec
INVARIANTS
    LostConnectionFallsBack
