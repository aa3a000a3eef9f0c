CONSTANTS
    loop = loop
    expiry = expiry
    front = front
    Threads <- MCThreads
    FailLimit = 100
    MaxFailures = 99
    MaxCalls = 2
    SplitRestart <- MCWpaSupplicant
    MaxEvents = 1
VIEW MCWpaView
SPECIFICATION Spec
INVARIANTS
    FallbackArmed
    
