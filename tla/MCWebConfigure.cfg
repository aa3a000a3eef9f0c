CONSTANTS
    w1 = w1
    w2 = w2
    homenet = homenet
    spaced = spaced
    office = office
    Workers <- MCWorkers
    Ssids <- MCSsids
    ReadBack <- MCReadBack
    MaxRequests = 4
SYMMETRY Symmetry
SPECIFICATION Spec
INVARIANTS
    NoStaleFlag
    CompletionFollowsAdd
    AckedStored
PROPERTIES
    NotOutranked
CHECK_DEADLOCK FALSE
