CONSTANTS
    w1 = w1
    w2 = w2
    Workers <- MCWorkers
    NoOne = NoOne
    Second = 3
    Interval = 5
    Count = 2
    MaxRequests = 3
SPECIFICATION Spec
PROPERTIES
    BlinkLasts
CHECK_DEADLOCK FALSE
