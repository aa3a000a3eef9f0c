CONSTANTS
    MaxRetries = 2
SPECIFICATION FairSpec
INVARIANTS
    EventsReach
    PortalWhole
    PortalRemoved
PROPERTIES
    RebootSettles
    StartUpEnds
    StopsWhenAsked
