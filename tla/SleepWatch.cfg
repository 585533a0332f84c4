SPECIFICATION FairSpec
CONSTANTS
    Unique = {o1, o2}
    NoOwner = NoOwner
    Foreign = Foreign
    FirstDelay = 1
    MaxDelay = 3
    MaxSkip = 2
    MaxEvents = 3
    MaxBreaks = 2
INVARIANTS LogindKnown
PROPERTIES SuspendHeard Recovers
CHECK_DEADLOCK FALSE
