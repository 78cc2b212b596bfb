SPECIFICATION FairSpec
CONSTANTS
    MaxSession = 2
    MaxLease = 2
    Margin = 0
    ProbeTimeout = 2
    Blocks = 2
    MaxEvents = 1
    MaxTime = 3
    MaxSequence = 2
    MaxCrashes = 1
    None = None
INVARIANTS
    LeaseBounded
    UncertaintyKept
    CompletedIsTrue
PROPERTIES
    
    SourceEnds
CHECK_DEADLOCK FALSE
