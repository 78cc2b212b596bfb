SPECIFICATION FairSpec
CONSTANTS
    s1 = s1
    s2 = s2
    m1 = m1
    Schedules = {s1}
    Manual = {m1}
    MaxTime = 2
    MaxSets = 1
    MaxRuntimes = 2
    MaxPolicies = 1
    MaxRuns = 2
    Every = 1
    Valid = 4
    Allowance = 1
    MaxActive = 2
    MaxLaunches = 1
 
PROPERTIES InFlightEnds
CHECK_DEADLOCK FALSE
