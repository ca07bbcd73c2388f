SPECIFICATION Spec
CONSTANTS
    Goroutines = {g1, g2}
    Subjects = {ana, ben, cam}
    Analysts = {ana, ben}
    Interval = 2
    Burst = 2
    IdleTTL = 6
    MaxPrincipals = 1
    MaxDelay = 1
    MaxTime = 8
    MaxEvictions = 1
INVARIANTS
    BucketsAreBounded
    AdmittedWithinBudget
    IdleBucketsAreFull
CHECK_DEADLOCK FALSE
