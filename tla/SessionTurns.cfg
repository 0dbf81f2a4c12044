SPECIFICATION Spec
CONSTANTS
    Hosts = {h1, h2}
    NoLease = NoLease
    Nobody = Nobody
    TTL = 2
    Margin = 0
    Safety = 1
    Renewal = 1
    Retention = 1
    Budget = 1
    MaxSteps = 2
    MaxClock = 5
    MaxGen = 6
    MaxTasks = 3
    MaxFaults = 1
SYMMETRY HostSymmetry
INVARIANTS TypeOK StepsCalledOnce OneTerminalAnswer GuardIsCurrent ReachedIsKept
PROPERTIES TombstoneStays LeaseEndsFairly FinalTextIsKnown
CHECK_DEADLOCK FALSE
