SPECIFICATION FairSpec
CONSTANTS
    root = root
    dir = dir
    f1 = f1
    n1 = n1
    n2 = n2
    n3 = n3
    a = a
    b = b
    c = c
    x = x
    y = y
    None = None
    Ids <- TheIds
    Values <- TheValues
    Start <- TheDrive
    Writes <- SomeWrites
    Strangers <- StrangerWrites
    MaxRequests = 2
    MaxFaults = 2
    MaxForeign = 1
INVARIANT TypeOK
PROPERTIES SettledIsFinal NoBlindOverwrite CreateRetrySucceeds WritesSettle
CHECK_DEADLOCK FALSE
