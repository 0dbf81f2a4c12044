SPECIFICATION Spec
CONSTANTS
    root = root
    dir = dir
    f1 = f1
    n1 = n1
    n2 = n2
    n3 = n3
    a = a
    b = b
    c = c
    x = x
    y = y
    None = None
    Ids <- TheIds
    Values <- TheValues
    Start <- TheDrive
    Writes <- EditWrites
    Strangers <- Nobody
    MaxRequests = 3
    MaxFaults = 0
    MaxForeign = 0
PROPERTY AppliedTakesEffect
CHECK_DEADLOCK FALSE
