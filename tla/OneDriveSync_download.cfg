SPECIFICATION FairSpec
CONSTANTS
    a = a
    b = b
    Nil = Nil
    Ids = {1, 2, 3, 4, 5}
    CloudNames = {a}
    LocalNames = {b}
    Size <- TheSizes
    UserAt <- Idle
    CloudAt <- Idle
    ReuseNames = FALSE
    Flaky = TRUE
    max_absolute = 2
    max_percent = 100
    fraction_min_total = 10
    MaxWrites = 2
    MaxDeletes = 0
    MaxFaults = 1
    MaxCopies = 2
PROPERTY EditsSurvive
