SPECIFICATION FairSpec
CONSTANTS
    a = a
    b = b
    Nil = Nil
    Ids = {1, 2, 3, 4, 5}
    CloudNames = {a}
    LocalNames = {b}
    Size <- TheSizes
    UserAt <- Seen
    CloudAt <- NotBeforeStamp
    ReuseNames = FALSE
    Flaky = FALSE
    max_absolute = 3
    max_percent = 60
    fraction_min_total = 1
    MaxWrites = 3
    MaxDeletes = 1
    MaxFaults = 1
    MaxCopies = 2
INVARIANT TypeOK
PROPERTIES CloudDeleteIsUsers EditsSurvive Converges
