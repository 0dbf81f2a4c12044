SPECIFICATION Spec
CONSTANTS
    Jobs = {j1, j2}
    Keys = {k1, k2}
    NoKey = NoKey
    Workers = {w1, w2}
    MaxTries = 2
    MaxFaults = 2
INVARIANT TypeOK
PROPERTIES LateResultIsDropped JobsEnd
