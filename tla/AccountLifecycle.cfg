SPECIFICATION Spec
CONSTANTS
    Providers = {claude}
    Selectable = {claude, other}
    Requests = {r1, r2}
    Modes = {"connect", "disconnect", "reconnect"}
    MaxOps = 3
    MaxGrants = 3
    MaxAttempts = 2
    MaxFaults = 2
INVARIANTS TypeOK GrantsAreKept ConnectedIsLive OneOperationPerRequest
PROPERTIES DisconnectNeverHangs
CHECK_DEADLOCK FALSE
