SPECIFICATION Spec
CONSTANTS
    Providers = {claude, codex}
    Selectable = {claude, codex}
    Requests = {r1}
    Modes = {"disconnect"}
    MaxOps = 2
    MaxGrants = 1
    MaxAttempts = 1
    MaxFaults = 0
PROPERTY DisconnectNeverHangs
CHECK_DEADLOCK FALSE
