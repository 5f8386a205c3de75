SPECIFICATION Spec
CONSTANTS
    Unnamed = default
    Named = {a, b}
    None = none
    FoundModes = {"755", "750"}
    Settled = {default}
    LogDirs = {x}
    LogsOf <- MCLogsOf
    DieIn = {"install", "rollback"}
    MaxFaults = 0
    default = default
    a = a
    b = b
    x = x
    y = y
    none = none
INVARIANTS
    InstalledCanWalkIn
CHECK_DEADLOCK FALSE
