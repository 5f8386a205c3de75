SPECIFICATION Spec
CONSTANTS
    Unnamed = default
    Named = {a, b}
    None = none
    FoundModes = {"755", "750", "751"}
    Settled = {default}
    LogDirs = {x}
    LogsOf <- MCLogsOf
    DieIn = {"install", "rollback"}
    MaxFaults = 1
    default = default
    a = a
    b = b
    x = x
    y = y
    none = none
INVARIANTS
    TypeOK
    TheirsStay
    LeftoversAreRecorded
    RemovedMeansRestored
PROPERTIES
    RollbackShutsNobodyOut
SYMMETRY MCSymmetry
CONSTRAINT MCFewAfterFault
