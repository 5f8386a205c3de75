SPECIFICATION Spec
CONSTANTS
    Instance = {a, b}
    Behind = {a, b}
    Https = {b}
    Families = {"debian", "fedora"}
    Odd = {a}
    FoundSites = {"absent", "link", "file", "other"}
    FoundRules <- MCFoundRules
    DieIn = {"install", "rollback"}
    MaxFaults = 1
    a = a
    b = b
INVARIANTS
    TypeOK
    CustomerConfigKept
    RemovedMeansRestored
PROPERTIES
    RollbackCutsNobodyOff
CONSTRAINT MCBounds
