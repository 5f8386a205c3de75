SPECIFICATION Spec
CONSTANTS
    Instance = {a, b}
    Behind = {a, b}
    Https = {b}
    Families = {"fedora"}
    Odd = {}
    FoundSites = {"absent"}
    FoundRules <- MCFoundRules
    DieIn = {}
    MaxFaults = 0
    a = a
    b = b
PROPERTIES
    RollbackStopsNobody
CHECK_DEADLOCK FALSE
