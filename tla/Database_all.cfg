SPECIFICATION Spec
CONSTANTS
    Families = {"debian", "fedora"}
    Depth = 2
    DieIn = {"install", "init", "rollback"}
    AdminMay = {"same", "other"}
    MaxFaults = 2
INVARIANTS
    TypeOK
PROPERTIES
    TheirDatabaseIsSafe
    OtherDatabasesSurvive
    FilestoreIsSafe
    RollbackRestores
    FinishedHasSchema
