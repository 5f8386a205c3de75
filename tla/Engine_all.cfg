SPECIFICATION FairSpec
CONSTANTS
    N = 3
    root = root
    home = home
    cluster = cluster
    db = db
    Artifact <- MCArtifact
    StepOf <- MCStepOf
    SharedArtifact <- MCShared
    Scope <- MCScope
    Unreadable = {3}
    UndoMay = {"removed", "swallowed", "err"}
    SaveMay = {"ok", "failed", "late", "torn"}
    DieIn = {"install", "save", "rollback"}
    MaxFaults = 2
    OthersMay = {TRUE, FALSE}
INVARIANTS
    TypeOK
    Ownership
    LossBounded
PROPERTIES
    NeverTouchTheirs
    IsReversible
    EveryRunEnds
    InterruptHonoured
CHECK_DEADLOCK FALSE
