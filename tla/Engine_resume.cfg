SPECIFICATION Spec
CONSTANTS
    N = 3
    root = root
    home = home
    cluster = cluster
    db = db
    Artifact <- MCArtifact
    StepOf <- MCStepOf
    SharedArtifact <- MCShared
    Scope <- MCScope
    Unreadable = {3}
    UndoMay = {"removed", "swallowed"}
    SaveMay = {"ok", "late", "torn"}
    DieIn = {"install", "save"}
    MaxFaults = 2
    OthersMay = {FALSE}
INVARIANTS
    ResumeFindsItsWork
    FinishedMeansInstalled
CHECK_DEADLOCK FALSE
