SPECIFICATION FairSpec
CONSTANTS
    root = root
    cluster = cluster
    home2 = home2
    home3 = home3
    own1 = own1
    own2 = own2
    own3 = own3
    M = 3
    StepName <- MCStepName
    Artifact <- MCArtifact
    SharedArtifact <- MCShared
    OwnArtifact <- MCOwn
    Inside <- MCInside
    Scope <- MCScope
    Known = {"opt_root", "postgres", "own"}
    Readable = {"opt_root", "postgres", "own", "future"}
    UndoMay <- MCUndoMay
    SaveMay = {"ok", "failed", "torn"}
    TornMay = {{}, {3}}
    NoConfigMay = {{}, {1}}
    Installed <- MCAny
    MaxFaults = 2
    Commands = {"one", "all"}
INVARIANTS
    TypeOK
    NothingForgotten
PROPERTIES
    SharedOutlivesInstances
    AllRemovesEverything
    RollbackEnds
CHECK_DEADLOCK FALSE
