SPECIFICATION Spec
CONSTANTS
    Instance = {a, b}
    Admin = {x}
    Session = {s, t}
    WorksOn <- WorksOnFirst
    AnyResumes = FALSE
    Odd = {a}
    Typing = {x}
    DieIn = {"install", "rollback"}
    MaxFaults = 1
    a = a
    b = b
    x = x
    s = s
    t = t
INVARIANTS
    TypeOK
    TheirsKept
    RemovedMeansRestored
PROPERTIES
    ServicePutBack
CONSTRAINT MCBounds
SYMMETRY MCSymmetry
