SPECIFICATION Spec
CONSTANTS
    Process = {p1, p2}
    Instance = {i1, i2}
    Port = {8069, 8072, 8079}
    Listens <- MCListens
    N = 2
    SharedStep = {1}
    ConfStep = 2
    ForceGiven = {TRUE, FALSE}
    RepeatPort = TRUE
    MaxCommands = 4
    MaxFaults = 1
SYMMETRY Symmetry
INVARIANTS
    TypeOK
    OwnedUnlessOvertaken
    PortsDifferUnlessOvertaken
PROPERTIES
    SharedSurvivesTheLive
CHECK_DEADLOCK FALSE
