SPECIFICATION Spec
CONSTANTS
    a = a
    b = b
    git = git
    venv = venv
    tiff = tiff
    tiff5 = tiff5
    ldap = ldap
    wk = wk
    Instance = {a, b}
    Nobody = a
    Package = {git, venv, tiff, ldap, wk}
    Virtual = {tiff5}
    Provider <- MCProvider
    Tools <- MCTools
    Libraries <- MCLibraries
    Optional <- MCOptional
    VenvGroup <- MCVenvGroup
    Wkhtmltox = wk
    Releases <- MCReleases
    FoundPackages <- MCFoundPackages
    FoundTrees <- MCFoundTrees
    Attempts = 2
    MaxFaults = 1
CONSTRAINT MCBounds
INVARIANTS
    TypeOK
    FinishedIsWhole
    RemovedMeansRestored
