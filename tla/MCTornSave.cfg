CONSTANTS
    Ids = {1, 2}
    Dirs = {1, 2}
    AutoDirs = {1}
    DerivedId <- MCDerivedId
    InvalidId = InvalidId
    NoDir = NoDir
    Repos = {"repo"}
    MaxStarts = 2
    Callers = {c1, c2}
    Main = Main
    NoTask = NoTask
    Repo <- MCRepo
    Unsure = Unsure
    Faults = {"torn"}
SPECIFICATION Spec
PROPERTY RestartRestores
SYMMETRY CallerSymmetry
CHECK_DEADLOCK FALSE
