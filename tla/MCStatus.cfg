\* Statuses of projects whose working copies git and jj report in their ways.
SPECIFICATION Spec
CONSTANTS
    Spelling <- MCSpelling
    MaxTextChars = 4
    MaxContextLines = 1
    U32Max = 8
    Extension <- MCExtension
    Located = {"jdtls", "rust-analyzer", "tsserver"}
    DefaultLimit = 2
    MaxWalk = 4
    World <- MCWorld
    Spaced <- MCSpaced
    RenameLike <- MCRenameLike
    Sites <- MCSites
    Scripts <- MCScripts
    MaxSaves = 1
INVARIANT CleanMeansClean
CHECK_DEADLOCK FALSE
