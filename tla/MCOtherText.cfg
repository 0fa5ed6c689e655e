\* A working copy of another commit than the session's checkout.
SPECIFICATION Spec
CONSTANTS
    Spelling <- MCSpelling
    MaxTextChars = 4
    MaxContextLines = 1
    U32Max = 8
    Extension <- MCExtension
    Located = {"jdtls", "rust-analyzer", "tsserver"}
    DefaultLimit = 2
    MaxWalk = 4
    World <- MCWorld
    Spaced <- MCSpaced
    RenameLike <- MCRenameLike
    Sites <- MCSites
    Scripts <- Drifting
    MaxSaves = 1
INVARIANT GuardHolds
CHECK_DEADLOCK FALSE
