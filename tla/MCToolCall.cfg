SPECIFICATION Spec
CONSTANTS
    Spelling <- MCSpelling
    MaxTextChars = 4
    MaxContextLines = 1
    U32Max = 8
    Extension <- MCExtension
    Located = {"jdtls", "rust-analyzer", "tsserver"}
    DefaultLimit = 2
    MaxWalk = 4
    World <- MCWorld
    Spaced <- MCSpaced
    RenameLike <- MCRenameLike
    Sites <- MCSites
    Scripts <- MCScripts
    MaxSaves = 1
INVARIANTS
    TypeOK
    
    MergedIsHonest
    AnsweredByOwner
    HandleReturnsToIssuer
    StatusSeesEdits
    HostPathLeadsBack
    SchemaIsHonoured
    ActionIsTheOneMeant
    SignatureKeepsTheRest
PROPERTIES
    EditsLandAsAsked
    ActsOnExpected
    PreviewForetells
    MoveRelocates
CHECK_DEADLOCK FALSE
