CONSTANTS
    Files = {f1, f2}
    Copies = {base, work}
    Base = base
    MaxStamp = 1
    NoText = NoText
    NoCopy = NoCopy
    Requests = {r1, r2}
    NoOne = NoOne
    Env = {"outside_worktree"}
SPECIFICATION Spec
INVARIANTS TypeOK GuardInv OpenSetExact IdleServesBase AnswersFromOwnCopy BaseEditsExact OverlayRecorded
PROPERTY ImplementsService
SYMMETRY RequestSymmetry
