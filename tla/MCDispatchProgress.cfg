CONSTANTS
    Files = {f1}
    Copies = {base, work}
    Base = base
    MaxStamp = 1
    NoText = NoText
    NoCopy = NoCopy
    Requests = {r1, r2}
    NoOne = NoOne
    Env = {"outside_worktree", "busy", "write_fails", "server_dies"}
SPECIFICATION FairSpec
PROPERTY EveryCallReturns
