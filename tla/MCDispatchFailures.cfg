\* One caller, whose overlays and restores of two files may fail half way.
CONSTANTS
    Files = {f1, f2}
    Copies = {base, work}
    Base = base
    MaxStamp = 1
    NoText = NoText
    NoCopy = NoCopy
    Requests = {r1}
    NoOne = NoOne
    Env = {"outside_worktree", "busy", "write_fails", "server_dies", "rename", "absolute"}
SPECIFICATION Spec
INVARIANTS OpenSetExact OverlayRecorded
CHECK_DEADLOCK TRUE
