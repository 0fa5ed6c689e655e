\* A file of the base checkout is saved by somebody else between two calls.
CONSTANTS
    Files = {f1}
    Copies = {base, work}
    Base = base
    MaxStamp = 1
    NoText = NoText
    NoCopy = NoCopy
    Requests = {r1}
    NoOne = NoOne
    Env = {"outside_base"}
SPECIFICATION Spec
INVARIANT AnswersFromOwnCopy
CHECK_DEADLOCK TRUE
