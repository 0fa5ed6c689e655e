\* MaxNotices < Capacity: a subscriber never lags. The bounded calls run out.
CONSTANTS
    Callers = {c1, c2}
    Reader = Reader
    Nobody = Nobody
    MaxId = 2
    PipeRoom = 1
    Capacity = 2
    MaxNotices = 1
    Faults = {"dies", "garbles"}
SPECIFICATION FairSpec
INVARIANTS TypeOK ChannelsExact EditCaptured
PROPERTY EveryCallReturns
CHECK_DEADLOCK FALSE
