\* Text edits of two files; the file system refuses a write.
CONSTANTS
    Paths = {"p1", "p2", "p3"}
    NoText = NoText
    Cases <- TwoFileCases
    OutsideTexts <- MCOutsideTexts
    MaxOutside = 0
    Faults = {"refused"}
SPECIFICATION Spec
INVARIANT NeverHalf
