CONSTANTS
    Paths = {"p1", "p2", "p3"}
    NoText = NoText
    Cases <- MCCases
    OutsideTexts <- MCOutsideTexts
    MaxOutside = 1
    Faults = {"refused", "torn"}
SPECIFICATION Spec
INVARIANTS TypeOK AppliedIsExact PositionsKeepTheirLine RefusedLeavesTree ReportedIsComplete
