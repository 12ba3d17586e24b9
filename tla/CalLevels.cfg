SPECIFICATION FairSpec
CONSTANTS
    LateWrites = FALSE
    SMx = {1}
    Mixed = Mixed
    Paths <- MCTwoPaths
    Target = 42
    Deviations <- MCDeviations
    Window = 0
    Protect <- MCProtect
    MaxPow = 80
    ResetPow <- MCResetPow
    Rounds = 2
    Gains = 1
    Readings = 2
    Points = 2
    Runs = 2
INVARIANTS TypeOK BelowLimit SensedAtStored ReadsAlone RowsMatchStatus
PROPERTIES CalibrationReturns
