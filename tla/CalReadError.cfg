SPECIFICATION Spec
CONSTANTS
    LateWrites = FALSE
    SMx = {1}
    Mixed = Mixed
    Paths <- MCPaths
    Target = 42
    Deviations <- MCDeviations
    Window = 0
    Protect <- MCProtect
    MaxPow = 80
    ResetPow <- MCResetPow
    Rounds = 2
    Gains = 2
    Readings = 2
    Points = 1
    Runs = 1
INVARIANTS SilentAfterReadError
