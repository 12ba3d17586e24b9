SPECIFICATION Spec
CONSTANTS
    ExtBands <- MCBand
    DutPorts <- MCPorts
    Requests <- MCRequests
    ExtOffsets <- MCNoOffset
    RealOffsets <- MCOneOffset
    Deviations <- MCLevelDevs
    Threshold = 2
    Accuracy = 0
    Floor = 33
    MaxPow = 8
    ResetPow <- MCResetPow
    Rounds = 4
    LateWrites = TRUE
    SMx = {1}
    Mixed = Mixed
    Disciplined = TRUE
INVARIANTS CorrectionBound DriveBound FaultConfirmed
PROPERTY NoHotPathMove
