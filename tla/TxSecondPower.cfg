SPECIFICATION Spec
CONSTANTS
    ExtBands <- MCBands
    DutPorts <- MCPorts
    Requests <- MCRequests
    ExtOffsets <- MCNoOffset
    RealOffsets <- MCOneOffset
    Deviations <- MCRouteDevs
    Threshold = 2
    Accuracy = 0
    Floor = 33
    MaxPow = 8
    ResetPow <- MCResetPow
    Rounds = 2
    LateWrites = FALSE
    SMx = {}
    Mixed = Mixed
    Disciplined = FALSE
PROPERTIES SecondPowerHonoured
