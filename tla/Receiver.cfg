SPECIFICATION Spec
CONSTANTS
    Bands <- MCBands
    DutPorts <- MCPorts
    Orders <- MCOrders
    Tones <- MCTones
    RxFreqs <- MCRxFreqs
    TxFreqs <- MCTxFreqs
    VcoLevels <- MCVcoLevels
    VcoThreshold = 2
    Leftovers <- MCLeftovers
    Protect <- MCProtect
    ResetPow <- MCResetPow
    Runs = 1
    Orderly = TRUE
    Losses <- MCLosses
    LateWrites = FALSE
    SMx = {1}
    Mixed = Mixed
INVARIANTS TypeOK ReadsWhereAsked OffsetFits SettingsFit RxProtected PassMeansReference
PROPERTY RxEndsSilent
