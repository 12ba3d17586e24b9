SPECIFICATION Spec
CONSTANTS
    Numbers <- MCNumbers
    Printed <- MCPrinted
    TxGrid <- MCTxGrid
    RxGrid <- MCRxGrid
    Columns = 4
    MaxNum = 2
    TxKeys <- MCTxKeys
    DutPorts <- MCDutPorts
    Freqs <- MCFreqs
    Levels <- MCLevels
    Measured <- MCMeasured
INVARIANTS TypeOK ExactWhereCalibrated BetweenNeighbours FailsOutside
