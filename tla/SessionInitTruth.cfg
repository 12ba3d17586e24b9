SPECIFICATION Spec
CONSTANTS
    Lists <- MCLists
    Idn <- MCIdn
    Reconnects <- MCReconnects
    ExtSensors = {"pm"}
    MaxAddr = 9
    MaxRM = 2
INVARIANTS InitTellsTruth
