SPECIFICATION FairSpec
CONSTANTS
    Host <- MCHost
    Output <- MCOutput
    Route <- MCRoute
    Switches <- MCSwitches
    Cleared <- MCCleared
    Closed <- MCClosed
    Selected <- MCSelected
    Attempts = 3
    Noise = Noise
INVARIANTS TypeOK EchoIsOwn AnsweredMeansSet HealsItself OneChannelClosed
PROPERTIES KeepsContract CallReturns
