SPECIFICATION FairSpec
CONSTANTS
    Freqs = {1, 2}
    Levels = {0, 7}
    Reset <- MCReset
    LateWrites = TRUE
    MaxAnswers = 4
INVARIANTS SuccessMeansSet FreshReading
PROPERTIES GeneratorContract ReadingReturns
