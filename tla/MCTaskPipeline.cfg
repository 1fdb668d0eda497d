CONSTANTS
    ImplementTries = 2
    FixAttempts = 1
    VerdictTries = 2
    FixRounds = 2
    MaxRuns = 2
SPECIFICATION FairSpec
INVARIANTS TypeOK DoneIsVetted
PROPERTIES CommitsAreGreen ReviewRowsUnique RunEnds
