SPECIFICATION Spec
CONSTANTS
    Models <- Plain
    Horizon = 2
    MaxThrows = 0
    MaxRounds = 1
INVARIANT FinalValuesAreCurrent
CHECK_DEADLOCK FALSE
