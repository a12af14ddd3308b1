SPECIFICATION Spec
CONSTANTS
    Eps = 1
    Horizon = 20
    MaxEvents = 0
    Models <- Shifted
INVARIANTS FirstTickIsShifted
CHECK_DEADLOCK FALSE
