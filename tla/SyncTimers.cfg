SPECIFICATION Spec
CONSTANTS
    Eps = 1
    Horizon = 31
    MaxEvents = 2
    Models <- MCModels
INVARIANTS TypeOK NoTimerPassed HoldEventsAreSeen
PROPERTIES ImplementsClocks ClocksGoOn
CHECK_DEADLOCK FALSE
