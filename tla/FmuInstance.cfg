SPECIFICATION Spec
CONSTANTS
    Models <- MCModels
    Horizon = 5
    MaxThrows = 2
    MaxRounds = 1
INVARIANTS TypeOK DerivativesAreCurrent SamplesOnTime StepEndsAtPoint
PROPERTIES StepsReturn
CHECK_DEADLOCK FALSE
