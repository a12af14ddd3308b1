SPECIFICATION Spec
CONSTANTS
    StepLen = 4
    NumSteps = 3
    Eps = 1
    NumEventLimit = 2
    Scenarios <- Unheld
PROPERTIES TimeGoesOn
CHECK_DEADLOCK FALSE
