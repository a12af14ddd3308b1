SPECIFICATION Spec
CONSTANTS
    StepLen = 4
    NumSteps = 3
    Eps = 1
    NumEventLimit = 2
    Scenarios <- MCScenarios
INVARIANTS TypeOK SlotsAgree SolverRestarts StopsInTime
PROPERTIES GridIsKept ChatteringIsReported ImplementsSchedule RunEnds
CHECK_DEADLOCK FALSE
