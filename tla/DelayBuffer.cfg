SPECIFICATION Spec
CONSTANTS
    Zero = calloced
    calloced = calloced
    Current = Current
    BufferSize = 2
    StartTimes <- MCStartTimes
    Delays <- MCDelays
    StepSizes <- MCStepSizes
    MaxRows = 8
INVARIANTS TypeOK RingIsSuffix AnswersAreRight OldRowsGo
CHECK_DEADLOCK FALSE
