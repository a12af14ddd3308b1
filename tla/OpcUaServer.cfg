SPECIFICATION MCSpec
CONSTANTS
  Inputs = {i1}
  States = {s1}
  Values = {v1, v2}
  Scalings = {0, 1}
  nVariablesReal = 1
  nVariablesBoolean = 1
  StopTime = 3
  MaxTime = 3
  MaxRequests = 3
  Requests <- MCRequests
INVARIANTS TypeOK ReadsAreFresh OneStepPerRequest NoWriteLost
PROPERTY RunsToStopTime
CHECK_DEADLOCK FALSE
