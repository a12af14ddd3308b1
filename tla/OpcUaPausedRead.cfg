SPECIFICATION MCSpec
CONSTANTS
  Inputs = {i1}
  States = {s1}
  Values = {v1}
  Scalings = {0}
  nVariablesReal = 1
  nVariablesBoolean = 1
  StopTime = 3
  MaxTime = 3
  MaxRequests = 4
  Requests <- PausedReadRequests
PROPERTY RunIsObeyed
CHECK_DEADLOCK FALSE
