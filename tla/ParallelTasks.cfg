SPECIFICATION FairSpec
CONSTANTS
  MaxTasks = 3
  MaxThreads = 2
  MaxReports = 2
  Severities = {"error"}
INVARIANTS
  TypeOK
  ReturnsComplete
  MessagesArrive
PROPERTY
  LaunchEnds
CHECK_DEADLOCK FALSE
