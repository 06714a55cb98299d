CONSTANTS
  MaxSessions = 1
  MaxTransfers = 1
  MaxConnections = 2
  Limits = {1}
  MaxAttempts = 2
  EventCapacity = 1
  NoPath = NoPath
SPECIFICATION SystemSpec
VIEW SystemView
INVARIANTS SystemTypeOK RunningIsCarried OneWorkingAttempt OverwriteAnswersConflict
CHECK_DEADLOCK FALSE
