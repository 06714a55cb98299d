CONSTANTS
  MaxSessions = 1
  MaxTransfers = 1
  MaxConnections = 1
  Limits = {1, 2}
  MaxAttempts = 2
  EventCapacity = 1
SPECIFICATION FairSystemSpec
PROPERTIES RunningSettles LostConnectionFreesSlots FileWorkersEnd
CHECK_DEADLOCK FALSE
