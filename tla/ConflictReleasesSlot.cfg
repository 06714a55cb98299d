CONSTANTS
  MaxSessions = 1
  MaxTransfers = 1
  MaxConnections = 1
  Limits = {1}
  MaxAttempts = 2
  EventCapacity = 2
SPECIFICATION FairSystemSpec
PROPERTIES ConflictReleasesSlot
CHECK_DEADLOCK FALSE
