CONSTANTS
  MaxSessions = 2
  MaxTransfers = 1
  MaxConnections = 1
  Limits = {1, 2}
SPECIFICATION Spec
VIEW QueueView
INVARIANTS TypeOK QueueConsistent
PROPERTIES ActiveNeverGrowsPastLimit SettledForGood SlotsRefilled KeepsPromise
CHECK_DEADLOCK FALSE
