SPECIFICATION Spec
CONSTANTS
  Files = {"notes"}
  Texts = {"old", "new"}
  TooLong = {}
  InitialText = "old"
  Sessions = {"s1"}
  MaxConnections = 2
  MaxRequests = 2
  MaxUnheard = 2
  MaxTroubles = 1
PROPERTY StaysOpenIfSavingFails
CHECK_DEADLOCK FALSE
