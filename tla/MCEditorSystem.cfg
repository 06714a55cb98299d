SPECIFICATION MCSpec
CONSTANTS
  Files = {"notes", "todo"}
  Second = "todo"
  Texts = {"old", "new", "long"}
  TooLong = {"long"}
  InitialText = "old"
  Sessions = {"s1"}
  MaxConnections = 2
  MaxRequests = 2
  MaxUnheard = 2
  MaxTroubles = 1
  NoContents = NoContents
INVARIANTS EditorTypeOK CleanMeansSaved
PROPERTIES WindowClosesKnowingly EditsSurviveTrouble SavesSettle
CHECK_DEADLOCK FALSE
