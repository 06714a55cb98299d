SPECIFICATION Spec
CONSTANTS
  Steps = 2
  Keys = {"k1"}
  Sizes = {"default", "wide"}
  DefaultSize = "default"
  KnownHosts = {{}}
  EventCapacity = 2
  MaxReads = 1
  MaxActs = 3
INVARIANTS TerminalTypeOK OnlyApprovedKeysLearned ClosedInOrder TypedInOrder
PROPERTIES SizesSettle EndReachesWindow
CHECK_DEADLOCK FALSE
