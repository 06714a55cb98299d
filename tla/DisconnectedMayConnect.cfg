SPECIFICATION Spec
CONSTANTS
  NoText = NoText
  NoOutput = NoOutput
  Unset = Unset
  Sessions = {s1}
  Profiles <- MCProfiles
  Auth <- MCAuth
  Proxy <- MCProxy
  Jumps <- MCJumps
  Values = {"right", "wrong"}
  Right = "right"
  Typed <- MCTyped
  Keychains <- MCKeychains
  MaxRequests = 1
INVARIANT DisconnectedMayConnect
CHECK_DEADLOCK FALSE
