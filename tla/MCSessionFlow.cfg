SPECIFICATION Spec
CONSTANTS
  NoText = NoText
  NoOutput = NoOutput
  Unset = Unset
  Sessions = {s1, s2}
  Profiles <- MCProfiles
  Auth <- MCAuth
  Proxy <- MCProxy
  Jumps <- MCJumps
  Values = {"right", "wrong"}
  Right = "right"
  Typed <- MCTyped
  Keychains <- MCKeychains
  MaxRequests = 3
INVARIANTS FlowTypeOK SecretsGoWhereTheyBelong OnlyConsentedCommandRuns PromptIsCurrent NoSecretOutlivesConnection
PROPERTIES OnlyAcceptedSecretsSaved OneConnectionPerSession
SYMMETRY Symmetry
CHECK_DEADLOCK FALSE
