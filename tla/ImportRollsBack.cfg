CONSTANTS
  inner = inner
  outer = outer
  typed = typed
  home = home
  away = away
  helper = helper
  None = None
  Invalid = Invalid
  Ids = {inner, outer, typed}
  Hosts = {inner, outer}
  Logins = {home, away}
  Commands = {helper}
  InitialLists <- MCInitialLists
  Forms <- MCForms
  Configs <- MCConfigs
  MaxJobs = 1
  MaxActs = 3
  MaxFailures = 1
SPECIFICATION Spec
INVARIANT ImportRollsBack
CHECK_DEADLOCK FALSE
