SPECIFICATION FairSpec
CONSTANTS
  r1 = r1
  r2 = r2
  v1 = v1
  Requests = {r1, r2}
  Viewers = {v1}
  MaxShares = 1
  MaxTasks = 1
  MinTTL = 1
  DefaultTTL = 1
  MaxTTL = 1
  RefreshWindow = 0
  Grace = 0
  OfflineAfter = 0
  Resets = {FALSE}
  Enables = {TRUE}
  Calls = {"create", "connect", "refresh", "join"}
  Failures = FALSE
PROPERTIES LostAgentIsOffline SettledStaysSettled
\* With no task to run and no request to make the system may stop.
CHECK_DEADLOCK FALSE
