SPECIFICATION AttendedSpec
CONSTANTS
  r1 = r1
  r2 = r2
  v1 = v1
  Requests = {r1}
  Viewers = {v1}
  MaxShares = 1
  MaxTasks = 1
  MinTTL = 1
  DefaultTTL = 2
  MaxTTL = 2
  RefreshWindow = 1
  Grace = 1
  OfflineAfter = 1
  Resets = {FALSE}
  Enables = {TRUE}
  Calls = {"create", "connect", "refresh", "join"}
  Failures = FALSE
PROPERTIES StreamsAreWatched
\* With no task to run and no request to make the system may stop.
CHECK_DEADLOCK FALSE
