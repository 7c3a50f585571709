SPECIFICATION FairSpec
CONSTANTS
  Accounts = {A, B}
  LoggedOut = LoggedOut
  NoScope = NoScope
  Formats = {"current", "next"}
  Minutes = {"m1"}
  Versions <- BothVersions
  QueueCap = 1
  MaxPolls = 1
  MaxSwitches = 1
  MaxStops = 1
  MaxFaults = 1
INVARIANTS TypeOK
PROPERTIES VisibleChangesAdvance VerifiedIsApplied HealthSettles
CHECK_DEADLOCK FALSE
