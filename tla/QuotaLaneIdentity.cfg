SPECIFICATION Spec
CONSTANTS
  Accounts = {A, B}
  LoggedOut = LoggedOut
  NoScope = NoScope
  Formats = {"current", "next"}
  Minutes = {"m1"}
  Versions <- OneVersion
  QueueCap = 2
  MaxPolls = 1
  MaxSwitches = 2
  MaxStops = 0
  MaxFaults = 0
INVARIANTS IdentityNeverChanged
CHECK_DEADLOCK FALSE
