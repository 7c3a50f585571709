SPECIFICATION Spec
CONSTANTS
  Accounts = {A, B}
  LoggedOut = LoggedOut
  NoScope = NoScope
  Formats = {"current", "next"}
  Minutes = {"m1"}
  Versions <- BothVersions
  QueueCap = 2
  MaxPolls = 2
  MaxSwitches = 1
  MaxStops = 1
  MaxFaults = 0
SYMMETRY AccountSymmetry
INVARIANTS ReceiptsFromVerified CursorSound AppliedAreStaged ProjectionLatest NeverOptimistic AdmittedAttribution
PROPERTIES ResponseOutlivesStop
CHECK_DEADLOCK FALSE
