SPECIFICATION Spec
CONSTANTS
  A = A
  B = B
  LoggedOut = LoggedOut
  Damaged = Damaged
  Accounts <- MCAccounts
  Labels <- MCLabels
  Legacy <- MCBoth
  Activated <- MCOne
  MaxTime = 3
  MaxLogins = 1
  MaxSetBacks = 0
  MaxFaults = 0
  MaxKills = 0
CHECK_DEADLOCK FALSE
INVARIANT LegacyAdmissible
