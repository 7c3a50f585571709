SPECIFICATION FairSpec
CONSTANTS
  A = A
  B = B
  LoggedOut = LoggedOut
  Damaged = Damaged
  Accounts <- MCAccounts
  Labels <- MCLabels
  Legacy <- MCOne
  Activated <- MCNobody
  MaxTime = 3
  MaxLogins = 2
  MaxSetBacks = 1
  MaxFaults = 1
  MaxKills = 1
CHECK_DEADLOCK FALSE
INVARIANTS CandidateValid
PROPERTIES OwnershipBegins EpochsPermanent EndsFinal EventuallyOwned EventuallyReleased
