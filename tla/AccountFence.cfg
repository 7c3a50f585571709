SPECIFICATION FairSpec
CONSTANTS
  Accounts = {A, B}
  LoggedOut = LoggedOut
  Signallers = {quota, threads}
  Committers = {main, inactive}
  NoWriter = NoWriter
  MaxLogins = 2
INVARIANTS NoMutationAfterSignal NoOvertaking CommitsForNamedAccount GenerationAdvancesOnce
PROPERTIES SignalCompletes
CHECK_DEADLOCK FALSE
