CONSTANTS
  Sources = {s1, s2}
  Counts <- MCCounts
  Interval = 4
  ProbeInterval = 2
  StableWindow = 3
  MaxLate = 1
  MaxCheckpoints = 1
  MaxDisturbances = 2
SPECIFICATION FairSpec
INVARIANTS SingleProbe OneRecollection ReadyIsStored
PROPERTIES ClearedBySnapshot RejectionStands BecomesReady
