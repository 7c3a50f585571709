CONSTANTS
  Sources = {s1}
  Counts <- MCCounts
  Interval = 4
  ProbeInterval = 2
  StableWindow = 3
  MaxLate = 1
  MaxCheckpoints = 1
  MaxDisturbances = 3
SPECIFICATION FairSpec
PROPERTIES ProbesArePaced
