SPECIFICATION Spec
CONSTANTS
  Interval = 3
  MaxInstant = 30
  MaxMissed = 5
INVARIANTS ResumesAtFirstDeadline OneStartPerDeadline NeverBehind
CHECK_DEADLOCK FALSE
