SPECIFICATION UpdatesSpec
CONSTANTS
  Apps = {a1, a2}
  Warning = warning
  Cap = 1
  Interval = 1
  Window = 60
  LastDay = 2
  MaxRuns = 3
  MaxEdits = 1
  MaxFaults = 0
INVARIANT IgnoredStaysOff
SYMMETRY Symmetry
CHECK_DEADLOCK FALSE
