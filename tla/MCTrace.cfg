SPECIFICATION Spec
CONSTANTS
  j1 = j1
  j2 = j2
  Job <- MCJob
  Generation = {0, 1}
  GenOf <- MCGenOf
  Lags = {0, 1}
  MaxEvents <- MCMaxEvents
  MaxFaults = 2
INVARIANTS
  TimelineTrue
  EveryAttemptShown
CHECK_DEADLOCK FALSE
