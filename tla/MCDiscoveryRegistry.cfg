SPECIFICATION DRSpec
CONSTANTS
  Pids = {1, 2, 3}
  MaxStarts = 4
  PidsReused = FALSE
  FilesMayFail = TRUE
INVARIANTS
  LiveIsListed
  StaleIsPruned
CHECK_DEADLOCK FALSE
