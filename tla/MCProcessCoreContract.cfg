SPECIFICATION Spec
CONSTANTS
  Procs = {p1, p2}
  NoChild = NoChild
  Streams = {"stdout"}
  MaxLines = 1
  KillMayFail = FALSE
  TryWaitMayFail = TRUE
  ReadMayFail = TRUE
  PatientCaller = TRUE
INVARIANTS
  NoProcessLost
  StopIsFinal
PROPERTIES
  ImplementsContract
  OutputIsDrained
