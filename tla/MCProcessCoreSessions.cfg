SPECIFICATION Spec
CONSTANTS
  Procs = {p1, p2}
  NoChild = NoChild
  Streams = {"stdout"}
  MaxLines = 0
  KillMayFail = TRUE
  TryWaitMayFail = FALSE
  ReadMayFail = FALSE
  PatientCaller = FALSE
INVARIANTS
  Custody
  CrashesAreReal
PROPERTIES
  CallsReturn
  CrashIsReported
  ReapersEnd
