SPECIFICATION SafetySpec
CONSTANTS
  Procs = {p1, p2}
  NoChild = NoChild
  Streams = {"stdout"}
  MaxLines = 0
  KillMayFail = FALSE
  TryWaitMayFail = FALSE
  ReadMayFail = FALSE
  PatientCaller = FALSE
SYMMETRY ProcSymmetry
INVARIANTS
  DisconnectedMeansNoProcess
