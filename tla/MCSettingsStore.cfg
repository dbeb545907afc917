SPECIFICATION Spec
CONSTANTS
  Procs = {server}
  Keys = {k1, k2}
  Values = {v1}
  Unset = Unset
  Files = {f1, f2, f3}
  NoFile = NoFile
  Truncated = Truncated
  Garbage = Garbage
  MaxCrashes = 2
  IoMayFail = TRUE
SYMMETRY DataSymmetry
INVARIANTS
  FileIsWhole
  RestartFindsAcknowledged
