SPECIFICATION Spec
CHECK_DEADLOCK FALSE
CONSTANTS
  p1 = p1
  p2 = p2
  t1 = t1
  t2 = t2
  NoThread = NoThread
  Procs = {p1}
  Threads = {t1, t2}
  ProcOf <- OneProcess
  RotateAt = 2
  Retention = 1
  Faults = {"crash_part"}
  MaxRows = 5
  MaxPerSec = 1
  MaxTime = 6
  MaxCrashes = 2
SYMMETRY ThreadSymmetry
INVARIANT AckedReadable
INVARIANT MemoryIsWhatRestartRecovers
PROPERTY KeepsTrail
