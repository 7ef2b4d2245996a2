SPECIFICATION Spec
CHECK_DEADLOCK FALSE
CONSTANTS
  p1 = p1
  p2 = p2
  t1 = t1
  t2 = t2
  NoThread = NoThread
  Procs = {p1}
  Threads = {t1, t2}
  ProcOf <- OneProcess
  RotateAt = 2
  Retention = 0
  Faults = {"err_part", "err_nonl", "err_fsync", "err_prune", "crash_part", "crash_nonl"}
  MaxRows = 5
  MaxPerSec = 1
  MaxTime = 4
  MaxCrashes = 1
SYMMETRY ThreadSymmetry
INVARIANT LossIsDetected
