SPECIFICATION FairSpec
CONSTANTS
  a1 = a1
  a2 = a2
  c1 = c1
  c2 = c2
  Tasks = {a1, a2, c1}
  Sources <- MCSources
  Plan <- MixedPlan
  MaxConcurrent = 2
  MaxPerSec = 1
  Window = 2
  Backoff <- MCBackoff
  Cap <- MCCap
  MaxDelay = 2
  MaxDelays = 1
INVARIANT WindowSlack
PROPERTY SingleConnectionSpaced
PROPERTY AllFinish
