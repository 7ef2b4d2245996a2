SPECIFICATION FairSpec
CONSTANTS
  c1 = c1
  c2 = c2
  r1 = r1
  r2 = r2
  r3 = r3
  None = None
  Fetchers = {c1}
  Refs = {r1, r2}
  ReplayWindow = 3
  RetryAfterGap = 2
  SweepFloor = 1
  Answers = {"NOT_FOUND", "INTERNAL_ERROR", "CAPABILITY_DENIED", "RATE_LIMITED", "ok"}
  MaxConfig = 1
INVARIANT ReplayIsJustified
PROPERTY NeverRefusedForGood
