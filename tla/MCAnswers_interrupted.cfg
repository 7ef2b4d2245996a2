SPECIFICATION Spec
CONSTANTS
  Works = {"s", "a", "b", "c", "d"}
  Seed = "s"
  Worlds = {}
  Requests = {}
  MAX_DEPTH = 3
  MAX_TOTAL = 6
  MAX_PER_PAPER = 3
  Callers = {c1, c2}
  CacheRefs = {"r"}
  safekey <- OwnKey
  CacheKinds = {"oa", "text"}
  TTL <- NoTtl
  Lengths = {1, 2}
  Limits = {1}
  MaxClock = 1
  MaxAsks = 0
  MaxCrashes = 1
  OldLogs <- MCLogs
  MaxMigrations = 2
  MaxAppends = 2
  MaxKills = 2
  Builds <- MCBuilds
  Platforms = {"linux"}
  EnvValues <- MCEnvValues
  Configs <- MCConfigs
  CredFiles <- MCCreds
  MaxChanges = 0
  MaxEvents = 0
  MaxSkip = 2
  Payloads = {}
  Corpus <- MCCorpus
  NameAnswers <- MCNameAnswers
  Searches = {}
  Frontiers = {}
  MAX_PER_PAGE = 3
  DEGRADES_PAST = 8
  Tags = {"t1", "t2", "t3"}
  ValidTags = {"t1", "t2", "t3"}
  CffKinds = {"none", "authors", "plain"}
  MaxMoves = 0
  Entries = {}
INVARIANTS
  RowsKept
CHECK_DEADLOCK FALSE
