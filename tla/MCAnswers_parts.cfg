SPECIFICATION Spec
CONSTANTS
  Works = {"s", "a", "b", "c", "d"}
  Seed = "s"
  Worlds <- MCWorlds
  Requests <- MCRequests
  MAX_DEPTH = 3
  MAX_TOTAL = 6
  MAX_PER_PAPER = 3
  Callers = {c1, c2}
  CacheRefs = {"r"}
  safekey <- OwnKey
  CacheKinds = {"oa", "text"}
  TTL <- NoTtl
  Lengths = {1, 2}
  Limits = {1}
  MaxClock = 1
  MaxAsks = 3
  MaxCrashes = 1
  OldLogs <- MCLogs
  MaxMigrations = 2
  MaxAppends = 2
  MaxKills = 2
  Builds <- MCBuilds
  Platforms = {"linux"}
  EnvValues <- MCEnvValues
  Configs <- MCConfigs
  CredFiles <- MCCreds
  MaxChanges = 3
  MaxEvents = 7
  MaxSkip = 2
  Payloads <- MCPayloads
  Corpus <- MCCorpus
  NameAnswers <- MCNameAnswers
  Searches <- MCSearches
  Frontiers <- MCFrontiers
  MAX_PER_PAGE = 3
  DEGRADES_PAST = 8
  Tags = {"t1", "t2", "t3"}
  ValidTags = {"t1", "t2", "t3"}
  CffKinds = {"none", "authors", "plain"}
  MaxMoves = 3
  Entries <- MCEntries
SYMMETRY CallerSymmetry
INVARIANTS
  CompleteUnlessTruncated
  DepthIsDistance
  ServedIsWhole
  LiveIsWhole
  SurfacesAgree
  AdviceWorks
  TextIsThePages
  SearchKeepsFilters
  OneVersion
  FormatsAgree
CHECK_DEADLOCK FALSE
