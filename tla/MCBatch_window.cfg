SPECIFICATION Spec
CONSTANTS
  Files <- MCFiles
  Options <- MCOptions
  Refs = {"p", "q"}
  MCP_BATCH_MAX_SIZE = 3
  Slots = 2
  MaxExit = 2
  Codes = {"NOT_FOUND", "NETWORK_ERROR"}
  MaxPanics = 1
INVARIANTS
  NotAskedInVain
  SlotsGoToWork
  EveryEntryOnce
PROPERTIES
  BatchEnds
