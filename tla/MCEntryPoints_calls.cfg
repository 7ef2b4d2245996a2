SPECIFICATION Spec
CONSTANTS
  s1 = s1
  s2 = s2
  cli = cli
  NoOne = NoOne
  Callers <- MCCallers
  ServerCalls <- MCServerCalls
  Scenarios <- MCScenarios
  Stored = {"doi"}
  Errors = {"NETWORK_ERROR", "CAPABILITY_DENIED"}
  MaxFaults = 1
INVARIANTS
  ChainIntact
  SilentUnlessAsked
  ExitTellsSession
PROPERTIES
  KeepsContract
