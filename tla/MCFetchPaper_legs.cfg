SPECIFICATION FairSpec
CONSTANTS
  TdmChain <- MCTdmChain
  ContentSources = {"tdm-aps"}
  OptionalChain <- MCOptionalChain
  DocumentSources = {"hal", "openalex"}
  Describers = {"openalex"}
  Finders <- MCFinders
  RepairChain <- MCRepairChain
  Errors = {"NotRetrievable", "Network"}
  MaxLocations = 2
  Configs <- MCConfigs
INVARIANT BlockedIsReported
INVARIANT StoreAgreesWithOutcome
INVARIANT LookupFailsClosed
INVARIANT AskedOnlyWhenNeeded
PROPERTY Ends
CHECK_DEADLOCK FALSE
