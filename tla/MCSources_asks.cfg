SPECIFICATION Spec
CONSTANTS
  a1 = a1
  a2 = a2
  Askers <- MCAskers
  Asks <- MCAsks
  Slots = 1
  MAX_FETCH_RETRIES = 1
  MAX_REDIRECTS = 3
  PDF_MAX_BYTES = 2
  MaxTrouble = 3
INVARIANTS
  OnlyPermittedHosts
  RequestUnderPermit
  RetriesAreEarned
  RowTellsOutcome
