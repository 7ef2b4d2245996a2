SPECIFICATION Spec
CONSTANTS
  c1 = c1
  c2 = c2
  NoClient = NoClient
  NoEntry = NoEntry
  NoTable = NoTable
  Clients = {c1, c2}
  Tags = {}
  Fetched <- FetchedRepaired
  Foreign <- SameTitle
  Ops = {"fetch", "add"}
  MaxPdfs = 3
  MaxCrashes = 2
SYMMETRY ClientSymmetry
INVARIANT RecordDescribesPdf
INVARIANT RepairedMeansApplied
