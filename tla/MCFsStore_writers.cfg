SPECIFICATION Spec
CONSTANTS
  c1 = c1
  c2 = c2
  NoClient = NoClient
  NoEntry = NoEntry
  NoTable = NoTable
  Clients = {c1, c2}
  Tags = {"a"}
  Fetched <- FetchedPlain
  Foreign <- OtherTool
  Ops = {"fetch", "tag", "add", "newer"}
  MaxPdfs = 2
  MaxCrashes = 1
SYMMETRY ClientSymmetry
INVARIANT NoDanglingPdf
PROPERTY NothingForgotten
