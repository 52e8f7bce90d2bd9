SPECIFICATION Spec
CONSTANTS
  Requests = {r1, r2}
  Proposals = {p1}
  Paths = {f1}
  Contents = {c1}
  Tidied = {}
  MaxIterations = 3
  MaxVersion = 2
  StoreFaults = TRUE
  Disconnects = TRUE
  Restarts = TRUE
  ParallelTools = FALSE
  None = None
SYMMETRY Interchangeable
INVARIANTS OneBuild SingleUse RevisionFresh ReceiptTrue
