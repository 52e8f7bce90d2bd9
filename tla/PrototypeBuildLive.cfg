SPECIFICATION FairSpec
CONSTANTS
  Requests = {r1}
  Proposals = {p1}
  Paths = {f1, f2}
  Contents = {c1}
  Tidied = {f2}
  MaxIterations = 2
  MaxVersion = 2
  StoreFaults = FALSE
  Disconnects = FALSE
  Restarts = FALSE
  ParallelTools = FALSE
  None = None
INVARIANTS ScopeKept
PROPERTIES ValidatedLast BuildEnds
