\* Two sessions, three deployments, one request at a time, goroutines,
\* deletions and restarts in any order; the writes of the store succeed.
CONSTANTS
  s1 = s1
  s2 = s2
  a1 = a1
  a2 = a2
  b1 = b1
  None = None
  Deleter = Deleter
  Requests = {r1}
  StoreFaults = FALSE
  Sessions <- MCSessions
  Deployments <- MCDeployments
  Owner <- MCOwner
SPECIFICATION FairSpec
INVARIANTS
  OneDemo
  NothingOrphaned
  StateBacked
PROPERTIES
  ImplementsSlot
  StartResolves
  DeleteAnswered
