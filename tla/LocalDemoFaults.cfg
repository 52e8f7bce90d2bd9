\* Two sessions, three deployments, two concurrent requests, restarts; any
\* write to the store may fail.
CONSTANTS
  s1 = s1
  s2 = s2
  a1 = a1
  a2 = a2
  b1 = b1
  None = None
  Deleter = Deleter
  Requests = {r1, r2}
  StoreFaults = TRUE
  Sessions <- MCSessions
  Deployments <- MCDeployments
  Owner <- MCOwner
SPECIFICATION Spec
INVARIANTS
  ClaimedOnce
  NoWorkWhileDeleting
