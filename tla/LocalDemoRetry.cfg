\* A deletion that failed after it removed the files.
CONSTANTS
  s1 = s1
  s2 = s2
  a1 = a1
  a2 = a2
  b1 = b1
  None = None
  Deleter = Deleter
  Requests = {r1, r2}
  StoreFaults = FALSE
  Sessions <- MCSessions
  Deployments <- MCPair
  Owner <- MCPairOwner
SPECIFICATION Spec
INVARIANTS
  DeletionRetryable
