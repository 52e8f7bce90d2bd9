SPECIFICATION Spec
CONSTANTS
  x1 = x1
  audience = audience
  outcome = outcome
  Turns = {t1, t2}
  Threads = {x1}
  Confirmers = {}
  Topics = {audience}
  TopicOf <- SameTopic
  Values = {v1}
  MaxMessages = 4
  MaxVersion = 2
  MaxOpen = 2
  Disconnects = TRUE
  Restarts = TRUE
  None = None
SYMMETRY Interchangeable
INVARIANTS NothingSkipped 
CHECK_DEADLOCK FALSE
