SPECIFICATION Spec
CONSTANTS
  x1 = x1
  audience = audience
  outcome = outcome
  Turns = {t1}
  Threads = {x1}
  Confirmers = {c1}
  Topics = {audience}
  TopicOf <- SameTopic
  Values = {v1, v2}
  MaxMessages = 4
  MaxVersion = 3
  MaxOpen = 3
  Disconnects = FALSE
  Restarts = FALSE
  None = None
SYMMETRY Interchangeable
PROPERTIES ConfirmedKept
CHECK_DEADLOCK FALSE
