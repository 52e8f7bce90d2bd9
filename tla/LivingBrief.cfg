SPECIFICATION Spec
CONSTANTS
  x1 = x1
  audience = audience
  outcome = outcome
  Turns = {t1}
  Threads = {x1}
  Confirmers = {c1}
  Topics = {audience, outcome}
  TopicOf <- SameTopic
  Values = {v1}
  MaxMessages = 4
  MaxVersion = 3
  MaxOpen = 3
  Disconnects = TRUE
  Restarts = TRUE
  None = None
SYMMETRY Interchangeable
PROPERTIES SeenDecisionsKept ChangeNeedsAcceptance ReadyAccepted ConfirmedFrozen
CHECK_DEADLOCK FALSE
