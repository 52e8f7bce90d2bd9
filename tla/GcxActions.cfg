SPECIFICATION GcxSpec
CONSTANTS
  Requests = {r1, r2}
  Workers = {w1, w2}
  StoreFaults = TRUE
  SettlesPromptly = TRUE
  Actions = {a1}
  Clicks = {c1, c2}
  ReceiptFaults = TRUE
INVARIANTS RunsOnce ReceiptTrue OwnCredentials
INVARIANTS OneWorker NoWorkWhileDeleting NothingLeftBehind ReadyVerified
PROPERTIES ReadyStays StackResolves
