SPECIFICATION Spec
CONSTANTS
  Names = {"logs", "metrics"}
  Values = {"v1"}
  MaxItems = 2
  MaxIds = 3
  None = None
INVARIANTS ReconcileContract
PROPERTIES LockedKept
