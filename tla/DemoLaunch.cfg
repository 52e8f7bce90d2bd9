SPECIFICATION FairSpec
CONSTANTS
  Services = {"api", "db"}
  Signals = {"metrics", "traces"}
  MaxRuns = 2
  Plans <- MCPlans
\* After MaxRuns launches and the end of the last demo nothing is left to do.
CHECK_DEADLOCK FALSE
INVARIANTS ReadyTogether DeliveredAll
PROPERTIES CalmVerifies ImplementsLaunch
