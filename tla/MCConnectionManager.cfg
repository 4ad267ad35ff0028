SPECIFICATION Spec
CONSTANTS
  hub = hub
  boat = boat
  c1 = c1
  c2 = c2
  None = None
  Configs = {c1, c2}
  WithMetadata = {c1}
  Names = {hub, boat}
  Options <- MCOptions
  MaxRecoveryAttempts = 1
  MaxStarts = 2
  MaxStops = 1
  MaxFaults = 2
  MaxEdits = 1
INVARIANTS TimersInv NothingOutlivesStop NoOrphans LatestStartStands
CHECK_DEADLOCK FALSE
