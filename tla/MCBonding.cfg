SPECIFICATION BondingSpec
CONSTANTS
  Bound = {"backup"}
  HeartbeatTimeout = 1
  MinProbes = 1
  FailbackDelay = 3
  MinDwell = 2
  MaxForced = 1
  MaxFaults = 2
INVARIANT BondingInv
PROPERTIES NoFlapping TrafficFollowsHealth
CHECK_DEADLOCK FALSE
