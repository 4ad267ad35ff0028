CONSTANTS
  Ports = {p1, p2}
  NoPort = NoPort
  OneAddress = TRUE
  ServerRestarts = TRUE
  MaxEpoch = 1
  MaxChains = 2
SPECIFICATION Spec
INVARIANT RetryAlive
PROPERTY HelloGetsThrough
