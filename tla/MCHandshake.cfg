CONSTANTS
  Ports = {p1, p2}
  NoPort = NoPort
  OneAddress = TRUE
  ServerRestarts = TRUE
  MaxEpoch = 2
  MaxChains = 2
SYMMETRY Symmetry
SPECIFICATION Spec
INVARIANTS HandshakeInv RetryAlive
PROPERTY HandshakeIsKept
