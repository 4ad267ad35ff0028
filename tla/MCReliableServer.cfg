SPECIFICATION Spec
CONSTANTS
  Options <- MCOptions
  HalfSpace = 5
  MaxOutOfOrder = 2
  MaxGapTracking = 1
  BehindResyncThreshold = 1
  MaxNakRounds = 1
  Size = 2
  p1 = p1
  p2 = p2
  p3 = p3
  A = A
  B = B
  Peers = {p1, p2, p3}
  AddressOf <- MCAddressOf
  Legacy = {p2}
  Starts <- MCStarts
  FirstSeq <- MCFirstSeq
  Numbers <- MCNumbers
  MaxSessions = 2
  MaxPerAddress = 1
  MaxGuards = 2
  MaxParked = 1
INVARIANTS ServerInv GuardOutlivesSession NeverReplayed
PROPERTY OldStartOnlyIfParked
CHECK_DEADLOCK FALSE
