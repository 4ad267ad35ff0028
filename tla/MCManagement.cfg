SPECIFICATION Spec
CONSTANTS
  NoId = "noId"
  NoKey = "noKey"
  Redacted = "redacted"
  Writers = {w1, w2}
  Initial = Initial
  Cut = Cut
  MaxTrouble = 1
  FirstConfig <- MCFirst
  NewConnections <- MCNew
  NewNames <- MCNames
  Tokens = {t1}
  NoToken = NoToken
  EnvToken = NoToken
  EnvRequired = FALSE
  Stopped = Stopped
  Keep = Keep
  MaxRequests = 3
  MaxRestarts = 3
INVARIANTS ManagementInv AcceptedIsKept FileIsWhole
CHECK_DEADLOCK FALSE
