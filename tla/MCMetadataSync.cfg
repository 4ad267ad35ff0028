SPECIFICATION MetadataSpec
CONSTANTS
  HalfSpace = 5
  EnvelopeSeqWindow = 2
  MetaRestartThreshold = 2
  MaxChunkIndices = 3
  k1 = k1
  k2 = k2
  v1 = v1
  v2 = v2
  Keys = {k1, k2}
  SelfKeys = {k2}
  Included = {k1, k2}
  Values = {v1}
  Unset = Unset
  MaxPathsPerPacket = 1
  MaxEnvelopes = 3
  MaxRuns = 2
  MaxSends = 2
  MaxChanges = 1
  MaxSessions = 1
INVARIANTS MetadataInv AppliedOnce
PROPERTY StragglersLand
CHECK_DEADLOCK FALSE
