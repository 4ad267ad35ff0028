CONSTANTS
  BufferCap = 3
  DropCount = 2
  MaxBatch = 2
  MaxRetries = 1
  MaxDeltas = 5
SPECIFICATION Spec
INVARIANT IInv
PROPERTIES SentInOrder DroppedAfterRetries BufferDrains
CHECK_DEADLOCK FALSE
