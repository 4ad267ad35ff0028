CONSTANTS
  HalfSpace = 8
  MaxOutOfOrder = 2
  MaxGapTracking = 2
  BehindResyncThreshold = 3
  MaxNakRounds = 2
SPECIFICATION ProbeSpec
INVARIANTS IInv HandedOnOnce
PROPERTIES AckedOnlyIfSettled AbandonedOnlyAfterAllRounds PinnedProbeMoves
