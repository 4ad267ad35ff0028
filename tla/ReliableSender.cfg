CONSTANTS
  HalfSpace = 3
  MaxQueue = 2
  MaxRetransmits = 1
  BurstSize = 1
  MaxAhead = 2
  MaxSends = 2
SPECIFICATION Spec
INVARIANTS SenderInv WithinBudget
PROPERTIES NoHoleTorn BurstEnds
