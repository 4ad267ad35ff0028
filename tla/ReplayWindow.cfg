CONSTANTS
  HalfSpace = 10
  Size = 3
  MaxJump = 4
SPECIFICATION WindowSpec
INVARIANT IInv
PROPERTY ImplementsFilter
