CONSTANTS
  Contexts = {c1, c2, c3}
  Paths = {p1}
  Values = {v1, v2}
  NoValue = NoValue
  Dup = Dup
  CacheMax = 2
  MaxChannel = 2
SYMMETRY Symmetry
SPECIFICATION DedupSpec
INVARIANTS DedupInv OnlyOwnValues
