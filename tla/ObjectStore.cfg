SPECIFICATION Spec
CONSTANTS
  plain = plain
  thin = thin
  None = None
  o1 = o1
  o2 = o2
  Version <- TwoVersions
  Thin <- OneThin
  Output <- TwoOutputs
SYMMETRY Symmetry
INVARIANTS CacheIsWhole MadeIsRight StampIsHonest
