SPECIFICATION FairSpec
CONSTANTS
  outer = outer
  middle = middle
  leaf = leaf
  r = r
  NoCall = NoCall
  Function = {outer, middle, leaf}
  Register = {r}
  Programs <- ThreeLevels
  MaxDepth = 4
INVARIANTS
  NoStaleRead
  NothingLost
  ContractsAreTrue
PROPERTIES
  WorklistIsExact
  RoundsEnd
CHECK_DEADLOCK FALSE
