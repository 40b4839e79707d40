SPECIFICATION FairSpec
CONSTANTS
  outer = outer
  middle = middle
  leaf = leaf
  r = r
  NoCall = NoCall
  Function = {outer, middle, leaf}
  Register = {r}
  Programs <- Mutual
  MaxDepth = 3
PROPERTY RoundsEnd
CHECK_DEADLOCK FALSE
