SPECIFICATION Spec
CONSTANTS
  outer = outer
  middle = middle
  leaf = leaf
  r = r
  NoCall = NoCall
  Function = {outer, middle, leaf}
  Register = {r}
  Programs <- ThreeLevels
  MaxDepth = 4
INVARIANT Counted
CHECK_DEADLOCK FALSE
