SPECIFICATION Spec
CONSTANTS
  outer = outer
  middle = middle
  leaf = leaf
  r = r
  NoCall = NoCall
  Function = {outer, middle, leaf}
  Register = {r}
  Programs <- FallenInto
  MaxDepth = 3
INVARIANT ReadsAreInputs
CHECK_DEADLOCK FALSE
