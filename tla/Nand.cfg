SPECIFICATION Spec
CONSTANTS
  Path = {p, q}
  Handle = {f, g}
  Inode = {i1, i2, i3}
  NoInode = NoInode
  Block = {b}
  Value = {0, 1}
  Blank = 0
  Absent = Absent
INVARIANTS
  ShadowsAreAlone
PROPERTIES
  ImplementsSaveFiles
SYMMETRY AnyOf
VIEW Referenced
CHECK_DEADLOCK FALSE
