SPECIFICATION Spec
CONSTANTS
  Requests = {r1, r2}
  Keys = {inside, outside}
  Inside = {inside}
  Sizes = {1}
  Offsets = {}
  CacheSeconds = 1
  None = None
  MaxTime = 0
  MaxWrites = 2
  Kinds = {"put", "rmdir"}
SYMMETRY Symmetry
INVARIANT OnlyEmptyDirsDeleted
