SPECIFICATION Spec
CONSTANTS
  Requests = {r1, r2}
  Keys = {inside, outside}
  Inside = {inside}
  Sizes = {1, 3}
  Offsets = {0, 2}
  CacheSeconds = 1
  None = None
  MaxTime = 0
  MaxWrites = 2
  Kinds = {"get", "put"}
SYMMETRY Symmetry
INVARIANT RangesInBounds
