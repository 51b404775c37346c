SPECIFICATION Spec
CONSTANTS
  Requests = {r1, r2}
  Keys = {inside, outside}
  Inside = {inside}
  Sizes = {0, 1, 3}
  Offsets = {0, 1, 2, 4}
  CacheSeconds = 1
  None = None
  MaxTime = 0
  MaxWrites = 2
  Kinds = {"get", "put", "delete"}
SYMMETRY Symmetry
INVARIANTS ServedAsAnnounced ConditionsHonoured
