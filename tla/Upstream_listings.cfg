SPECIFICATION Spec
CONSTANTS
  Requests = {r1, r2}
  Keys = {inside, outside}
  Inside = {inside}
  Sizes = {1}
  Offsets = {}
  CacheSeconds = 1
  None = None
  MaxTime = 1
  MaxWrites = 2
  Kinds = {"list", "put", "copy", "delete", "rmdir", "rmbucket"}
SYMMETRY Symmetry
INVARIANTS TypeOK CacheCoherent StaleForCacheSecondsOnly DeletedIsGone
PROPERTY LostOnlyByName
