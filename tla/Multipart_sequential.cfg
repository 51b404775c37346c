SPECIFICATION Spec
CONSTANTS
  Uploads = {u1}
  Requests = {r1}
  Sweeper = sweeper
  large = large
  small = small
  Bytes = {large, small}
  Size <- MCSize
  PartNumbers = {1, 2, 3}
  MaxPartNumber = 2
  MinPartBytes = 2
  MaxObjectBytes = 3
  Expiry = 1
  SpoolNames = {s1, s2}
  UploadJson = upload_json
  Tmp = tmp
  None = None
  MaxTime = 0
  MaxCrashes = 1
  MaxPasses = 2
  MaxListed = 2
SYMMETRY Symmetry
INVARIANTS TypeOK KeptUntilStored SpoolsOwned
PROPERTY ImplementsPromise
