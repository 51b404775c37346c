SPECIFICATION Spec
CONSTANTS
  Uploads = {u1}
  Requests = {r1, r2}
  Sweeper = sweeper
  large = large
  small = small
  Bytes = {large}
  Size <- MCSizeOne
  PartNumbers = {1}
  MaxPartNumber = 1
  MinPartBytes = 2
  MaxObjectBytes = 3
  Expiry = 1
  SpoolNames = {s1, s2}
  UploadJson = upload_json
  Tmp = tmp
  None = None
  MaxTime = 2
  MaxCrashes = 0
  MaxPasses = 1
  MaxListed = 2
SYMMETRY Symmetry
INVARIANT RunningCompletionKeepsParts
