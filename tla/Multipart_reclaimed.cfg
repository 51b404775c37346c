SPECIFICATION FairSpec
CONSTANTS
  Uploads = {u1}
  Requests = {r1}
  Sweeper = sweeper
  large = large
  small = small
  Bytes = {large}
  Size <- MCSizeOne
  PartNumbers = {1}
  MaxPartNumber = 1
  MinPartBytes = 2
  MaxObjectBytes = 3
  Expiry = 0
  SpoolNames = {s1, s2}
  UploadJson = upload_json
  Tmp = tmp
  None = None
  MaxTime = 2
  MaxCrashes = 1
  MaxPasses = 1
  MaxListed = 2
PROPERTY AbandonedReclaimed
