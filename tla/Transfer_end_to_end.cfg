SPECIFICATION Spec
CONSTANTS
  Ops = {one, other}
  Payloads <- MCPayloads
  Drifts <- MCDrifts
  MaxSkew = 1
  MaxExpires = 2
  MaxDelay = 3
  Messages <- MCMessages
  MaxBytes = 3
  MaxChunk = 2
  MaxLine = 2
  None = None
  Lengths = {0, 1, 2}
  MaxFiles = 3
  MaxBuffer = 2
  Offsets <- MCOffsets
  Policies <- MCPolicies
  Buckets = {"x", "y"}
  FormKeys <- MCFormKeys
  FileNames <- MCFileNames
  MaxUpload = 2
  MaxObject = 1
  MaxWait = 1
INVARIANTS AdmittedAsSigned HonestAdmitted IntactAccepted KeptAsDigested KeptAsSigned SpoolBounded RefusedOnlyIfDamaged StoredUnderPolicy
PROPERTY ReadsAsOneFile
