\* The sample, built for encryption: the platform asks for up to two keys.
CONSTANTS
  Program = "sample"
  Encrypting = TRUE
  MaxFaults = 3
  MaxCodes = 3
  CodeLength <- MCCodeLength
  MaxKeyRequests = 2
SPECIFICATION FairSpec
INVARIANTS TypeOK Readable SecretsEncrypted ServesAuthenticated CodeCurrent
PROPERTIES Recovers
CHECK_DEADLOCK FALSE
