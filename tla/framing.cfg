\* Reconnections at any point, messages that cannot be decrypted, sends that
\* give up.
CONSTANTS
  Header = 2
  Lengths = {3, 4}
  BufLength = 3
  GarbageLen <- MCGarbageLen
  Undecryptable = TRUE
  MaxMsgs = 3
  Requests = {3}
  MaxRequests = 2
  MaxConnects = 1
SPECIFICATION FairSpec
INVARIANTS TypeOK BytesAccountedFor WholeFrames
PROPERTIES AllDelivered ImplementsLink
CHECK_DEADLOCK FALSE
