\* The device reconnects in the middle of a message.
CONSTANTS
  Header = 2
  Lengths = {3, 4}
  BufLength = 3
  GarbageLen <- MCGarbageLen
  Undecryptable = FALSE
  MaxMsgs = 2
  Requests = {}
  MaxRequests = 0
  MaxConnects = 1
SPECIFICATION Spec
INVARIANTS HandlesOneMessage
CHECK_DEADLOCK FALSE
