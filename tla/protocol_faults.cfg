\* Faults, no application calls from callbacks.
CONSTANTS
  SeqInit = 10
  PlatIds = {1, 2}
  AskTypes = {"AUTH"}
  TellTypes = {"KEEPALIVE"}
  PlatTypes = {"LIVE_START", "PLATFORM_CMD"}
  NestDepth = 0
  Faults = TRUE
  MaxCalls = 3
  MaxPlatReqs = 2
  MaxNotices = 0
  MaxConnects = 1
SPECIFICATION Spec
INVARIANTS TypeOK OwnAnswer ReplyMatches
PROPERTIES ImplementsContract
CHECK_DEADLOCK FALSE
