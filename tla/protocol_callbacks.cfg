\* Callbacks call the SDK, also inside a call that waits.  A healthy link, and
\* a platform that may never answer, or never stop sending something else.
CONSTANTS
  SeqInit = 10
  PlatIds = {1}
  AskTypes = {"AUTH", "ADD_CHANNEL"}
  TellTypes = {"KEEPALIVE"}
  PlatTypes = {"RVOD_START", "USERDEFINED_ACTIVATED_CMD", "PLATFORM_REQ_PUBKEY"}
  NestDepth = 2
  Faults = FALSE
  MaxCalls = 2
  MaxPlatReqs = 2
  MaxNotices = 1
  MaxConnects = 0
SPECIFICATION FairSpec
PROPERTIES CallReturns RequestsServed
CHECK_DEADLOCK FALSE
