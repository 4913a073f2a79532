\* A file played from its start to its end.
CONSTANTS
  Files <- SoundFile
  SendMaxFrames = 1
  PackBufferSize = 12
  Notices = {}
  Disconnects = FALSE
  MaxNotices = 0
SPECIFICATION Spec
INVARIANTS BothFinished
CHECK_DEADLOCK FALSE
