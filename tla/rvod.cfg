\* Notices at any time, seeks to the middle and to the end, a small list, a
\* connection that breaks, files with and without sound.
CONSTANTS
  Files <- AllFiles
  SendMaxFrames = 1
  PackBufferSize = 2
  Notices = {"pause", "resume", "seek", "seek_here", "stop"}
  Disconnects = TRUE
  MaxNotices = 2
SPECIFICATION FairSpec
INVARIANTS TypeOK SamplesAccounted PlayedInOrder
PROPERTIES PlaybackEnds ImplementsPlayback
CHECK_DEADLOCK FALSE
