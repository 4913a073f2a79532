\* Two encoders that fill more buffers than the list holds.
CONSTANTS
  Encoders = {video, audio}
  Video = video
  MaxBufSize = 1
  MaxFrames = 3
SPECIFICATION FairSpec
INVARIANTS TypeOK QueueBounded BuffersOnce SentInOrder
PROPERTIES StreamStops ImplementsQueue
CHECK_DEADLOCK FALSE
