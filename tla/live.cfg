SPECIFICATION FairSpec
CONSTANTS
  PackBufferSize = 1
  MaxPublishes = 2
  MaxParams = 2
  MaxControls = 1
INVARIANTS TypeOK Decodable LiveOnly HandlerSafe
PROPERTIES GivesUp PictureShown
CHECK_DEADLOCK FALSE
