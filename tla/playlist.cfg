\* Two channels whose cameras answer or do not, playbacks that are started again
\* under the same flag, orders for both channels and repeated ones.
CONSTANTS
  NumChannels = 2
  Flags = {"f1", "f2"}
  MaxPackets = 1
  MaxVods = 2
  MaxOrders = 2
SPECIFICATION FairSpec
INVARIANTS TypeOK LiveFound OneConsumer SessionsListed FilesClosed
PROPERTIES StopServed
CHECK_DEADLOCK FALSE
