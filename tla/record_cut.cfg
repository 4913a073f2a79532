\* One channel, one order.
CONSTANTS
  NumChannels = 1
  Flags = {}
  MaxPackets = 1
  MaxVods = 0
  MaxOrders = 1
SPECIFICATION Spec
PROPERTIES RecordLasts
CHECK_DEADLOCK FALSE
