\* The platform publishes a channel twice.
CONSTANTS
  MaxPublishes = 2
SPECIFICATION Spec
PROPERTIES AlreadyStarted
CHECK_DEADLOCK FALSE
