SPECIFICATION Spec
CONSTANT
  MaxFaults = 0
PROPERTY
  WorkersStopFirst
CHECK_DEADLOCK FALSE
