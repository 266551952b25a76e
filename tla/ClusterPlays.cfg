SPECIFICATION Spec
CONSTANT
  MaxFaults = 1
INVARIANTS
  FaultsStayLocal
PROPERTIES
  TasksInOrder
  NeedsStarted
CHECK_DEADLOCK FALSE
