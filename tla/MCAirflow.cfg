SPECIFICATION FairSpec
CONSTANTS
  Plans <- MCPlans
  MaxRetries = 1
  MaxFiles = 2
  MaxFaults = 2
  Faults = {"error", "lost"}
INVARIANTS
  TypeOK
  LeavesDecide
  MailedIsValidated
  OwnInputsThere
  CleanAfterAll
  OwnFile
PROPERTY
  RunsFinish
CHECK_DEADLOCK FALSE
