SPECIFICATION FairSpec
CHECK_DEADLOCK FALSE
CONSTANTS
  Capacity = 2
  MaxNr = 2
  NOps = 4
INVARIANTS
  InflightExact
  ReportedOnce
  ReportHonest
  FutureOwned
PROPERTIES
  BatchCallsReturn
