SPECIFICATION FairSpec
CONSTANTS
  Threads = {t1, t2}
  Main = t1
  NoOne = NoOne
  SharedBuffers = FALSE
  HandleFails = FALSE
  CloseFails = TRUE
  SignalAt = "outside"
  Chained = {"kills", "returns"}
  NCalls = 5
  NSignals = 2
INVARIANTS
  RefsExact
  DriverCounted
  IoHasDriver
PROPERTIES
  PyCallsReturn
\* The calls are bounded and the process ends.
CHECK_DEADLOCK FALSE
