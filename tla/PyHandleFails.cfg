\* opends_handle_register can fail.
SPECIFICATION FairSpec
CONSTANTS
  Threads = {t1}
  Main = t1
  NoOne = NoOne
  SharedBuffers = FALSE
  HandleFails = TRUE
  CloseFails = FALSE
  SignalAt = "never"
  Chained = {}
  NCalls = 3
  NSignals = 0
INVARIANTS
  RefsExact
\* The calls are bounded and the process ends.
CHECK_DEADLOCK FALSE
