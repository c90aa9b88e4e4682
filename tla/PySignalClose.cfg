\* One signal anywhere, the default action kills.
SPECIFICATION FairSpec
CONSTANTS
  Threads = {t1}
  Main = t1
  NoOne = NoOne
  SharedBuffers = FALSE
  HandleFails = FALSE
  CloseFails = FALSE
  SignalAt = "anywhere"
  Chained = {"kills"}
  NCalls = 3
  NSignals = 1
INVARIANTS
  DeadIsClosed
\* The calls are bounded and the process ends.
CHECK_DEADLOCK FALSE
