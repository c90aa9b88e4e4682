SPECIFICATION Spec
CONSTANTS
  Threads = {t1}
  MaxHandles = 2
  Addrs = {b1, b2, b3}
  NThreads = 2
  MaxBufs = 2
  MaxStreams = 2
  RefMaxBufs = 2
INVARIANTS
  Grounded
  NothingLeft
  RecordsExact
PROPERTIES
  OpenCloseReturn
  KeepsContract
