SPECIFICATION Spec
CHECK_DEADLOCK FALSE
CONSTANTS
  t1 = t1
  t2 = t2
  s1 = s1
  NoThread = NoThread
  NoStream = NoStream
  Threads = {t1, t2}
  Streams = {s1}
  CallsOf <- ReaderAndWriter
  Half = 4
  NWorkers = 1
  QSize = 2
  QDepth = 2
  BounceSlots = 2
  AlignedOnly = TRUE
  Closing = "any"
  StartSeq = 3
  StartCtr = 7
  NOps = 3
  MaxChunks = 1
  SQCap = 2
INVARIANTS
  RingWindow
  OneSlotPerOp
  JoinedIsQuiet
PROPERTIES
  KeepsPromise
