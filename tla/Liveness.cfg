SPECIFICATION FairSpec
CHECK_DEADLOCK FALSE
CONSTANTS
  t1 = t1
  t2 = t2
  s1 = s1
  NoThread = NoThread
  NoStream = NoStream
  Threads = {t1, t2}
  Streams = {s1}
  CallsOf <- StreamAndSync
  Half = 4
  NWorkers = 1
  QSize = 2
  QDepth = 1
  BounceSlots = 1
  AlignedOnly = FALSE
  Closing = "settled"
  StartSeq = 3
  StartCtr = 7
  NOps = 2
  MaxChunks = 1
  SQCap = 2
PROPERTIES
  KeepsPromise
  AcceptedSettles
  StreamsAdvance
  CallsReturn
  CloseJoins
