SPECIFICATION Spec
CONSTANTS
  t1 = t1
  t2 = t2
  s1 = s1
  NoThread = NoThread
  NoStream = NoStream
  Threads = {t1}
  Streams = {s1}
  CallsOf <- OneStream
  Half = 4
  NWorkers = 2
  QSize = 1
  QDepth = 2
  BounceSlots = 2
  AlignedOnly = FALSE
  Closing = "never"
  StartSeq = 3
  StartCtr = 7
  NOps = 3
  MaxChunks = 1
  SQCap = 2
INVARIANTS
  TypeOK
  ExecutesAtGate
  HeldUntilSettled
  TailDelivered
  ResultHonest
  CommandsAccounted
PROPERTIES
  GateMovesForward
