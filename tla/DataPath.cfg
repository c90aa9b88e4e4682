SPECIFICATION FairSpec
CONSTANTS
  Align = 4
  Lba = 4
  NBlocks = 3
  Place <- Fragmented
  Sizes = {0, 6, 11}
  NWrites = 2
  MdtsLbas = 2
  MaxNlb = 2
  PrpAlign = 2
  BounceSlots = 2
  AlignedOnly = FALSE
  Retries = 2
  OffsetMax = 20
  WriteReqs <- SomeWrites
  ReadReqs <- SomeReads
  Overlap = "apart"
INVARIANTS
  FileExact
  ReadExact
  InBuffer
PROPERTIES
  IoReturns
\* An application may stop calling.
CHECK_DEADLOCK FALSE
