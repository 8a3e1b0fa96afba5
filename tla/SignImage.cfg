CONSTANTS
  Block = 4
  LenField = 2
  Word = 16
  Sizes <- MCSizes
  ChunkSize = 8
  StdioBuf = 4
  Align = 2
  MaxShort = 1
  MaxResize = 1
  MaxWrite = 1
SPECIFICATION FairSpec
INVARIANTS TypeOK Streams HeaderDescribesBody SignsTheWholeImage SendsAllOfIt
PROPERTIES Terminates
CHECK_DEADLOCK FALSE
