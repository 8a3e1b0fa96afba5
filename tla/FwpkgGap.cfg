CONSTANTS
  Packages <- MCGap
  Objects <- MCObjects
  HeaderSize = 1
  InfoSize = 2
  MaxCnt = 6
  ChunkSize = 2
  StdioBuf = 2
  MaxIo = 0
  MaxCut = 0
SPECIFICATION Spec
INVARIANTS OldBinsKept
CHECK_DEADLOCK FALSE
