CONSTANTS
  Packages <- MCPackages
  Objects <- MCObjects
  HeaderSize = 1
  InfoSize = 2
  MaxCnt = 6
  ChunkSize = 2
  StdioBuf = 2
  MaxIo = 1
  MaxCut = 2
SPECIFICATION FairSpec
INVARIANTS TypeOK OldBinsKept NewBinsPlaced NoOverlap
PROPERTIES Ends
CHECK_DEADLOCK FALSE
