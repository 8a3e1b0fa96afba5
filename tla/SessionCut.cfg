CONSTANTS
  Package <- MCPlainPackage
  LoaderBlocks = 1
  SectorSize = 2
  FlashSize = 8
  ResetTimeout = 1
  FrameTimeout = 1
  LineCap = 1
  MaxIo = 0
  MaxLoss = 0
  MaxSplit = 0
  MaxCut = 1
  MaxLate = 0
  Verbs <- MCFlash
  Calms <- MCNotCalm
SPECIFICATION Spec
INVARIANTS CutTransferFails
CHECK_DEADLOCK FALSE
