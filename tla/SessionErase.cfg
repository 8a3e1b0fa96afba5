CONSTANTS
  Package <- MCPlainPackage
  LoaderBlocks = 1
  SectorSize = 2
  FlashSize = 8
  ResetTimeout = 1
  FrameTimeout = 1
  LineCap = 1
  MaxIo = 0
  MaxLoss = 1
  MaxSplit = 0
  MaxCut = 0
  MaxLate = 0
  Verbs <- MCErase
  Calms <- MCNotCalm
SPECIFICATION Spec
INVARIANTS ErasedOnSuccess
CHECK_DEADLOCK FALSE
