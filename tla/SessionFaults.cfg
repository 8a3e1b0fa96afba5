CONSTANTS
  Package <- MCPackage
  LoaderBlocks = 1
  SectorSize = 2
  FlashSize = 8
  ResetTimeout = 1
  FrameTimeout = 1
  LineCap = 1
  MaxIo = 1
  MaxLoss = 1
  MaxSplit = 1
  MaxCut = 1
  MaxLate = 1
  Verbs <- MCAllVerbs
  Calms <- MCEither
SPECIFICATION FairSpec
INVARIANTS TypeOK FlashedOnSuccess ErasesOnlyItsSectors SpeedsAgree OneAtATime
  ErasedWhenCalm
PROPERTIES Terminates Succeeds
CHECK_DEADLOCK FALSE
