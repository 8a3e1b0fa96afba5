CONSTANTS
  Size = 5
  Avails <- MCLong
  BlkSize = 2
  NumMod = 2
  CTimeout = 1
  AckTimeout = 1
  XmitTimeout = 2
  LineCap = 2
  MaxCorrupt = 2
  MaxNoise = 1
  MaxLoss = 1
  MaxResize = 1
SPECIFICATION Spec
INVARIANTS TypeOK InStep SuccessMeansStored
PROPERTIES NoRunAhead KeepsPromise
CHECK_DEADLOCK FALSE
