CONSTANTS
  Size = 3
  Avails <- MCExact
  BlkSize = 2
  NumMod = 4
  CTimeout = 1
  AckTimeout = 1
  XmitTimeout = 2
  LineCap = 2
  MaxCorrupt = 0
  MaxNoise = 0
  MaxLoss = 1
  MaxResize = 0
SPECIFICATION FairSpec
PROPERTIES Terminates
CHECK_DEADLOCK FALSE
