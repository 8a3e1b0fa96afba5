CONSTANTS
  Size = 11
  Avails <- MCEnds
  BlkSize = 2
  NumMod = 4
  CTimeout = 1
  AckTimeout = 1
  XmitTimeout = 2
  LineCap = 2
  MaxCorrupt = 1
  MaxNoise = 2
  MaxLoss = 0
  MaxResize = 1
SPECIFICATION FairSpec
INVARIANTS RepeatsHarmless InOrder ShortFileRefused
PROPERTIES Terminates ReachesChip
CHECK_DEADLOCK FALSE
