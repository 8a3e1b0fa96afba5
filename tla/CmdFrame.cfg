CONSTANTS
  Commands <- MCCommands
  Texts <- MCTexts
  Crc <- MCCrc
  BufSize = 48
  ReadTimeout = 1
  MaxMsgs = 3
  MaxCalls = 3
  MaxLoss = 1
SPECIFICATION FairSpec
INVARIANTS TypeOK InFrame
PROPERTIES OneFrameEach EveryCallEnds
CHECK_DEADLOCK FALSE
