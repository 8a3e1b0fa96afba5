CONSTANTS
  Programs <- MCPrograms
  Vocabulary <- MCVocabulary
  MaxLen <- MCMaxLen
  Bauds <- MCBauds
  MAX_PARTITION_CNT = 3
SPECIFICATION FairSpec
INVARIANTS TypeOK ParsesAsTyped RunsWhatWasTyped SignsTheFirst
PROPERTIES VerbBeforeArgs Terminates
CHECK_DEADLOCK FALSE
