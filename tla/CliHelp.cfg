CONSTANTS
  Programs <- MCPrograms
  Vocabulary <- MCVocabulary
  MaxLen <- MCFewer
  Bauds <- MCBauds
  MAX_PARTITION_CNT = 3
SPECIFICATION Spec
INVARIANTS RunsAsShown
CHECK_DEADLOCK FALSE
