SPECIFICATION FairSpec
CONSTANTS
  Nil = Nil
  MaxAttempts = 3
  MaxReconnects = 2
  MaxChanges = 1
INVARIANTS TypeOK ConfigIsFresh LoadedMeansRefreshed
PROPERTIES ImplementsSession NothingAfterStop EverySequenceSettles
CHECK_DEADLOCK FALSE
