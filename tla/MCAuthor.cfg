SPECIFICATION FairSpec
CONSTANTS
  r1 = r1
  r2 = r2
  Nil = Nil
  Readers = {r1, r2}
  Known = {r1}
  PageSize = 1
  MaxPages = 2
  MaxFailures = 1
INVARIANTS TypeOK NoPhantomReaders ReceiptsAreListed LoadingHasCause OutdatedCountIsDue NamedUnlessFailed
PROPERTIES ListSettles CountCatchesUp
CHECK_DEADLOCK FALSE
