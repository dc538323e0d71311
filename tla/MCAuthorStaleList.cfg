SPECIFICATION FairSpec
CONSTANTS
  r1 = r1
  r2 = r2
  Nil = Nil
  Readers = {r1, r2}
  Known = {r1, r2}
  PageSize = 2
  MaxPages = 1
  MaxFailures = 0
PROPERTIES ListIsComplete
CHECK_DEADLOCK FALSE
