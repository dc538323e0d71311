SPECIFICATION FairSpec
CONSTANTS
  c1 = c1
  c2 = c2
  c3 = c3
  Nil = Nil
  Channels = {c1}
  Enabled = {c1}
  Posting = {c1}
  MaxVersion = 3
  Faults = {"fail", "disconnect"}
INVARIANTS StalenessIsPending
PROPERTIES StatusesCatchUp
CHECK_DEADLOCK FALSE
