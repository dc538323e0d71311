SPECIFICATION Spec
CONSTANTS
  c1 = c1
  c2 = c2
  c3 = c3
  Nil = Nil
  Channels = {c1, c2, c3}
  Enabled = {c1, c2}
  Posting = {c1, c2}
  MaxVersion = 1
  Faults = {"fail", "refuse", "switch", "disconnect"}
INVARIANTS TypeOK NeverIdle
PROPERTIES ShownNeverGoesBack
CHECK_DEADLOCK FALSE
