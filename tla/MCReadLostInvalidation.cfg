SPECIFICATION Spec
CONSTANTS
  a = a
  r1 = r1
  r2 = r2
  r3 = r3
  p1 = p1
  p2 = p2
  p3 = p3
  Nil = Nil
  Users = {a, r1, r2}
  Posts = {p1, p2}
  Requests = {q1, q2}
  Author <- MCAuthor
  CreateAt <- MCCreateAt
  LegacyReaders = {}
  MaxIndexReaders = 1
  MaxIndexCASRetries = 2
  MaxWatermarkCASRetries = 2
  TTL = 3
  MaxClock = 1
  Faults = {"leave"}
SYMMETRY Symmetry
INVARIANTS NoLostInvalidation
CHECK_DEADLOCK FALSE
