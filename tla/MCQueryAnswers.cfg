SPECIFICATION QuerySpec
CONSTANTS
  a = a
  r1 = r1
  r2 = r2
  r3 = r3
  p1 = p1
  p2 = p2
  Nil = Nil
  Users = {a, r1, r2, r3}
  Posts = {p1}
  Requests = {q1}
  Author <- MCAuthor
  LegacyReaders = {r1}
  MaxIndexReaders = 3
  MaxIndexCASRetries = 1
  MaxWatermarkCASRetries = 1
  TTL = 3
  MaxClock = 2
  Faults = {"leave", "join"}
  MaxQueryReaders = 2
  CreateAt <- MCCreateAt
  Queries = {k1}
SYMMETRY Symmetry
INVARIANTS QueryTypeOK CountsBracketed ExactTimeIsTheReaders PagesSkipNobody
