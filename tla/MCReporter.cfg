SPECIFICATION FairSpec
CONSTANTS
  p1 = p1
  p2 = p2
  Nil = Nil
  Posts = {p1,p2}
  Own = {p1}
  Replies = {}
  CreateAt <- MCCreateAt
  Height <- MCHeight
  Slices <- MCSlices
  Ancestors <- MCAncestors
  WindowHeight = 12
  MaxFailures = 2
  Events = {"identity", "config", "channel", "delete", "stop"}
INVARIANTS SuppressedForAReason
PROPERTIES SendsOnlyWatched WatchedIsReported
CHECK_DEADLOCK FALSE
