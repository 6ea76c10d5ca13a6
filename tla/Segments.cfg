CONSTANTS
  p1 = p1
  p2 = p2
  t1 = t1
  t2 = t2
  t3 = t3
  Processes = {p1, p2}
  Threads = {t1, t2, t3}
  process <- MCprocess
  Sizes = {1, 5}
  DwordLimit = 4
  Kinds = {"shared", "file"}
  MaxCount = 2
  MaxRestarts = 1
  MaxLive = 1
  MaxDescriptors = 1
SPECIFICATION MCSpec
INVARIANTS
  TypeOK
  HandlesExact
  CommittedBacked
  SegmentsPrivate
  PathsPrivateInRun
CHECK_DEADLOCK FALSE
