SPECIFICATION FairSpec
CONSTANTS
  Threads = {t1, t2}
  NoThread = NoThread
  Objects = {o1, o2, o3}
  NoObject = NoObject
  Ops <- CoreOps
  Domains = {"HOST", "SHARED_HOST"}
  MaxGen = 1
INVARIANTS
  RefsExact
  FinalizedUnreferenced
  NoDanglingPointer
PROPERTIES
  KeepsPromise
