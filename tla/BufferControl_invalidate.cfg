SPECIFICATION FairSpec
CONSTANTS
  Threads = {t1, t2}
  NoThread = NoThread
  Objects = {o1, o2}
  NoObject = NoObject
  Ops = {"allocate", "invalidate"}
  Domains = {"HOST"}
  MaxGen = 1
PROPERTY LastDropFinalizes
CHECK_DEADLOCK FALSE
