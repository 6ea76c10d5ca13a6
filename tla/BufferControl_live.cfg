SPECIFICATION FairSpec
CONSTANTS
  Threads = {t1, t2}
  NoThread = NoThread
  Objects = {o1, o2}
  NoObject = NoObject
  Ops <- ReturningOps
  Domains = {"HOST", "DEVICE", "SHARED_HOST"}
  MaxGen = 2

  
PROPERTIES
  CallsReturn
  LastDropFinalizes
