SPECIFICATION Spec
CONSTANTS
  Threads = {t1, t2}
  NoThread = NoThread
  Objects = {o1, o2, o3}
  NoObject = NoObject
  Ops = {"allocate", "export", "import_local"}
  Domains = {"HOST"}
  MaxGen = 1
INVARIANT FinalizedUnreferenced
CHECK_DEADLOCK FALSE
