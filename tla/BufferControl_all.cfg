SPECIFICATION Spec
CONSTANTS
  Threads = {t1, t2}
  NoThread = NoThread
  Objects = {o1, o2, o3}
  NoObject = NoObject
  Ops <- AllOps
  Domains = {"DEVICE", "SHARED_HOST"}
  MaxGen = 2
SYMMETRY Symmetry
INVARIANTS
  TypeOK
  LeaseExclusion
  CountersExact
  StateBacked
  FreedOnce
  BorrowedFreedOnlyByMigration
PROPERTIES
  LegalMoves
  DeviceMapIsStale
CHECK_DEADLOCK FALSE
