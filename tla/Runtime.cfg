SPECIFICATION Spec
CONSTANTS
  Threads = {t1, t2}
  Configs <- MCConfigs
  namespaces <- NoNamespaces
  kLog = 1
  MaxNamespaces = 2
  MaxBuffers = 2
SYMMETRY Symmetry
INVARIANTS
  TypeOK
  ImportAuthorized
  IdsUnique
  CrashNeedsRace
  CountersNeverOver
  LogKeepsNewest
PROPERTIES
  RegistryDrains
CHECK_DEADLOCK FALSE
