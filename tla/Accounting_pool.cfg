SPECIFICATION Spec
CONSTANTS
  n1 = n1
  n2 = n2
  Threads = {t1, t2}
  NoThread = NoThread
  Namespaces <- OneNamespace
  Default = n1
  NoNamespace = NoNamespace
  NoRecord = NoRecord
  Slots = {b1, b2}
  Sizes = {2}
  Domains = {"SHARED_HOST", "DEVICE"}
  Migrated = {"runtime", "borrowed"}
  Kinds = {"runtime", "borrowed", "adopted", "imported"}
  Policies = {"ON_CROSS_OWNER_REUSE", "ON_ALLOCATE"}
  Faults = {"allocate", "zero", "copy", "verify", "capacity"}
  Pooling = TRUE
  min_class_size = 2
  max_objects = 2
  max_idle_bytes = 4
  Memory = 4
  config_cap <- Cap4
  total_capacity <- DeviceLess
  Quota <- SharedOnly
  CountQuota <- TwoEach
SYMMETRY Symmetry
INVARIANT WithinQuota
