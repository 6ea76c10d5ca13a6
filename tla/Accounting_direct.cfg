SPECIFICATION Spec
CONSTANTS
  n1 = n1
  n2 = n2
  Threads = {t1, t2}
  NoThread = NoThread
  Namespaces <- TwoNamespaces
  Default = n1
  NoNamespace = NoNamespace
  NoRecord = NoRecord
  Slots = {b1, b2, b3}
  Sizes = {1, 2}
  Domains = {"HOST", "SHARED_HOST"}
  Migrated = {"runtime"}
  Kinds = {"runtime", "borrowed"}
  Policies = {"ON_CROSS_OWNER_REUSE"}
  Faults = {"allocate", "copy"}
  Pooling = FALSE
  min_class_size = 2
  max_objects = 2
  max_idle_bytes = 4
  Memory = 8
  config_cap <- Cap5
  total_capacity <- Cap8
  Quota <- Tight
  CountQuota <- TwoEach
SYMMETRY Symmetry
INVARIANT ReservedExact
INVARIANT AllocsExact
