SPECIFICATION Spec
CONSTANTS
  n1 = n1
  n2 = n2
  Threads = {t1}
  NoThread = NoThread
  Namespaces <- OneNamespace
  Default = n1
  NoNamespace = NoNamespace
  NoRecord = NoRecord
  Slots = {b1, b2}
  Sizes = {2}
  Domains = {"HOST"}
  Migrated = {}
  Kinds = {"runtime"}
  Policies = {"ON_CROSS_OWNER_REUSE"}
  Faults = {}
  Pooling = TRUE
  min_class_size = 2
  max_objects = 2
  max_idle_bytes = 4
  Memory = 8
  config_cap <- Cap6
  total_capacity <- Cap8
  Quota <- Unlimited
  CountQuota <- AnyCount
SYMMETRY Symmetry
CHECK_DEADLOCK FALSE
INVARIANT ReservedExact
