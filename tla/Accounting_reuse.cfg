SPECIFICATION Spec
CONSTANTS
  n1 = n1
  n2 = n2
  Threads = {t1, t2}
  NoThread = NoThread
  Namespaces <- OneNamespace
  Default = n1
  NoNamespace = NoNamespace
  NoRecord = NoRecord
  Slots = {b1, b2, b3}
  Sizes = {1, 2}
  Domains = {"HOST", "SHARED_HOST"}
  Migrated = {"runtime"}
  Kinds = {"runtime"}
  Policies = {"ON_CROSS_OWNER_REUSE"}
  Faults = {"allocate", "copy"}
  Pooling = TRUE
  min_class_size = 1
  max_objects = 2
  max_idle_bytes = 3
  Memory = 4
  config_cap <- HostDefault
  total_capacity <- Cap4
  Quota <- Unlimited
  CountQuota <- AnyCount
SYMMETRY Symmetry
INVARIANT CommittedExact
INVARIANT ReservationHeld
INVARIANT NoBackingLost
INVARIANT PoolExact
INVARIANT PoolBounded
