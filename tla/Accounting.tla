----------------------------- MODULE Accounting -----------------------------
(***************************************************************************)
(* The byte and count ledger of the memory domains, and one bucket of the  *)
(* reuse pool for each: what RuntimeImpl charges to the namespaces while   *)
(* threads allocate, wrap, import, migrate, release and trim concurrently. *)
(*                                                                         *)
(* Grain of atomicity.  A step is one section under ns_mtx_ or pool_mtx_,  *)
(* or one call of the domain's backend.  pool_trim keeps pool_mtx_ across  *)
(* its steps (the variable pool_mtx); the other sections are one step.     *)
(*                                                                         *)
(* Data.  Buffers are [kind, ns, bytes, ...] records.  Requested sizes are *)
(* multiples of the alignment, so that class_size = size, and a backing    *)
(* has the size it was first requested with (bytes: Record::committed).    *)
(* max_class_size = min_class_size: size_class_for stops at that class,    *)
(* so all sizes have one PoolKey and pass the upper test of eligibility.   *)
(* The shared lifetime of a buffer is in BufferControl; here finalize is   *)
(* entered once for each buffer, and a migrating buffer, whose ctl->mtx is *)
(* held, is out of the set of buffers until the call returns.              *)
(* ns_allocated_ and pool_idle_by_domain_ are left out: no limit and no    *)
(* decision reads them.  checkout_amount and release_amount of a pooled    *)
(* backing write nothing else.                                             *)
(***************************************************************************)
EXTENDS Integers, Sequences, FiniteSets, SequencesExt

CONSTANTS
  Threads,        \* client threads
  NoThread,       \* the owner of a free mutex
  Namespaces,     \* registered namespaces
  Default,        \* kDefaultNamespace
  NoNamespace,    \* an empty std::optional<NamespaceId>
  NoRecord,       \* no record
  Slots,          \* bound: at most this many buffers
  Sizes,          \* the sizes that clients request
  Domains,        \* the memory domains that are enabled
  Kinds,          \* the kinds of buffers that clients create
  Migrated,       \* the kinds of buffers that clients migrate
  Policies,       \* the zeroing policies in force
  Faults,         \* what may fail: "allocate", "zero", "copy", "verify",
                  \* "capacity"
  Pooling,        \* cfg.enable_pool && cfg.pool.enabled
  min_class_size, max_objects, max_idle_bytes,   \* PoolConfig
  Memory,         \* bound: the bytes that a domain's backend can hand out
  config_cap,     \* the cap configured for each domain; 0 is none
  total_capacity, \* what the memory of the host and of the device is
  Quota,          \* domain_quota of each account; 0 is unlimited
  CountQuota      \* allocation_count_quota of each namespace; 0 is unlimited

BufferKinds == {"runtime", "borrowed", "adopted", "imported"}
ZeroingPolicy == {"NEVER", "ON_ALLOCATE", "ON_RELEASE", "ON_CROSS_OWNER_REUSE", "ALWAYS"}

\* What the ledger is kept for.
Accounts == Namespaces \X Domains

\* native: the backing was handed out by the domain's allocate.  other: the
\* other domain of a migration under way, else the buffer's own.
Record == [kind : BufferKinds, ns : Namespaces, domain : Domains, other : Domains,
           size : Sizes, bytes : Sizes, native : BOOLEAN, pooled : BOOLEAN,
           last_owner : Namespaces \cup {NoNamespace}]
Slot == [bytes : Sizes, domain : Domains, last_owner : Namespaces]

ASSUME NoRecordAssumption == NoRecord \notin Record
ASSUME NamespacesAssumption == Default \in Namespaces /\ NoNamespace \notin Namespaces
ASSUME AccThreadsAssumption == NoThread \notin Threads
ASSUME SizesAssumption == Sizes \subseteq Nat \ {0}
ASSUME KindsAssumption == Kinds \subseteq BufferKinds /\ Policies \subseteq ZeroingPolicy
ASSUME LimitsAssumption ==
  /\ config_cap \in [Domains -> Nat] /\ total_capacity \in [Domains -> Nat]
  /\ Memory \in Nat /\ max_objects \in Nat /\ max_idle_bytes \in Nat
  /\ min_class_size \in Nat /\ Pooling \in BOOLEAN
  /\ Quota \in [Accounts -> Nat] /\ CountQuota \in [Namespaces -> Nat]

VARIABLES
  reserved,          \* ns_reserved_
  committed,         \* ns_committed_
  allocs,            \* ns_allocs_
  pool,              \* pool_: the idle slots, oldest first
  pool_object_count, \* pool_object_count_
  pool_idle_bytes,   \* pool_idle_bytes_
  pool_mtx,          \* the owner of pool_mtx_
  buffers,           \* the registered buffers
  heap,              \* bytes that each domain's backend has handed out
  pc, rec            \* threads: next step, the record they work on

ledger == <<reserved, committed, allocs>>
poolVars == <<pool, pool_object_count, pool_idle_bytes, pool_mtx>>
vars == <<ledger, poolVars, buffers, heap, pc, rec>>

Steps == {"idle", "reserve_amount", "pool_take", "allocate",
          "commit_amount", "unreserve_amount", "zero", "undo_zero", "abandon",
          "register_control", "pool_put", "free_accounting",
          "release_count", "trim", "migrate_allocate", "migrate_copy",
          "migrate_commit", "migrate_verify", "migrate_unreserve", "migrate_free"}

TypeOK ==
  /\ reserved \in [Accounts -> Nat]
  /\ committed \in [Accounts -> Nat]
  /\ allocs \in [Namespaces -> Nat]
  /\ pool \in Seq(Slot)
  /\ pool_object_count \in Nat
  /\ pool_idle_bytes \in Nat
  /\ pool_mtx \in Threads \cup {NoThread}
  /\ buffers \in [Slots -> Record \cup {NoRecord}]
  /\ heap \in [Domains -> Int]
  /\ pc \in [Threads -> Steps]
  /\ rec \in [Threads -> Record \cup {NoRecord}]
-----------------------------------------------------------------------------
Within(limit, n) == limit = 0 \/ n <= limit

\* The clamped subtraction used throughout.
Minus(n, m) == IF n >= m THEN n - m ELSE 0

Used == {s \in Slots : buffers[s] # NoRecord}
Busy == {t \in Threads : pc[t] # "idle"}
Room == Cardinality(Used) + Cardinality(Busy) < Cardinality(Slots)

Account(r) == <<r.ns, r.domain>>
OtherAccount(r) == <<r.ns, r.other>>

Goto(t, next) == pc' = [pc EXCEPT ![t] = next] /\ UNCHANGED rec

Done(t) ==
  /\ pc' = [pc EXCEPT ![t] = "idle"]
  /\ rec' = [rec EXCEPT ![t] = NoRecord]

Init ==
  /\ reserved = [a \in Accounts |-> 0]
  /\ committed = [a \in Accounts |-> 0]
  /\ allocs = [n \in Namespaces |-> 0]
  /\ pool = <<>> /\ pool_object_count = 0 /\ pool_idle_bytes = 0
  /\ pool_mtx = NoThread
  /\ buffers = [s \in Slots |-> NoRecord]
  /\ heap = [d \in Domains |-> 0]
  /\ pc = [t \in Threads |-> "idle"]
  /\ rec = [t \in Threads |-> NoRecord]
-----------------------------------------------------------------------------
(***************************************************************************)
(* Creation.  allocate_record and wrap_external begin with reserve_count;  *)
(* import_descriptor charges nothing.  A call refused by the count quota   *)
(* is no step.                                                             *)
(***************************************************************************)
NewRecord(k, n, d, b, pooled) ==
  [kind |-> k, ns |-> n, domain |-> d, other |-> d, size |-> b, bytes |-> b,
   native |-> k = "runtime", pooled |-> pooled, last_owner |-> NoNamespace]

reserve_count(t, r, next) ==
  /\ pc[t] = "idle" /\ r.kind \in Kinds /\ Room
  /\ CountQuota[r.ns] = 0 \/ allocs[r.ns] < CountQuota[r.ns]
  /\ allocs' = [allocs EXCEPT ![r.ns] = @ + 1]
  /\ rec' = [rec EXCEPT ![t] = r]
  /\ pc' = [pc EXCEPT ![t] = next]
  /\ UNCHANGED <<reserved, committed, poolVars, buffers, heap>>

allocate_record(t) ==
  \E n \in Namespaces, d \in Domains, b \in Sizes, pooled \in BOOLEAN :
    reserve_count(t, NewRecord("runtime", n, d, b, pooled), "reserve_amount")

\* An ADOPTED wrap; a SHARED one is accounted in the same way.
wrap_external(t) ==
  \E k \in {"borrowed", "adopted"}, d \in Domains, b \in Sizes :
    reserve_count(t, NewRecord(k, Default, d, b, FALSE), "register_control")

import_descriptor(t) ==
  /\ pc[t] = "idle" /\ "imported" \in Kinds /\ Room
  /\ \E n \in Namespaces, d \in Domains \cap {"SHARED_HOST", "MMAP_STORAGE"}, b \in Sizes :
       rec' = [rec EXCEPT ![t] = NewRecord("imported", n, d, b, FALSE)]
  /\ pc' = [pc EXCEPT ![t] = "register_control"]
  /\ UNCHANGED <<ledger, poolVars, buffers, heap>>

\* The CUDA domains ask the driver on every call and report 0 when it fails.
cuda_capacity(d) == {total_capacity[d]} \cup {n \in {0} : "capacity" \in Faults}

\* What IDomain::capacity may report; shared memory and files are constructed
\* with the configured cap.
capacity(d) ==
  CASE d = "HOST" -> {total_capacity[d]}
    [] d \in {"DEVICE", "PINNED_HOST"} -> cuda_capacity(d)
    [] OTHER -> {config_cap[d]}

\* The configured cap, unless the backend has less; 0 is not known.
capacity_for(configured, total) ==
  IF configured # 0 /\ (total = 0 \/ configured < total) THEN configured ELSE total

\* What the cap of a domain may be for one call; 0 is unlimited.
cap_for(d) == {capacity_for(config_cap[d], total) : total \in capacity(d)}

\* A test that overlooks what other allocations have reserved.
Admitted_past_reservations(a, b, cap) ==
  Within(cap, committed[a] + b) /\ Within(Quota[a], committed[a] + b)

\* The cap and domain_quota bound what the requesting namespace holds.
Admitted(a, b, cap) ==
  /\ Within(cap, committed[a] + reserved[a] + b)
  /\ Within(Quota[a], committed[a] + reserved[a] + b)

\* A rejection that forgets the count taken before.
reserve_amount_keeping_count(t) ==
  /\ pc[t] = "reserve_amount"
  /\ \E cap \in cap_for(rec[t].domain) :
       IF Admitted(Account(rec[t]), rec[t].bytes, cap)
         THEN /\ reserved' = [reserved EXCEPT ![Account(rec[t])] = @ + rec[t].bytes]
              /\ Goto(t, IF rec[t].pooled /\ Pooling THEN "pool_take" ELSE "allocate")
         ELSE Done(t) /\ UNCHANGED reserved
  /\ UNCHANGED <<committed, allocs, poolVars, buffers, heap>>

reserve_amount(t) ==
  /\ pc[t] = "reserve_amount"
  /\ \E cap \in cap_for(rec[t].domain) :
       IF Admitted(Account(rec[t]), rec[t].bytes, cap)
         THEN /\ reserved' = [reserved EXCEPT ![Account(rec[t])] = @ + rec[t].bytes]
              /\ Goto(t, IF rec[t].pooled /\ Pooling THEN "pool_take" ELSE "allocate")
         ELSE Goto(t, "release_count") /\ UNCHANGED reserved
  /\ UNCHANGED <<committed, allocs, poolVars, buffers, heap>>

\* Taking a slot without counting its bytes out.
take_uncounted(i) ==
  /\ pool' = RemoveAt(pool, i)
  /\ pool_object_count' = Minus(pool_object_count, 1)
  /\ UNCHANGED <<pool_idle_bytes, pool_mtx>>

take(i) ==
  /\ pool' = RemoveAt(pool, i)
  /\ pool_object_count' = Minus(pool_object_count, 1)
  /\ pool_idle_bytes' = Minus(pool_idle_bytes, pool[i].bytes)
  /\ UNCHANGED pool_mtx

\* The first idle slot that is large enough, if there is one.  What
\* checkout_amount then adds is in no variable kept here.
pool_take(t) ==
  /\ pc[t] = "pool_take"
  /\ pool_mtx = NoThread
  /\ LET fits == {i \in DOMAIN pool : /\ pool[i].domain = rec[t].domain
                                   /\ pool[i].bytes >= rec[t].bytes}
     IN \/ /\ fits = {}
           /\ Goto(t, "allocate")
           /\ UNCHANGED poolVars
        \/ \E i \in fits :
             /\ \A j \in fits : i <= j
             /\ take(i)
             /\ rec' = [rec EXCEPT ![t].bytes = pool[i].bytes,
                                   ![t].last_owner = pool[i].last_owner]
             /\ pc' = [pc EXCEPT ![t] = "zero"]
  /\ UNCHANGED <<ledger, buffers, heap>>

\* MemoryDomain::allocate of the backend.
allocate(t) ==
  /\ pc[t] = "allocate"
  /\ \/ /\ heap[rec[t].domain] + rec[t].bytes <= Memory
        /\ heap' = [heap EXCEPT ![rec[t].domain] = @ + rec[t].bytes]
        /\ Goto(t, "commit_amount")
     \/ /\ "allocate" \in Faults \/ heap[rec[t].domain] + rec[t].bytes > Memory
        /\ Goto(t, "unreserve_amount")
        /\ UNCHANGED heap
  /\ UNCHANGED <<ledger, poolVars, buffers>>

\* commit_amount, where the reservation is there.
Converted(a, b) ==
  /\ reserved[a] >= b
  /\ reserved' = [reserved EXCEPT ![a] = @ - b]
  /\ committed' = [committed EXCEPT ![a] = @ + b]

\* A reservation mismatch frees the backing again.
commit_amount(t) ==
  /\ pc[t] = "commit_amount"
  /\ LET a == Account(rec[t])
         b == rec[t].bytes
     IN \/ /\ Converted(a, b)
           /\ Goto(t, "zero")
           /\ UNCHANGED heap
        \/ /\ reserved[a] < b
           /\ heap' = [heap EXCEPT ![rec[t].domain] = @ - b]
           /\ Goto(t, "unreserve_amount")
           /\ UNCHANGED <<reserved, committed>>
  /\ UNCHANGED <<allocs, poolVars, buffers>>

\* A roll-back that returns the reservation twice.
unreserve_twice(t) ==
  /\ pc[t] = "unreserve_amount"
  /\ reserved' = [reserved EXCEPT ![Account(rec[t])] = Minus(@, 2 * rec[t].bytes)]
  /\ Goto(t, "release_count")
  /\ UNCHANGED <<committed, allocs, poolVars, buffers, heap>>

\* On the way out of a failed allocation or commit.
unreserve_amount(t) ==
  /\ pc[t] = "unreserve_amount"
  /\ reserved' = [reserved EXCEPT ![Account(rec[t])] = Minus(@, rec[t].bytes)]
  /\ Goto(t, "release_count")
  /\ UNCHANGED <<committed, allocs, poolVars, buffers, heap>>

FromPool(r) == r.last_owner # NoNamespace

\* The policy zp is the request's or the namespace's.
want_zero(zp, r) ==
  \/ zp \in {"ON_ALLOCATE", "ALWAYS"}
  \/ zp = "ON_CROSS_OWNER_REUSE" /\ FromPool(r) /\ r.last_owner # r.ns

zero(t) ==
  /\ pc[t] = "zero"
  /\ \/ Goto(t, "register_control")
     \/ /\ "zero" \in Faults /\ \E zp \in Policies : want_zero(zp, rec[t])
        /\ Goto(t, IF FromPool(rec[t]) THEN "abandon" ELSE "undo_zero")
  /\ UNCHANGED <<ledger, poolVars, buffers, heap>>

\* The roll-back of a fresh backing that could not be zeroed: the reservation
\* (already committed) is taken back, the backing freed, the count released.
undo_zero(t) ==
  /\ pc[t] = "undo_zero"
  /\ reserved' = [reserved EXCEPT ![Account(rec[t])] = Minus(@, rec[t].bytes)]
  /\ heap' = [heap EXCEPT ![rec[t].domain] = @ - rec[t].bytes]
  /\ Goto(t, "release_count")
  /\ UNCHANGED <<committed, allocs, poolVars, buffers>>

\* The roll-back of a pooled backing: the ledger alone.
abandon(t) ==
  /\ pc[t] = "abandon"
  /\ committed' = [committed EXCEPT ![Account(rec[t])] = Minus(@, rec[t].bytes)]
  /\ Done(t)
  /\ UNCHANGED <<reserved, allocs, poolVars, buffers, heap>>

\* last_owner is a local of allocate_record, and other of migrate: not kept.
PutBack(t) ==
  /\ \E s \in Slots \ Used :
       buffers' = [buffers EXCEPT ![s] = [rec[t] EXCEPT !.last_owner = NoNamespace,
                                                        !.other = rec[t].domain]]
  /\ Done(t)

register_control(t) ==
  /\ pc[t] = "register_control"
  /\ PutBack(t)
  /\ UNCHANGED <<ledger, poolVars, heap>>
-----------------------------------------------------------------------------
(***************************************************************************)
(* Finalization of a buffer whose last reference was dropped.              *)
(***************************************************************************)
\* Record::pool_eligible, and the rest of finalize's condition.
pool_eligible(r) ==
  r.kind = "runtime" /\ r.pooled /\ Pooling /\ r.size >= min_class_size

\* The caller's memory, and an imported mapping, were not handed out by the
\* backend's allocate.
BytesFreed(r) == IF r.native THEN r.bytes ELSE 0

\* Pool it, forget it, or free it.
finalize(t, s) ==
  /\ pc[t] = "idle"
  /\ buffers[s] # NoRecord
  /\ buffers' = [buffers EXCEPT ![s] = NoRecord]
  /\ rec' = [rec EXCEPT ![t] = buffers[s]]
  /\ LET r == buffers[s]
     IN \/ /\ pool_eligible(r)
           /\ pc' = [pc EXCEPT ![t] = "pool_put"]
           /\ UNCHANGED heap
        \/ /\ r.kind = "borrowed"
           /\ pc' = [pc EXCEPT ![t] = "release_count"]
           /\ UNCHANGED heap
        \/ /\ ~pool_eligible(r) /\ r.kind # "borrowed"
           /\ heap' = [heap EXCEPT ![r.domain] = @ - BytesFreed(r)]
           /\ pc' = [pc EXCEPT ![t] = "free_accounting"]
  /\ UNCHANGED <<ledger, poolVars>>

\* A limit that is off by one.
PoolFull_one_more(b) ==
  pool_object_count > max_objects \/ pool_idle_bytes + b > max_idle_bytes

PoolFull(b) ==
  pool_object_count >= max_objects \/ pool_idle_bytes + b > max_idle_bytes

\* Keep the backing, still committed (release_amount with pooled = true), or
\* evict it when the pool is full.
pool_put(t) ==
  /\ pc[t] = "pool_put"
  /\ pool_mtx = NoThread
  /\ IF PoolFull(rec[t].bytes)
       THEN /\ heap' = [heap EXCEPT ![rec[t].domain] = @ - rec[t].bytes]
            /\ Goto(t, "free_accounting")
            /\ UNCHANGED poolVars
       ELSE /\ pool' = Append(pool, [bytes |-> rec[t].bytes, domain |-> rec[t].domain,
                                     last_owner |-> rec[t].ns])
            /\ pool_object_count' = pool_object_count + 1
            /\ pool_idle_bytes' = pool_idle_bytes + rec[t].bytes
            /\ Goto(t, "release_count")
            /\ UNCHANGED <<pool_mtx, heap>>
  /\ UNCHANGED <<ledger, buffers>>

free_accounting(t) ==
  /\ pc[t] = "free_accounting"
  /\ committed' = [committed EXCEPT ![Account(rec[t])] = Minus(@, rec[t].bytes)]
  /\ Goto(t, "release_count")
  /\ UNCHANGED <<reserved, allocs, poolVars, buffers, heap>>

\* The last step of finalize and of a failed creation.
release_count(t) ==
  /\ pc[t] = "release_count"
  /\ allocs' = [allocs EXCEPT ![rec[t].ns] = Minus(@, 1)]
  /\ Done(t)
  /\ UNCHANGED <<reserved, committed, poolVars, buffers, heap>>

pool_trim(t) ==
  /\ pc[t] = "idle" /\ pool # <<>>
  /\ pool_mtx = NoThread
  /\ pool_mtx' = t
  /\ Goto(t, "trim")
  /\ UNCHANGED <<ledger, pool, pool_object_count, pool_idle_bytes, buffers, heap>>

\* One turn of pool_trim's loop, or its end.
trim(t) ==
  /\ pc[t] = "trim"
  /\ \/ /\ pool # <<>>
        /\ LET slot == Head(pool)
               a == <<slot.last_owner, slot.domain>>
           IN /\ heap' = [heap EXCEPT ![slot.domain] = @ - slot.bytes]
              /\ committed' = [committed EXCEPT ![a] = Minus(@, slot.bytes)]
              /\ pool_object_count' = Minus(pool_object_count, 1)
              /\ pool_idle_bytes' = Minus(pool_idle_bytes, slot.bytes)
        /\ pool' = Tail(pool)
        /\ UNCHANGED <<pool_mtx, pc, rec>>
     \/ /\ pool = <<>>
        /\ pool_mtx' = NoThread
        /\ Done(t)
        /\ UNCHANGED <<committed, pool, pool_object_count,
                       pool_idle_bytes, heap>>
  /\ UNCHANGED <<reserved, allocs, buffers>>
-----------------------------------------------------------------------------
(***************************************************************************)
(* RuntimeImpl::migrate, which holds the buffer's ctl->mtx throughout.     *)
(***************************************************************************)
\* A call that is refused, for the state of the buffer or by reserve_amount,
\* is no step.
migrate(t, s) ==
  /\ pc[t] = "idle"
  /\ buffers[s] # NoRecord /\ buffers[s].kind \in Migrated
  /\ \E target \in Domains \ {buffers[s].domain} :
       LET r == [buffers[s] EXCEPT !.other = target]
       IN /\ \E cap \in cap_for(target) : Admitted(OtherAccount(r), r.bytes, cap)
          /\ reserved' = [reserved EXCEPT ![OtherAccount(r)] = @ + r.bytes]
          /\ rec' = [rec EXCEPT ![t] = r]
  /\ buffers' = [buffers EXCEPT ![s] = NoRecord]
  /\ pc' = [pc EXCEPT ![t] = "migrate_allocate"]
  /\ UNCHANGED <<committed, allocs, poolVars, heap>>

migrate_allocate(t) ==
  /\ pc[t] = "migrate_allocate"
  /\ LET d == rec[t].other
     IN \/ /\ heap[d] + rec[t].bytes <= Memory
           /\ heap' = [heap EXCEPT ![d] = @ + rec[t].bytes]
           /\ Goto(t, "migrate_copy")
        \/ /\ "allocate" \in Faults \/ heap[d] + rec[t].bytes > Memory
           /\ Goto(t, "migrate_unreserve")
           /\ UNCHANGED heap
  /\ UNCHANGED <<ledger, poolVars, buffers>>

\* tdom->free(newbacking) and out, with the unreserve_amount to come.
Discard(t) ==
  /\ heap' = [heap EXCEPT ![rec[t].other] = @ - rec[t].bytes]
  /\ Goto(t, "migrate_unreserve")

\* An error path that leaves the new backing behind.
migrate_copy_leaking(t) ==
  /\ pc[t] = "migrate_copy"
  /\ \/ Goto(t, "migrate_commit")
     \/ "copy" \in Faults /\ Goto(t, "migrate_unreserve")
  /\ UNCHANGED <<ledger, poolVars, buffers, heap>>

\* copy_memory.
migrate_copy(t) ==
  /\ pc[t] = "migrate_copy"
  /\ \/ Goto(t, "migrate_commit") /\ UNCHANGED heap
     \/ "copy" \in Faults /\ Discard(t)
  /\ UNCHANGED <<ledger, poolVars, buffers>>

migrate_commit(t) ==
  /\ pc[t] = "migrate_commit"
  /\ LET a == OtherAccount(rec[t])
     IN \/ Converted(a, rec[t].bytes) /\ Goto(t, "migrate_verify") /\ UNCHANGED heap
        \/ reserved[a] < rec[t].bytes /\ Discard(t) /\ UNCHANGED <<reserved, committed>>
  /\ UNCHANGED <<allocs, poolVars, buffers>>

\* verify synchronizes a device and cannot fail in another domain.  A failure
\* leaves the new bytes committed; after a success the binding is swapped and
\* the old backing freed, the caller's memory included.
migrate_verify(t) ==
  /\ pc[t] = "migrate_verify"
  /\ LET r == rec[t]
     IN \/ /\ rec' = [rec EXCEPT ![t] = [r EXCEPT !.domain = r.other, !.other = r.domain,
                                                  !.native = TRUE, !.pooled = FALSE]]
           /\ heap' = [heap EXCEPT ![r.domain] = @ - BytesFreed(r)]
           /\ pc' = [pc EXCEPT ![t] = "migrate_free"]
        \/ "verify" \in Faults /\ r.other = "DEVICE" /\ Discard(t)
  /\ UNCHANGED <<ledger, poolVars, buffers>>

\* A roll-back that returns the reservation to the wrong domain.
migrate_unreserve_source(t) ==
  /\ pc[t] = "migrate_unreserve"
  /\ reserved' = [reserved EXCEPT ![Account(rec[t])] = Minus(@, rec[t].bytes)]
  /\ PutBack(t)
  /\ UNCHANGED <<committed, allocs, poolVars, heap>>

\* The way out of a failed migration: the buffer is as it was.
migrate_unreserve(t) ==
  /\ pc[t] = "migrate_unreserve"
  /\ reserved' = [reserved EXCEPT ![OtherAccount(rec[t])] = Minus(@, rec[t].bytes)]
  /\ PutBack(t)
  /\ UNCHANGED <<committed, allocs, poolVars, heap>>

\* An accounting of the old backing after the swap, in the new domain.
migrate_free_target(t) ==
  /\ pc[t] = "migrate_free"
  /\ committed' = [committed EXCEPT ![Account(rec[t])] = Minus(@, rec[t].bytes)]
  /\ PutBack(t)
  /\ UNCHANGED <<reserved, allocs, poolVars, heap>>

\* free_accounting of the old domain, whoever owned the backing.
migrate_free(t) ==
  /\ pc[t] = "migrate_free"
  /\ committed' = [committed EXCEPT ![OtherAccount(rec[t])] = Minus(@, rec[t].bytes)]
  /\ PutBack(t)
  /\ UNCHANGED <<reserved, allocs, poolVars, heap>>
-----------------------------------------------------------------------------
Start(t) ==
  \/ allocate_record(t) \/ wrap_external(t) \/ import_descriptor(t) \/ pool_trim(t)
  \/ \E s \in Slots : finalize(t, s) \/ migrate(t, s)

Continue(t) ==
  \/ reserve_amount(t) \/ pool_take(t) \/ allocate(t)
  \/ commit_amount(t) \/ unreserve_amount(t) \/ zero(t) \/ undo_zero(t)
  \/ abandon(t) \/ register_control(t) \/ pool_put(t)
  \/ free_accounting(t) \/ release_count(t) \/ trim(t)
  \/ migrate_allocate(t) \/ migrate_copy(t) \/ migrate_commit(t)
  \/ migrate_verify(t) \/ migrate_unreserve(t) \/ migrate_free(t)

Next == \E t \in Threads : Start(t) \/ Continue(t)

Spec == Init /\ [][Next]_vars
-----------------------------------------------------------------------------
(***************************************************************************)
(* Properties.                                                             *)
(***************************************************************************)
Total(S, weight(_)) == MapThenSumSet(weight, S)

MigrateSteps == {"migrate_allocate", "migrate_copy", "migrate_commit",
                 "migrate_verify", "migrate_unreserve", "migrate_free"}

\* Threads whose record has a backing that the ledger has charged, and those
\* that hold a reservation for it.
ChargedSteps == {"zero", "register_control", "pool_put"} \cup MigrateSteps
ReservedSteps == {"pool_take", "allocate", "commit_amount", "unreserve_amount"}

\* Likewise for the other account of a migration.
OtherChargedSteps == {"migrate_verify", "migrate_free"}
OtherReservedSteps == {"migrate_allocate", "migrate_copy", "migrate_commit",
                       "migrate_unreserve"}

BytesOf(S) == Total(S, LAMBDA s : buffers[s].bytes)
ThreadBytes(T) == Total(T, LAMBDA t : rec[t].bytes)
At(steps) == {t \in Threads : pc[t] \in steps /\ rec[t].kind = "runtime"}
BytesAt(steps, a) == ThreadBytes({t \in At(steps) : Account(rec[t]) = a})
OtherBytesAt(steps, a) == ThreadBytes({t \in At(steps) : OtherAccount(rec[t]) = a})
BytesPooled(S) == Total(S, LAMBDA i : pool[i].bytes)
Idle(a) == {i \in DOMAIN pool : <<pool[i].last_owner, pool[i].domain>> = a}
Runtime(a) == {s \in Used : buffers[s].kind = "runtime" /\ Account(buffers[s]) = a}
Quiet == Used = {} /\ Busy = {} /\ pool = <<>>

\* reserve_amount admits only what the cap and the quota leave over, and
\* commit_amount only converts: no interleaving of the two halves, of pool
\* traffic, of migrations or of failures takes a namespace's ledger in a
\* domain beyond its limits.  The cap is asked for anew by every call, and the
\* answer of a CUDA domain may change: what holds throughout is the largest
\* cap that the domain may have, which a failing query raises to the
\* configured one and, where none is configured, lifts (cap_for has a 0).
WithinQuota ==
  \A a \in Accounts :
    /\ \E cap \in cap_for(a[2]) : Within(cap, committed[a] + reserved[a])
    /\ Within(Quota[a], committed[a] + reserved[a])

\* A namespace is charged in a domain for exactly the backings it holds there:
\* its buffers, the ones being created or released, and its idle slots
\* ("Pooled memory is counted as committed", docs/MEMORY_DOMAINS.md).  During
\* a migration it is charged in both domains.
CommittedExact ==
  \A a \in Accounts :
    committed[a] = BytesOf(Runtime(a)) + BytesPooled(Idle(a))
                   + BytesAt(ChargedSteps \cup {"free_accounting"}, a)
                   + OtherBytesAt(OtherChargedSteps, a)

\* reserved is exactly what allocations and migrations under way have reserved
\* and not yet committed or returned ("reservation/commit is symmetric on
\* every path", docs/TESTING.md).
ReservedExact ==
  \A a \in Accounts :
    reserved[a] = BytesAt(ReservedSteps, a) + OtherBytesAt(OtherReservedSteps, a)

\* The reservation a thread made is still there when it commits: the error
\* "commit: reservation mismatch" of commit_amount does not happen.
ReservationHeld ==
  \A t \in Threads :
    /\ pc[t] = "commit_amount" => reserved[Account(rec[t])] >= rec[t].bytes
    /\ pc[t] = "migrate_commit" => reserved[OtherAccount(rec[t])] >= rec[t].bytes

\* ns_allocs_ is the number of buffers of the namespace, with those being
\* created, migrated or released: what allocation_count_quota is compared with.
AllocsExact ==
  \A n \in Namespaces :
    allocs[n] = Cardinality({s \in Used : buffers[s].ns = n})
                + Cardinality({t \in Busy : pc[t] # "trim" /\ rec[t].ns = n})

\* Every byte that a domain's backend has handed out belongs to a buffer, to
\* an idle slot or to a call under way: the roll-backs of allocate_record and
\* migrate, evictions and pool_trim lose none and free none twice.
NoBackingLost ==
  \A d \in Domains :
    heap[d] = BytesOf({s \in Used : buffers[s].kind = "runtime" /\ buffers[s].domain = d})
              + BytesPooled({i \in DOMAIN pool : pool[i].domain = d})
              + ThreadBytes({t \in At(ChargedSteps \cup {"commit_amount", "undo_zero", "abandon"}) :
                               rec[t].domain = d})
              + ThreadBytes({t \in At({"migrate_copy", "migrate_commit", "migrate_verify"}) :
                               rec[t].other = d})

\* pool_object_count_ and pool_idle_bytes_ describe the deque, also in the
\* middle of pool_trim: none of the clamps in pool_take and pool_trim bites.
PoolExact ==
  /\ pool_object_count = Len(pool)
  /\ pool_idle_bytes = BytesPooled(DOMAIN pool)

\* "Pool size never exceeds max_objects or max_idle_bytes" (docs/DESIGN.md).
PoolBounded ==
  /\ Len(pool) <= max_objects
  /\ BytesPooled(DOMAIN pool) <= max_idle_bytes
-----------------------------------------------------------------------------
(***************************************************************************)
(* What the documents and tests say and the code does not do (README).     *)
(***************************************************************************)
\* "allocation_count_quota limits the number of live allocations in the
\* namespace" (docs/MEMORY_DOMAINS.md).
LiveWithinCountQuota ==
  \A n \in Namespaces :
    Within(CountQuota[n], Cardinality(UNION {Runtime(<<n, d>>) : d \in Domains}))

\* "The cap applies per domain across all namespaces" (docs/MEMORY_DOMAINS.md):
\* the bytes obtained from the backend and committed stay below the cap.
DomainWithinCap ==
  \A d \in Domains : \E cap \in cap_for(d) :
    Within(cap, Total(Namespaces, LAMBDA n : committed[<<n, d>>]))

\* A namespace never holds more runtime memory than its quota ("an allocation
\* never exceeds a cap or quota", docs/TESTING.md).
HeldWithinQuota == \A a \in Accounts : Within(Quota[a], BytesOf(Runtime(a)))

\* "release everything, trim pool, accounting returns to baseline"
\* (tests/test_property.cpp), for the bytes that stats reports.
CommittedReturns == Quiet => \A a \in Accounts : committed[a] = 0
=============================================================================
