------------------------------- MODULE Reuse -------------------------------
(***************************************************************************)
(* Which memory a request gets: validate_request, size classes and pool    *)
(* keys, reuse of a slot under its key, the zeroing policies, migration to *)
(* another domain, and the byte ranges that views, copies and the backends *)
(* then touch.                                                             *)
(*                                                                         *)
(* An operation is one step: it has one section under pool_mtx_ (or the    *)
(* buffer's mutex) and otherwise works on a backing that only its thread   *)
(* holds, so operations of several threads take effect in the order of     *)
(* those sections.  The ledger is in Accounting, the lifetime of a buffer  *)
(* in BufferControl.  A request that is refused changes nothing here and   *)
(* is no step.  The backend and device of PoolKey follow from the domain.  *)
(***************************************************************************)
EXTENDS CheckedMath, Sequences, FiniteSets, SequencesExt

CONSTANTS
  Namespaces,          \* registered namespaces
  Handles,             \* bound: at most this many buffers at a time
  Domains,             \* enabled domains
  Sizes, Alignments,   \* what requests ask for
  Exportable, Pooled,  \* the flags of requests
  Overrides,           \* AllocationRequest::zeroing: {} or {policy}
  zeroing,             \* NamespaceConfig::zeroing
  MaxSize,             \* 2^48 in validate_request
  MaxAlignment,        \* 4096 in validate_request
  preferred_alignment, \* of each backend
  kDefaultAlignment,   \* 64
  kWord,               \* sizeof(void*), the least alignment of the host backend
  kCudaAlignment,      \* 256, what cudaMalloc and cudaHostAlloc guarantee
  kPage,               \* what MapViewOfFile guarantees
  kMinClass, kMaxClass,   \* the defaults of size_class_for: 4096 and 256 MiB
  pool_cfg,            \* PoolConfig
  ZeroFails            \* whether a backend's zero may fail

Policies == {"NEVER", "ON_ALLOCATE", "ON_RELEASE", "ON_CROSS_OWNER_REUSE", "ALWAYS"}

ASSUME RequestAssumption ==
  /\ Sizes \subseteq SizeT /\ Alignments \subseteq SizeT
  /\ MaxSize \in SizeT /\ MaxAlignment \in SizeT /\ kDefaultAlignment \in SizeT
  /\ preferred_alignment \in [Domains -> SizeT]

ASSUME PolicyAssumption ==
  /\ zeroing \in [Namespaces -> Policies]
  /\ Overrides \subseteq {{}} \cup {{p} : p \in Policies}

\* What the allocators guarantee are powers of two, and a page is aligned as
\* strictly as a request may ask.
ASSUME AlignmentAssumption ==
  /\ {kWord, kCudaAlignment, kPage} \subseteq Nat
  /\ \A g \in {kWord, kCudaAlignment, kPage}, al \in SizeT :
       PowerOfTwo(al) /\ al <= g => g % al = 0
  /\ MaxAlignment <= kPage

Record ==
  [ns : Namespaces, domain : Domains, size : SizeT, alignment : SizeT,
   exportable : Exportable, pooled : Pooled, policy : Policies,
   pool_eligible : BOOLEAN, committed : SizeT,
   aligned : Nat,                 \* what the address is a multiple of
   bytes : SUBSET Namespaces]     \* whose bytes it may show, of those that came
                                  \* through the pool or were written since

VARIABLES
  pool,      \* pool_: the idle slots, oldest first
  buffers,   \* the registered buffers, a function on a subset of Handles
  lax        \* history: namespaces that had a buffer which may show old bytes

vars == <<pool, buffers, lax>>

Live == DOMAIN buffers

Init ==
  /\ pool = <<>>
  /\ buffers = [h \in {} |-> 0]
  /\ lax = {}
-----------------------------------------------------------------------------
(***************************************************************************)
(* Requests.                                                               *)
(***************************************************************************)
\* A loop that also doubles a class that is just large enough.
size_class_for_past(cfg, bytes) ==
  LET min == IF cfg.min_class_size # 0 THEN cfg.min_class_size ELSE kMinClass
      max == IF cfg.max_class_size # 0 THEN cfg.max_class_size ELSE kMaxClass
      cls[c \in SizeT] ==
        IF c <= bytes /\ c < max THEN cls[(2 * c) % (kMaxSizeT + 1)] ELSE c
  IN cls[min]

\* while (cls < bytes && cls < max) cls <<= 1;
size_class_for(cfg, bytes) ==
  LET min == IF cfg.min_class_size # 0 THEN cfg.min_class_size ELSE kMinClass
      max == IF cfg.max_class_size # 0 THEN cfg.max_class_size ELSE kMaxClass
      cls[c \in SizeT] ==
        IF c < bytes /\ c < max THEN cls[(2 * c) % (kMaxSizeT + 1)] ELSE c
  IN cls[min]

alignment_of(domain, requested) ==
  IF requested # 0 THEN requested
  ELSE IF preferred_alignment[domain] # 0 THEN preferred_alignment[domain]
  ELSE kDefaultAlignment

\* The size to allocate; none if the request is refused.
validate_request(size, alignment) ==
  IF size = 0 \/ size > MaxSize \/ alignment > MaxAlignment THEN {}
  ELSE align_up(size, alignment)

\* A key that leaves the alignment out.
make_pool_key_any_alignment(r) ==
  [domain |-> r.domain, size_class |-> size_class_for(pool_cfg, r.size),
   alignment |-> 1, exportable |-> r.exportable]

make_pool_key(r) ==
  [domain |-> r.domain, size_class |-> size_class_for(pool_cfg, r.size),
   alignment |-> IF r.alignment # 0 THEN r.alignment ELSE 1,
   exportable |-> r.exportable]

pool_eligible(size) ==
  /\ pool_cfg.enabled
  /\ size >= pool_cfg.min_class_size
  /\ size_class_for(pool_cfg, size) <= pool_cfg.max_class_size

\* Every slot of the bucket.
Fits_bucket(key, min_committed) == {i \in DOMAIN pool : pool[i].key = key}

\* The slots that are large enough, of which pool_take returns the oldest.
Fits(key, min_committed) ==
  {i \in DOMAIN pool : pool[i].key = key /\ pool[i].committed >= min_committed}

CudaDomains == {"DEVICE", "PINNED_HOST"}

\* What the address that a backend's allocate returns is a multiple of.
address_alignment(domain, alignment) ==
  IF domain \in CudaDomains THEN kCudaAlignment
  ELSE IF domain = "HOST" THEN (IF alignment < kWord THEN kWord ELSE alignment)
  ELSE kPage

\* A policy that trusts what it finds in the pool.
want_zero_never(zp, ns, last_owner) == zp \in {"ON_ALLOCATE", "ALWAYS"}

\* last_owner is empty for a fresh backing.
want_zero(zp, ns, last_owner) ==
  \/ zp \in {"ON_ALLOCATE", "ALWAYS"}
  \/ zp = "ON_CROSS_OWNER_REUSE" /\ \E o \in last_owner : o # ns
-----------------------------------------------------------------------------
(***************************************************************************)
(* Operations.                                                             *)
(***************************************************************************)
SetBuffer(h, r) ==
  buffers' = [k \in Live \cup {h} |-> IF k = h THEN r ELSE buffers[k]]

\* The backing is zeroed if the policy asks for it, and the buffer registered.
\* When zeroing fails there is no buffer; a slot of the pool is lost.
register(h, r, last_owner) ==
  \/ /\ IF want_zero(r.policy, r.ns, last_owner)
          THEN SetBuffer(h, [r EXCEPT !.bytes = {}])
          ELSE SetBuffer(h, r)
     /\ lax' = IF r.policy \in {"NEVER", "ON_RELEASE"} THEN lax \cup {r.ns} ELSE lax
  \/ /\ ZeroFails
     /\ want_zero(r.policy, r.ns, last_owner)
     /\ last_owner # {}
     /\ UNCHANGED <<buffers, lax>>

\* The record of a request on a fresh backing.
NewRecord(ns, domain, size, alignment, exportable, pooled, policy, class_size) ==
  [ns |-> ns, domain |-> domain, size |-> size, alignment |-> alignment,
   exportable |-> exportable, pooled |-> pooled, policy |-> policy,
   pool_eligible |-> pool_eligible(size), committed |-> class_size,
   aligned |-> address_alignment(domain, alignment), bytes |-> {}]

allocate_record(h, ns, domain, size, requested, exportable, pooled, override) ==
  /\ h \notin Live
  /\ \E class_size \in validate_request(size, alignment_of(domain, requested)) :
       LET policy == IF override = {} THEN zeroing[ns] ELSE CHOOSE p \in override : TRUE
           r == NewRecord(ns, domain, size, alignment_of(domain, requested),
                          exportable, pooled, policy, class_size)
           fits == IF pooled /\ pool_cfg.enabled
                     THEN Fits(make_pool_key(r), class_size) ELSE {}
       IN \/ /\ fits = {}
             /\ register(h, r, {})
             /\ UNCHANGED pool
          \/ \E i \in fits :
               /\ \A j \in fits : i <= j
               /\ pool' = RemoveAt(pool, i)
               /\ register(h, [r EXCEPT !.committed = pool[i].committed,
                                        !.aligned = pool[i].aligned,
                                        !.bytes = pool[i].bytes],
                           {pool[i].last_owner})

\* The client writes through a map, a view or copy_from.
write(h) ==
  /\ h \in Live
  /\ SetBuffer(h, [buffers[h] EXCEPT !.bytes = @ \cup {buffers[h].ns}])
  /\ UNCHANGED <<pool, lax>>

\* Allocates as much in the target domain, copies, and frees the old backing.
\* A failure on the way leaves the buffer as it was.
migrate(h, target) ==
  /\ h \in Live
  /\ buffers[h].domain # target
  /\ SetBuffer(h, [buffers[h] EXCEPT
                     !.domain = target, !.pool_eligible = FALSE,
                     !.aligned = address_alignment(target, buffers[h].alignment)])
  /\ UNCHANGED <<pool, lax>>

pool_idle_bytes == FoldLeft(LAMBDA n, slot : n + slot.committed, 0, pool)

PoolFull(b) ==
  \/ Len(pool) >= pool_cfg.max_objects
  \/ pool_idle_bytes + b > pool_cfg.max_idle_bytes

\* Into the pool, or freed.  The policy of the namespace, not of the request,
\* decides about zeroing on the way into the pool; a failure is ignored.
finalize(h) ==
  /\ h \in Live
  /\ buffers' = [k \in Live \ {h} |-> buffers[k]]
  /\ UNCHANGED lax
  /\ LET r == buffers[h]
         zeroed == zeroing[r.ns] \in {"ON_RELEASE", "ALWAYS"}
         kept == r.pool_eligible /\ r.pooled /\ ~PoolFull(r.committed)
         Put(bytes) ==
           pool' = Append(pool, [key |-> make_pool_key(r), committed |-> r.committed,
                                 aligned |-> r.aligned, last_owner |-> r.ns,
                                 bytes |-> bytes])
     IN \/ kept /\ zeroed /\ Put({})
        \/ kept /\ (~zeroed \/ ZeroFails) /\ Put(r.bytes)
        \/ ~kept /\ UNCHANGED pool

pool_trim ==
  /\ pool # <<>>
  /\ pool' = <<>>
  /\ UNCHANGED <<buffers, lax>>

Next ==
  \/ pool_trim
  \/ \E h \in Handles :
       \/ write(h)
       \/ finalize(h)
       \/ \E target \in Domains : migrate(h, target)
       \/ \E ns \in Namespaces, domain \in Domains, size \in Sizes, a \in Alignments,
             exportable \in Exportable, pooled \in Pooled, override \in Overrides :
            allocate_record(h, ns, domain, size, a, exportable, pooled, override)

Spec == Init /\ [][Next]_vars
-----------------------------------------------------------------------------
(***************************************************************************)
(* The bytes of the backing that an operation touches once its own tests   *)
(* have let it through.                                                    *)
(***************************************************************************)
Bytes(first, len) == first..(first + len - 1)

view_bytes(r, offset, len) ==
  IF range_in_bounds(offset, len, r.size) /\ len # 0 THEN Bytes(offset, len) ELSE {}

\* The buffer is read from its start, whatever dst_offset is.
copy_to_bytes(r, dst_offset, len) ==
  IF dst_offset <= r.size /\ len <= r.size - dst_offset
     /\ range_in_bounds(0, len, r.committed)
    THEN Bytes(0, len) ELSE {}

copy_from_bytes(r, len) ==
  IF len <= r.size /\ range_in_bounds(0, len, r.committed) THEN Bytes(0, len) ELSE {}

checksum_bytes(r) == Bytes(0, r.size)

\* zero and verify of a backend.
backend_bytes(r, offset, len) ==
  IF within_committed(offset, len, r.committed) THEN Bytes(offset, len) ELSE {}
-----------------------------------------------------------------------------
(***************************************************************************)
(* Properties.                                                             *)
(***************************************************************************)
Backing(r) == 0..(r.committed - 1)

\* Types, and the limits of validate_request.
TypeOK ==
  /\ lax \subseteq Namespaces
  /\ \A i \in DOMAIN pool :
       pool[i].committed \in SizeT /\ pool[i].last_owner \in Namespaces
  /\ \A h \in Live :
       /\ buffers[h] \in Record
       /\ buffers[h].size \in 1..MaxSize
       /\ PowerOfTwo(buffers[h].alignment) /\ buffers[h].alignment <= MaxAlignment

\* Whatever offset and length a client passes, and whether the backing is
\* fresh, migrated, or from a bucket whose class is smaller than the request,
\* a view, a copy, a checksum or a backend operation that is let through
\* touches only bytes of the backing.
RangesInBacking ==
  \A h \in Live :
    LET r == buffers[h]
    IN /\ checksum_bytes(r) \subseteq Backing(r)
       /\ \A len \in SizeT :
            /\ copy_from_bytes(r, len) \subseteq Backing(r)
            /\ \A offset \in SizeT :
                 /\ view_bytes(r, offset, len) \subseteq Backing(r)
                 /\ copy_to_bytes(r, offset, len) \subseteq Backing(r)
                 /\ backend_bytes(r, offset, len) \subseteq Backing(r)

\* A buffer's address is a multiple of its alignment, also after the memory
\* went through the pool or the buffer migrated; the CUDA backends promise it
\* only up to what cudaMalloc guarantees.
AlignmentKept ==
  \A h \in Live :
    \/ buffers[h].aligned % buffers[h].alignment = 0
    \/ buffers[h].domain \in CudaDomains /\ buffers[h].alignment > kCudaAlignment

\* Bytes of another namespace do not reach a buffer through the pool when its
\* policy zeroes every allocation, nor when it zeroes cross-owner reuse and
\* its namespace never had a buffer under a policy that leaves old bytes
\* (such a buffer takes them over and passes them on as its namespace's own),
\* whatever the other namespaces' policies and whichever zeroing failed.
NoForeignBytes ==
  \A h \in Live :
    LET r == buffers[h]
    IN (\/ r.policy \in {"ON_ALLOCATE", "ALWAYS"}
        \/ r.policy = "ON_CROSS_OWNER_REUSE" /\ r.ns \notin lax)
         => r.bytes \subseteq {r.ns}

\* What size_class_for should return: of the powers of two within the limits
\* the least that covers the request, the greatest if none does.
ClassLeast(cfg, bytes) ==
  LET min == IF cfg.min_class_size # 0 THEN cfg.min_class_size ELSE kMinClass
      max == IF cfg.max_class_size # 0 THEN cfg.max_class_size ELSE kMaxClass
      classes == {2^k : k \in 0 .. Width - 1} \cap min .. max
      covering == {c \in classes : c >= bytes}
      cls == size_class_for(cfg, bytes)
  IN /\ cls \in IF covering # {} THEN covering ELSE classes
     /\ \A c \in covering : cls <= c
     /\ covering = {} => \A c \in classes : cls >= c
=============================================================================
