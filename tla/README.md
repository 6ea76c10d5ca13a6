# Unified-Buffer: a TLA+ verification project

This directory models the runtime of Unified-Buffer at the grain of its locks,
checks it with TLC on small instances and proves the central invariants with
TLAPS for every instance. Source paths below are relative to the repository.

## The system

A `Runtime` hands out reference-counted buffers in five memory domains. Client
threads hold handles, leases, maps and views of a buffer; the last one to go
finalizes it. Behind that, a ledger charges bytes and counts to namespaces, a pool
keeps released backings for reuse, and backends obtain memory, shared segments
and files from the system.

### Inventory

| Part | State | Operations | What is hard |
|---|---|---|---|
| Control block (`src/buffer.cpp`, `src/runtime.cpp`) | `refs`, `finalized`, lease counters, `map_count`, `Record` under `ctl->mtx` | share, view, map, leases, copy, their releases | checks under one lock, effects under the next; retain outside the lock |
| Finalization | registry entry, backing | `drop_ref`, `finalize`, `invalidate` | the window between the last decrement and the lock; a lock taken twice |
| Migration | domain, generation, backing | `migrate` | frees a backing that others still use; fails half-way |
| Shutdown | `closed_`, the backends | `shutdown` | buffers in use, calls under way |
| Lifecycle table | `Record::state` | `valid_transition`, direct assignments | one field shared by maps and leases |
| Ledger | `ns_reserved_`, `ns_committed_`, `ns_allocs_` under `ns_mtx_` | reserve, commit, unreserve, free, counts | three critical sections per allocation, roll-backs, clamps |
| Pool | `pool_`, its counters under `pool_mtx_` | take, put, evict, trim | limits; slots of several sizes; slots that change namespace |
| Requests and pool keys | sizes, alignments, classes, contents of a backing | `validate_request`, `size_class_for`, `make_pool_key`, zeroing | rounding at the limits; slots that differ in one bucket; old bytes |
| Export and import (`src/export.cpp`) | descriptors | `export_descriptor`, `import_descriptor`, `lookup` | a descriptor outlives its buffer; imports are charged differently |
| Namespaces, registry | `nss_`, `registry_`, `id_counter_` | `create_namespace`, `namespace_info`, `register_control` | read under one lock, used under the next |
| Telemetry, decision log (`src/stats.cpp`) | plain counters, a bounded deque | `note`, `telemetry` | increments without a lock |
| Checked arithmetic, CRC32C (`core/`) | none | pure functions | the top of the 64-bit range |
| Shared and file backends (`src/backends/`) | names, files, handles, across processes | `allocate`, `import_handle`, `free` | several system calls each; restarts; 32-bit lengths |
| Host and CUDA backends | allocators | allocate, free, zero, map | pure I/O |

`PROJECT.json` lists the parts with what is modelled of each, and the hazards at
the lines where they bite.

## Modules

| Module | Models |
|---|---|
| `Lifecycle` | `BufferState` and the table of `valid_transition` |
| `BufferControl` | one buffer: control block, client objects, calling threads |
| `SharedBuffer` | what a buffer promises: the abstract specification |
| `MCBufferControl` | sets of operations and symmetry for TLC |
| `BufferControlProofs` | theorems about `BufferControl`: counters, leases, state |
| `BufferLifetimeProofs` | theorems about its memory, for every set of operations |
| `BufferReferenceProofs` | theorems about its references, and the refinement of `SharedBuffer` |
| `Accounting` | the ledger of the domains, migration's included, and one bucket of the pool |
| `MCAccounting` | limits and symmetry for TLC |
| `AccountingProofs` | theorems about `Accounting` |
| `CheckedMath` | overflow, rounding and bounds tests over a word of any width |
| `Reuse` | requests, size classes, pool keys, alignment, zeroing and byte ranges |
| `Integrity` | CRC32C and the metadata checksum, with parameterised widths |
| `MCReuse` | small words and messages for TLC, and the algorithms' references |
| `ReuseProofs` | theorems about `Reuse` |
| `Segments`, `MCSegments` | the shared-memory and file backends of several processes |
| `Sums` | lemmas about sums over finite sets |
| `SegmentsProofs` | theorems about `Segments` |
| `Runtime`, `MCRuntime` | namespaces, authorization, registry, identities, shutdown, telemetry, log |
| `RuntimeProofs` | theorems about `Runtime` |

### BufferControl

A step is one section under `Control::mtx`, or one access to an atomic or to
unlocked shared state; `pc[t]` names the next step of thread `t`. Each handle
operation is therefore the unlocked test of `finalized` (`begin`), the locked
test of `validate_alive`, and then its own sections: `view` and `map` read an
address and retain afterwards, `copy` reads an address and uses it outside the
lock, a lease is granted and retained in one section. `finalize` holds `mtx`
over three steps. A release first discards the object (with its counter, if it
has one) and then decrements `refs`.

Data is abstracted: a backing is the generation it was bound at, and `mem` says
whether the memory behind it is live, pooled, freed or freed twice. Sizes,
access modes and checksums never change after creation and are left out. A
`std::mutex` locked twice by one thread (`invalidate_relock`) either waits for
ever or throws, a choice. The client follows the one rule C++ imposes: it
does not destroy a handle another thread is using. The address read by `view` is
the `host_map` of the backing (`HostMap`): none for what the device backend
allocated, the caller's pointer for a wrap. `Ops` has two members for `migrate`,
so that a run can leave out the migration of borrowed buffers alone
(`migrate_borrowed`). Wraps are in `RawDomains`, where a backing is a bare pointer:
a wrapped pointer in a mapped domain has no backend state, and its `free` touches
nothing.

### Accounting

A step is one section under `ns_mtx_` or `pool_mtx_` or one backend call;
`pool_trim` keeps `pool_mtx_` from slot to slot. The ledger is kept per account,
a pair of namespace and domain. `heap` is what each domain's backend has handed
out. Backend calls named in `Faults` may fail. `finalize` is entered once for each
buffer, which is what `BufferControl` is about. `migrate` is six steps: reserve in
the target, allocate, copy, commit, verify and swap, free the old charge. A failed
step frees the new backing, if there is one, and calls `unreserve_amount`, also
when the reservation has been committed by then. The buffer is out of
`buffers` meanwhile, as `ctl->mtx` is held. `ns_allocated_`, `pool_idle_by_domain_`
and the peak are left out because no decision reads them. The one bucket per
domain is that of a pool with `max_class_size = min_class_size`, where
`size_class_for` gives every size the same class.

The cap is asked for by every reservation. `cap_for(d)` is the set of answers it
may get: the configured cap, or less if the backend has less; a CUDA domain whose
driver query fails (`"capacity"` in `Faults`) reports 0, which leaves the
configured cap or, without one, no limit at all. `reserve_amount` and `migrate`
choose one of them. After `shutdown` there is no backend to ask and the cap is 0
too; that race is in `Runtime`, where the call then meets the missing backend.

### Reuse, CheckedMath, Integrity

`Reuse` follows the memory of a request: the arithmetic of `validate_request` on
words of `Width` bits, the size class, the slot that the key finds, the zeroing
policy, and what the address is a multiple of. The contents of a backing are the
set of namespaces whose bytes it may show. Each operation is one step, since its
shared state is touched in one section. The limits of the code (2^48, 4096, 64)
are constants. Views, copies, checksums and the backends' zeroing are functions
from their arguments to the bytes they touch.

`Integrity` translates table, loop and seed of `core/integrity.cpp`; the reference
is long division over GF(2). `MCReuse` checks `align_up` against its bitwise form as
an assumption.

### Segments

Threads of several processes run `allocate`, `import_handle`, `free` and
`export_handle` of the two backends, one system call a step. Any call may fail,
and each error path has its own list of handles to close (`no_file`, `no_seek`,
`no_view`, ...), as have the states that a call stores and the destructors; a
process may end at any step and start again with its counters at zero. What
Windows does is external and stated in the module's head: creating a name that
exists opens it, a mapped file can be neither truncated nor created anew.
`static_cast<DWORD>` is `% DwordLimit`. Names made by `make_unique_name` hold the
start of their process, an assumption on clocks. `MCSegments` lets a behaviour use
one of the two backends, which share no state, and the file backend one thread of
each process, as threads meet there in `file_counter` only.

### Runtime

One runtime's front: `create_namespace`, the two look-ups of `import_descriptor`,
`next_id`, the call through `domain()`, `register_control`, the last release,
`finalize` and `shutdown`, one lock section or unlocked access a step; an import's
test of the backend and its call are two steps. `++telem_.x`
is a load and a store. `late` and `born`, `died`, `noted` are history variables.

### How the modules fit together

They are views of one program at the same grain, cut where the code's state is
disjoint. `Accounting` lets a buffer be finalized at any time, and `BufferControl`
says when; `Reuse` treats the bytes that `Accounting` counts; `Runtime` treats a
buffer as unreferenced outside the window that `BufferControl` refines. Where one
module leaves a choice open the other restricts it. That an invariant of one
therefore holds of the whole is an argument on paper: no module composes them.

## Runs that pass

| Run | Checks | Instance |
|---|---|---|
| `core` | `RefsExact`, `FinalizedUnreferenced`, `NoDanglingPointer`, and `KeepsPromise`: `BufferControl` implements `SharedBuffer` | 2 threads, 3 objects, no migrate, local import, invalidate or shutdown |
| `all` | `TypeOK`, `LeaseExclusion`, `CountersExact`, `StateBacked`, `FreedOnce`, `BorrowedFreedOnlyByMigration`, `LegalMoves`, `DeviceMapIsStale` | 2 threads, 3 objects, every operation, one migration between `DEVICE` and `SHARED_HOST` |
| `live` | `LeakOnlyAfterShutdown`, `CallsReturn`, `LastDropFinalizes` | 2 threads, 2 objects, `HOST`, `DEVICE` and `SHARED_HOST`, everything but `invalidate` and migrating a borrowed buffer |
| `direct` | `ReservedExact`, `AllocsExact` | 2 threads, 2 namespaces, 2 domains, migration, no pool, allocation and copy may fail |
| `pool` | `WithinQuota` | 2 threads, 2 domains, pool, every kind of buffer, migration of owned and borrowed ones, all failures, a device with less memory than its cap |
| `reuse` | `CommittedExact`, `ReservationHeld`, `NoBackingLost`, `PoolExact`, `PoolBounded` | 2 threads, 1 namespace, 2 domains, pool, migration, sizes 1 and 2, allocation and copy may fail |
| `sizes` | `RangesInBacking`, `AlignmentKept`, `NoForeignBytes`, `ClassesLeast`, `ChecksumIsRemainder` | words of 4 bits, 2 namespaces, 2 domains, a pool of 2 slots; messages of up to 4 bytes of 2 bits |
| `segments` | `TypeOK`, `HandlesExact`, `CommittedBacked`, `SegmentsPrivate`, `PathsPrivateInRun` | 2 processes, 3 threads, one restart, sizes below and above the 32-bit limit |
| `runtime` | `TypeOK`, `ImportAuthorized`, `IdsUnique`, `CrashNeedsRace`, `CountersNeverOver`, `LogKeepsNewest`, `RegistryDrains` | 2 threads, 2 namespaces, 2 buffers, a log of 1 + 1 entries |

The properties of `core` need its restriction: each operation it leaves out
breaks one of them: `migrate` the pointers, local import and `shutdown`
`FinalizedUnreferenced`, `invalidate` (its `refs.store(0)`) the reference count.
Likewise `direct` and `reuse` leave out what breaks exactness (imports, failures
of zero and of verify, migration of borrowed buffers, reuse across namespaces);
`pool` has all of it but the second namespace, and the limits hold nevertheless
(for several namespaces by proof). `all` and `live` state for
every operation what remains true where a document promises more: borrowed
memory is freed by migration alone, a device backing is mapped only through a
handle that has become stale, memory is lost only after shutdown: that of a mapped
backing never, since dropping its state closes it, and the caller's own is the
caller's to free. `WithinQuota` names the largest cap that `cap_for` may give, as
a reservation is admitted under the answer it got; the quotas hold as they are.

**Bounds.** `Objects` and `Slots` bound how many objects or buffers exist at
once; calls start only when there is room for what they return (`Room`). Two
threads are enough for every window between two sections, since each window is
one thread's; a third object is needed for two conflicting leases and a handle.
`MaxGen = 2` gives one migration, so stale and current generations coexist.
`Memory` bounds the backend. In `reuse` each limit of the pool bites without the
other (three slots of 1 byte exceed only `max_objects`, two of 2 bytes only
`max_idle_bytes`), and the case "too small, take the next one" is reached; the host
holds 4 bytes, the shared domain has a cap of 3. In
`sizes` the requests lie on both sides of every limit, 15 is the largest word, and
one buffer at a time is enough because a slot connects two owners. `Segments`
bounds names (`MaxCount`), restarts, live backings and descriptors; one restart
makes a counter repeat, and `DwordLimit = 4` is between the two sizes; with one
live backing for each process, the first half of `PathsPrivateInRun` (two file
backings of one process) is shown by proof only. In `runtime` `kLog = 1` fills the
log, and with two buffers both threads create at once; more of them are left to
the proofs. Deadlock is checked in `core`, `live` and the
`Accounting` runs that pass; elsewhere the bounds, `invalidate` or a missing
backend may stop every thread.

**Fairness.** `FairSpec` assumes that a thread inside a call keeps running
(weak fairness of `Continue(t)`), as the operating system's scheduler gives. No
thread has to start a call or to release anything. Weak fairness is enough for
`Control::mtx`: whoever holds it in the model needs nobody else to go on.

## Runs that show a disagreement

Each checks one property stated by a document or comment, and TLC finds a
behaviour of the code that violates it. `PROJECT.json` quotes the lines.

| Run | Shows |
|---|---|
| `import_resurrects` | a local import revives a buffer that is then finalized under it |
| `invalidate_waits` | `invalidate` locks `ctl->mtx` twice and blocks the finalizing thread |
| `reservation_kept` | a pool hit keeps its reservation |

The model shows more of them; these have no run of their own. Each line gives
the property, what makes it fail, and the constants when they differ from those
of the run named in the second column.

| Property | Run | Fails with | Document |
|---|---|---|---|
| `NoDanglingPointer` | `all` | `migrate` and views: the old backing is freed under them (`src/runtime.cpp:735`) | `docs/LIFECYCLE.md:156` |
| `StaleRejected` | `all` | `migrate` between `validate_alive` and the second lock of a lease, map or view (`src/buffer.cpp:134`) | `docs/LIFECYCLE.md:193` |
| `DeviceNotMapped` | `all` | `migrate` to `DEVICE` while `map` is between its check and its lock (`src/buffer.cpp:114`) | `docs/DESIGN.md:231` |
| `BorrowedNeverFreed` | `all` | `migrate` of a borrowed wrap frees the caller's memory (`src/runtime.cpp:735`) | `docs/DESIGN.md:216` |
| `LeakOnlyAfterShutdown` | `live` | `migrate_borrowed`: the buffer stays `BORROWED` with a backing of the runtime's, which `finalize` then drops without freeing it (`src/runtime.cpp:451`) | `docs/LIFECYCLE.md:127` |
| `NoLeakAfterShutdown` | `all` | a handle that outlives `shutdown`: its backend is gone when it drops (`src/runtime.cpp:446`) | `src/runtime.cpp:62` |
| `ShutdownFinalizes` | `all` | `shutdown` with a live handle (`src/runtime.cpp:65`) | `docs/LIFECYCLE.md:145` |
| `DirectAssignmentsLegal` | `all` | `import_shared`: `DECLARED` to `IMPORTED` (`src/export.cpp:88`) | `docs/LIFECYCLE.md:89` |
| `DomainWithinCap` | `direct` | `config_cap <- Cap4`, no quotas: each namespace is compared with the cap alone (`src/runtime.cpp:163`) | `docs/MEMORY_DOMAINS.md:149` |
| `ClassesWithinLimits` | `sizes` | limits that are no powers of two: with a minimum of 5 and a maximum of 6 the class of 6 bytes is 10 (`src/runtime.cpp:245`) | `docs/ARCHITECTURE.md:218` |
| `CommittedReturns` | `reuse` | two namespaces: a reused slot stays charged to its first owner (`src/runtime.cpp:554`) | `tests/test_property.cpp:70` |
| `HeldWithinQuota` | `direct` | imports: their release uncommits what they never committed (`src/runtime.cpp:447`) | `docs/TESTING.md:169` |
| `LiveWithinCountQuota` | `direct` | imports: their release returns a count they never took (`src/runtime.cpp:455`) | `docs/MEMORY_DOMAINS.md:172` |
| `NoBackingLost` | `reuse` | zeroing a pooled backing fails: `Faults = {"zero"}`, policy `ON_ALLOCATE` (`src/runtime.cpp:379`) | `src/runtime.cpp:378` |
| `ReservationHeld` | `direct` | zeroing a fresh backing fails while another thread allocates, same constants (`src/runtime.cpp:379`) | `docs/DESIGN.md:222` |
| `CommittedExact`, `ReservedExact`, `ReservationHeld` | `direct` | `Domains = {"HOST", "DEVICE"}`, `Faults = {"verify"}`: verification fails in `migrate`, after the commit: the bytes stay committed and another reservation is returned (`src/runtime.cpp:717`) | `docs/DESIGN.md:222` |
| `CommittedExact`, `NoBackingLost` | `direct` | `Migrated = {"borrowed"}`: bytes that were never charged are uncommitted, and the new backing is never freed (`src/runtime.cpp:736`) | `docs/DESIGN.md:216` |
| `ReopensExported` | `segments` | a restarted process creates the same path anew (`src/backends/file_backend.cpp:71`) | `docs/INTEROP.md:129` |
| `LogCapped` | `runtime` | the log holds one entry more than its cap (`src/runtime.cpp:675`) | `docs/ARCHITECTURE.md:255` |
| `CountersExactWhenIdle` | `runtime` | two unlocked increments, one lost (`src/runtime.cpp:399`) | `docs/ARCHITECTURE.md:171` |
| `BackendsOutliveCalls` | `runtime` | `shutdown` resets the backend between an allocation's test of `closed()` and its call (`src/runtime.cpp:335`), or between an import's test of the backend and its call (`src/export.cpp:95`) | none |

Smaller ones met on the way: the comment on `add_overflow`
(`include/unified_buffer/core/checked_math.hpp:15`) has its result the wrong way
round; `meta_crc` stays 0 until a migration, so `verify` compares metadata only
after one; the checksum of a descriptor covers the exporter's identity, so an
import nearly always notes a mismatch.

## Proofs

`BufferControlProofs` proves `TypeOK`, `CountersExact`, `LeaseExclusion` and
`StateBacked` invariant for all finite sets of threads and objects, every `Ops`,
every set of domains and every `MaxGen`. The inductive invariant is

    IInv == Types /\ ArgOK /\ Counts /\ LeaseExclusion /\ StateBacked

`LeaseExclusion` alone is not inductive: a lease is granted by looking at
counters, so the counters must be known to be exact (`Counts`); exactness
relates numbers to sets of objects and rests on the cardinality lemmas
(`CountNew`, `CountDiscard`, and `PendingAdd`, `PendingRemove` for maps that are
counted but not yet handed out). `ArgOK` says that a thread in the middle of a
handle operation has an object as its argument. `StateBacked` needs the
counters of both maps and leases, since either may leave the other's state.

`BufferLifetimeProofs` proves `FreedOnce`, `BorrowedFreedOnlyByMigration`,
`LegalMoves` and `DeviceMapIsStale` for every set of operations, from

    LifeInv == IInv /\ Locked /\ Blank /\ MemInv /\ Lost
                 /\ BorrowedFreedOnlyByMigration /\ BorrowedRaw
                 /\ HandlesUsed /\ GensOld /\ MapsOld

That memory is freed once depends on who may free it: the thread that raised
`finalized` and is on its way to release the backing (`Finalizing`), with the lock
(`Locked`: `mtx` is owned by exactly the thread inside `finalize` or `invalidate`),
or a migration, whose old generation is then the past (`Others`) while the
current one is bound and live (`Bound`). `Blank` keeps everybody out before the
buffer exists. `BorrowedRaw` says that a borrowed buffer which has not been migrated
is in a domain that wraps are made in. `MapsOld` is what `map`'s test of the domain leaves behind when
the lock is taken. `BindingSteps` sorts the steps by what they do to the binding,
so that each conjunct meets six cases instead of every action.

`BufferReferenceProofs` proves what needs a restriction on `Ops`, stated as the
theorem's assumption; the runs and the section on disagreements show that each
operation left out does break the property.

- Without `invalidate`: `RefsExact`, from `RefInv == LifeInv /\ OpsPC /\ RefsExact
  /\ Fresh /\ Owed /\ Gone`. `Owed` says that a buffer that is not finalized has a
  client or a thread about to hand it out or to finalize it.
- Without migrating a borrowed buffer either: `LeakOnlyAfterShutdown`, from `RefInv`
  and `LoanKept`: a borrowed buffer keeps generation 1, the caller's memory, and no
  thread is migrating it. Whatever else is left behind at the end was the
  runtime's, and `finalize_release` frees it as long as the backend is there.
- Without local import and `shutdown` either (`Counted`), with migration:
  `FinalizedUnreferenced`, from `FinalInv == RefInv /\ Alone /\ Over`. `Over` says
  that from the moment a thread sets out for `finalize` there is no object and
  every thread is idle, trims the pool or finalizes; exactness of `refs` is what
  makes the last decrement the last one.
- Without migration too: `NoDanglingPointer`, from `FinalInv` and `Unmoved`.
- `ImplementsPromise`: under `Counted` every initial state maps to one of
  `SharedBuffer`, and every step to a step of it or to a stutter. This is
  `KeepsPromise` without its fairness.

`AccountingProofs` proves `TypeOK` and `WithinQuota` for all
namespaces, domains, sizes, limits, faults and policies, from `TypeOK /\ HasRecord
/\ WithinQuota`, where `HasRecord` says that a thread in the middle of a call has
a record. Only `reserve_amount` and the first step of `migrate` let an account's
total grow, and they look, under one of the caps of `cap_for`, before they add
(`StepWithinQuota`); `commit_amount`
moves bytes from one side to the other, and every other step shrinks
(`LedgerShrinks`).

`ReuseProofs` proves `TypeOK`, `RangesInBacking`, `AlignmentKept` and
`NoForeignBytes` at every word width, for all pool configurations and policies.
What a buffer needs of its backing does not follow from the step that hands it
out: the slot must have kept it. `IInv` therefore says of every slot that its
address fits the alignment of its key and that its bytes are its last owner's, and
of every buffer that its backing is no smaller than its size.

`RuntimeProofs` proves `CrashNeedsRace`, `ImportAuthorized` and `IdsUnique` for any
threads, namespaces and buffers, from `Shape /\ RaceInv /\ GrantInv /\ IdInv`.
`RaceInv` says of a call before its backend, an import's from its test of the
backend on, that it began before shutdown and that the backend existed; `GrantInv` that what an import has read of the table is
still there, as the table only grows; `IdInv` that all identities in use are below
`id_counter_` and that no other thread or table has the identity of a buffer in
the making. The rest of the run's properties follow from `CountingInv == IInv /\
LogInv /\ EraseInv /\ CountInv /\ Bounds`: `TypeOK`, `CountersNeverOver`,
`LogKeepsNewest` for every capacity of the log (from the exact length, `LogExact`),
and `RegistryDrains`. A counter that
is loaded and stored without a lock stays below what happened because it, and
every value loaded from it, leaves room for the increments of all threads that
still owe one (`Room`); the number of active buffers in a report is right because
whatever was erased had been registered (`EraseInv`).

`SegmentsProofs` proves all properties of `Segments` for any finite sets of
processes and threads, any sizes, `DwordLimit`, and number of restarts. Every
step is of one of five kinds (`StepKinds`): a thread moves on with the backing it
is making, returns it, `free`, `export_handle`, restart; the first has eleven forms,
by what they do to files, counters and names. The invariants are proved for the
kinds. `TypeInv` says what each field of a backing holds at each step, and so
which handles are open there. `CommittedBacked` needs that a mapped file is still
what it was when mapped (`MapInv`). `SegmentsPrivate` needs that no number of a
counter is given out twice in a run (`TicketInv`) and that the section an import
opens is the one it was asked for (`WantInv`). `PathsPrivateInRun` needs a history:
the contents that a descriptor stands for were made by a run that will not create
the path again, being over or past that number (`PastInv`). `HandlesExact` equates
a counter with a sum over backings and threads (`HandlesInv`), which every error
path, store and destructor must match by its own list.

`Sums` has the lemmas for that: the recursion that defines `SumFunctionOnSet` has a
solution on every finite set, the order of the summands does not matter, and a
sum changes by the change of one summand. The library's induction theorems take
a predicate as parameter, which the provers cannot instantiate, so an induction
is an argument about a smallest counterexample: a nonempty set of finite sets has
a minimal element (`Smallest`).

The proofs use the named assumptions on constants: finite sets of threads,
processes and objects, dummy values outside the sets they complete, limits that
are naturals, allocators whose guarantees are powers of two, a page aligned as
strictly as any request may ask.

Only model-checked: liveness (`CallsReturn`, `LastDropFinalizes`) and the fairness
part of the refinement, which the prover does not support; the exactness of the
ledger (`CommittedExact`, `ReservedExact`, `AllocsExact`, `ReservationHeld`,
`NoBackingLost`) and of the pool (`PoolExact`, `PoolBounded`), which hold under
restrictions on kinds, faults and policies and relate sums over threads, buffers
and a sequence of slots; `ClassesLeast` and `ChecksumIsRemainder`, which are about
what a recursive function computes. `TypeOK` of `Accounting` and `Reuse` is proved
and has no run.

## Not modelled

- The command line, examples, benchmarks, wording of errors, version: pure I/O.
- Host and CUDA allocators, `flush`, `invalidate`: system calls without state of
  their own; the runtime's use of them is modelled. The capacity query is a choice
  between what the device has and, when it fails, 0.
- `migrate` against `shutdown`: it holds a raw pointer to the target's backend from
  its test (`src/runtime.cpp:693`) to its last call, like allocations and imports,
  but `BufferControl` takes test and calls as one section under `ctl->mtx`.
- The POSIX variants of the shared and file backends: stubs that return errors.
- `BufferHandle::verify`, `device_pointer`, `host_data`, the getters, and the
  information functions of `src/stats.cpp`: they change no state but counters.
- The other counters of `Telemetry`, incremented in the same way as the two in
  `Runtime`; `ns_allocated_`, `pool_idle_by_domain_` and the peak: no decision reads
  them.
- `mul_overflow`, `is_aligned`, `align_down`, `set_state`, `transition`: no caller.
- Weak memory: the order of two relaxed atomic accesses by one thread is kept as
  written.
