---------------------------- MODULE BufferControl ----------------------------
(***************************************************************************)
(* One buffer: its Control block (internal.hpp), the client objects that   *)
(* refer to it (handles, leases, maps, views), and the threads that call   *)
(* the public operations of buffer.cpp and runtime.cpp on it.              *)
(*                                                                         *)
(* Grain of atomicity.  A step is one section that the code runs under     *)
(* Control::mtx, or one access to an atomic or to unlocked shared state.   *)
(* Code that holds ctl->mtx while other threads can still observe progress *)
(* (finalize, finalize_by_id) holds the variable mtx across its steps; a   *)
(* section that nobody can look into is one step guarded by mtx being      *)
(* free.  pc[t] names the next step of thread t; a thread is "idle"        *)
(* between calls.                                                          *)
(*                                                                         *)
(* Data.  A backing is named by the generation it was bound at, 0 being    *)
(* the null NativeAllocation.  Sizes, offsets, access modes, checksums and *)
(* telemetry are left out: no operation changes them after creation, and a *)
(* call they reject has no effect on the state kept here.  A call that is  *)
(* rejected at once is no step at all.                                     *)
(***************************************************************************)
EXTENDS Integers, FiniteSets, Lifecycle

CONSTANTS
  Threads,    \* client threads
  NoThread,   \* the owner of a free mutex
  Objects,    \* storage for handles, leases, maps and views
  NoObject,   \* no object
  Ops,        \* the operations that the clients call
  Domains,    \* the memory domains that are enabled
  MaxGen      \* bound: the buffer migrates at most MaxGen - 1 times

RawDomains == {"HOST", "PINNED_HOST", "DEVICE"}
MappedDomains == {"SHARED_HOST", "MMAP_STORAGE"}
MemoryDomain == RawDomains \cup MappedDomains

ASSUME ThreadsAssumption == IsFiniteSet(Threads) /\ NoThread \notin Threads
ASSUME ObjectsAssumption == IsFiniteSet(Objects) /\ NoObject \notin Objects
ASSUME DomainsAssumption == Domains \subseteq MemoryDomain
ASSUME MaxGenAssumption == MaxGen \in Nat \ {0}

Gens == 1 .. MaxGen
Segs == 0 .. MaxGen

Ownership == {"RUNTIME", "BORROWED", "ADOPTED", "IMPORTED", "SHARED"}
LeaseKinds == {"read", "write", "exclusive"}
ObjectKinds == {"none", "handle", "map", "view"} \cup LeaseKinds

\* The calls that start with validate_alive on a handle.
HandleOps == {"share", "view", "map", "acquire_read", "acquire_write",
              "acquire_exclusive", "copy", "export", "migrate"}

VARIABLES
  mtx,              \* the owner of Control::mtx
  refs,             \* Control::refs
  finalized,        \* Control::finalized
  read_leases,      \* Control::read_leases
  write_leases,     \* Control::write_leases
  exclusive_leases, \* Control::exclusive_leases
  state,            \* Record::state
  generation,       \* Record::generation
  domain,           \* Record::domain
  ownership,        \* Record::ownership
  pool_eligible,    \* Record::pool_eligible and flags.pooled
  backing,          \* Record::backing
  map_count,        \* Record::map_count
  registry,         \* the buffer is in RuntimeImpl::registry_
  closed,           \* RuntimeImpl::closed_
  backends,         \* the domains of RuntimeImpl have not been reset
  descs,            \* generations for which a local ExportDescriptor exists
  mem,              \* the memory behind each backing
  obj,              \* the client objects
  pc, op, arg, ptr  \* threads: next step, call, handle used, pointer read

leaseVars == <<read_leases, write_leases, exclusive_leases, map_count>>
bindVars == <<generation, domain, ownership, pool_eligible, backing, mem>>
rtVars == <<closed, backends, descs>>
callVars == <<op, arg, ptr>>
vars == <<mtx, refs, finalized, leaseVars, state, bindVars, registry, rtVars,
          obj, pc, callVars>>

MemStatus == {"unused", "live", "pooled", "freed", "double_free"}

\* The steps of a call after validate_alive has passed the handle arg[t].
UsingPC == HandleOps \cup {"validate_alive", "view_retain", "map_locked",
                           "map_retain", "copy_memory", "migrate_locked",
                           "migrate_retain"}
OtherPC == {"idle", "register_control", "retain_new", "import_retain",
            "drop_ref", "finalize", "finalize_release", "finalize_erase",
            "finalize_by_id", "invalidate_store", "invalidate_relock", "stuck",
            "snapshot", "shutdown_check", "trim", "reset_backends"}
Calls == HandleOps \cup {"none", "create", "import", "release", "invalidate",
                         "shutdown", "pool_trim"}

TypeOK ==
  /\ mtx \in Threads \cup {NoThread}
  /\ refs \in Int
  /\ finalized \in BOOLEAN
  /\ read_leases \in Nat
  /\ write_leases \in Nat
  /\ exclusive_leases \in Nat
  /\ map_count \in Nat
  /\ state \in BufferState
  /\ generation \in Gens
  /\ domain \in MemoryDomain
  /\ ownership \in Ownership
  /\ pool_eligible \in BOOLEAN
  /\ backing \in Segs
  /\ registry \in BOOLEAN
  /\ closed \in BOOLEAN
  /\ backends \in BOOLEAN
  /\ descs \in SUBSET Gens
  /\ mem \in [Gens -> MemStatus]
  /\ obj \in [Objects -> [kind : ObjectKinds, gen : Segs, seg : Segs]]
  /\ pc \in [Threads -> UsingPC \cup OtherPC]
  /\ op \in [Threads -> Calls]
  /\ arg \in [Threads -> Objects \cup {NoObject}]
  /\ ptr \in [Threads -> Segs]
-----------------------------------------------------------------------------
Live == {o \in Objects : obj[o].kind # "none"}
Holding(k) == {o \in Objects : obj[o].kind = k}
InUse(h) == \E t \in Threads : pc[t] \in UsingPC /\ arg[t] = h

\* Bound: every call in progress has storage left for the object it returns.
Room == Cardinality(Objects \ Live) > Cardinality({t \in Threads : pc[t] # "idle"})

Enter(t, call, next, h) ==
  /\ pc[t] = "idle"
  /\ pc' = [pc EXCEPT ![t] = next]
  /\ op' = [op EXCEPT ![t] = call]
  /\ arg' = [arg EXCEPT ![t] = h]
  /\ UNCHANGED ptr

Goto(t, next) == pc' = [pc EXCEPT ![t] = next] /\ UNCHANGED callVars

Return(t) ==
  /\ pc' = [pc EXCEPT ![t] = "idle"]
  /\ op' = [op EXCEPT ![t] = "none"]
  /\ arg' = [arg EXCEPT ![t] = NoObject]
  /\ ptr' = [ptr EXCEPT ![t] = 0]

NewObject(k, g, s) ==
  \E o \in Objects : /\ obj[o].kind = "none"
                     /\ obj' = [obj EXCEPT ![o] = [kind |-> k, gen |-> g, seg |-> s]]

Discard(o) == obj' = [obj EXCEPT ![o] = [kind |-> "none", gen |-> 0, seg |-> 0]]

\* A lost increment, as a retain left out of one of its callers.
retain_missing == UNCHANGED refs

retain == refs' = refs + 1

\* A backend's free, on memory that may already have been freed.
Freed(status) == IF status \in {"live", "pooled"} THEN "freed" ELSE "double_free"

\* The owner of a backing lets go of it.  Without its backend nothing is
\* called (the "if (dom)" guards), and only the mapped domains still give the
\* memory back, through the destructor of NativeAllocation::state.
LetGo(s) == IF backends \/ domain \in MappedDomains
              THEN mem' = [mem EXCEPT ![s] = Freed(@)]
              ELSE UNCHANGED mem

Init ==
  /\ mtx = NoThread /\ refs = 0 /\ finalized = FALSE
  /\ read_leases = 0 /\ write_leases = 0 /\ exclusive_leases = 0
  /\ map_count = 0
  /\ state = "DECLARED" /\ generation = 1 /\ domain = "HOST"
  /\ ownership = "RUNTIME" /\ pool_eligible = FALSE /\ backing = 0
  /\ registry = FALSE /\ closed = FALSE /\ backends = TRUE /\ descs = {}
  /\ mem = [g \in Gens |-> "unused"]
  /\ obj = [o \in Objects |-> [kind |-> "none", gen |-> 0, seg |-> 0]]
  /\ pc = [t \in Threads |-> "idle"]
  /\ op = [t \in Threads |-> "none"]
  /\ arg = [t \in Threads |-> NoObject]
  /\ ptr = [t \in Threads |-> 0]
-----------------------------------------------------------------------------
(***************************************************************************)
(* Creation.  The record is filled in privately, then register_control     *)
(* publishes it, and only then does the facade retain the first handle.    *)
(***************************************************************************)
Create(t, own, st, d, pooled) ==
  /\ state = "DECLARED" /\ ~closed /\ Room
  /\ Enter(t, "create", "register_control", NoObject)
  /\ state' = st
  /\ ownership' = own
  /\ domain' = d
  /\ pool_eligible' = pooled
  /\ generation' = 1
  /\ backing' = 1
  /\ mem' = [mem EXCEPT ![1] = "live"]
  /\ UNCHANGED <<mtx, refs, finalized, leaseVars, registry, rtVars, obj>>

\* allocate_record, when it succeeds: the pool class and flags.pooled decide
\* whether the backing may return to the pool.
allocate(t) ==
  /\ "allocate" \in Ops
  /\ \E d \in Domains, pooled \in BOOLEAN :
       Create(t, "RUNTIME", "ALLOCATED", d, pooled)

\* The caller's memory.  A wrapped pointer in a mapped domain carries no
\* backend state, so its free touches nothing: only raw domains are of interest.
wrap_external(t) ==
  /\ "wrap_external" \in Ops
  /\ \E own \in {"BORROWED", "ADOPTED", "SHARED"}, d \in Domains \cap RawDomains :
       Create(t, own, "ALLOCATED", d, FALSE)

\* import_descriptor of a shared or file handle: a new mapping, a new buffer.
import_shared(t) ==
  /\ "import_shared" \in Ops
  /\ \E d \in Domains \cap MappedDomains :
       Create(t, "IMPORTED", "IMPORTED", d, FALSE)

register_control(t) ==
  /\ pc[t] = "register_control"
  /\ registry' = TRUE
  /\ Goto(t, "retain_new")
  /\ UNCHANGED <<mtx, refs, finalized, leaseVars, state, bindVars, rtVars, obj>>

\* Runtime::allocate / wrap_external / import: retain, then build the handle
\* from the generation read without the lock.
retain_new(t) ==
  /\ pc[t] \in {"retain_new", "import_retain", "migrate_retain"}
  /\ retain
  /\ NewObject("handle", generation, 0)
  /\ Return(t)
  /\ UNCHANGED <<mtx, finalized, leaseVars, state, bindVars, registry, rtVars>>
-----------------------------------------------------------------------------
(***************************************************************************)
(* Operations on a handle.  The client does not release a handle that      *)
(* another thread is using; several threads may use one handle.            *)
(***************************************************************************)

\* The unlocked half of validate_alive: a finalized buffer is rejected.  Ops
\* tells apart the clients that migrate a borrowed wrap and those that do not.
begin(t, call, h) ==
  /\ call \in Ops \cap HandleOps
  /\ call = "migrate" /\ ownership = "BORROWED" => "migrate_borrowed" \in Ops
  /\ obj[h].kind = "handle"
  /\ ~finalized
  /\ Room
  /\ Enter(t, call, "validate_alive", h)
  /\ UNCHANGED <<mtx, refs, finalized, leaseVars, state, bindVars, registry,
                 rtVars, obj>>

Alive(h) ==
  /\ obj[h].gen = generation
  /\ state \notin {"RELEASED", "QUARANTINED", "INVALID"}

\* The locked half of validate_alive.
validate_alive(t) ==
  /\ pc[t] = "validate_alive"
  /\ mtx = NoThread
  /\ IF Alive(arg[t]) THEN Goto(t, op[t]) ELSE Return(t)
  /\ UNCHANGED <<mtx, refs, finalized, leaseVars, state, bindVars, registry,
                 rtVars, obj>>

share(t) ==
  /\ pc[t] = "share"
  /\ retain
  /\ NewObject("handle", obj[arg[t]].gen, 0)
  /\ Return(t)
  /\ UNCHANGED <<mtx, finalized, leaseVars, state, bindVars, registry, rtVars>>

\* NativeAllocation::host_map: null for what the device backend allocated,
\* the caller's pointer for a wrap, whatever its domain.
HostMap == IF domain = "DEVICE" /\ (ownership = "RUNTIME" \/ backing > 1)
             THEN 0 ELSE backing

\* view reads the host address under the lock and pins the buffer afterwards.
view(t) ==
  /\ pc[t] = "view"
  /\ mtx = NoThread
  /\ ptr' = [ptr EXCEPT ![t] = HostMap]
  /\ pc' = [pc EXCEPT ![t] = "view_retain"]
  /\ UNCHANGED <<mtx, refs, finalized, leaseVars, state, bindVars, registry,
                 rtVars, obj, op, arg>>

\* A pointer handed out without a reference that keeps its memory.
Pin_unpinned(t, k) ==
  /\ NewObject(k, obj[arg[t]].gen, ptr[t])
  /\ Return(t)
  /\ UNCHANGED <<mtx, refs, finalized, leaseVars, state, bindVars, registry, rtVars>>

\* The end of view and of map: retain, and hand out the pointer read before.
Pin(t, k) ==
  /\ retain
  /\ NewObject(k, obj[arg[t]].gen, ptr[t])
  /\ Return(t)
  /\ UNCHANGED <<mtx, finalized, leaseVars, state, bindVars, registry, rtVars>>

view_retain(t) == pc[t] = "view_retain" /\ Pin(t, "view")

\* A map that does not look at the domain.
map_any_domain(t) ==
  /\ pc[t] = "map"
  /\ IF backends THEN Goto(t, "map_locked") ELSE Return(t)
  /\ UNCHANGED <<mtx, refs, finalized, leaseVars, state, bindVars, registry,
                 rtVars, obj>>

\* map looks at the domain before it takes the lock.
map(t) ==
  /\ pc[t] = "map"
  /\ IF domain # "DEVICE" /\ backends THEN Goto(t, "map_locked") ELSE Return(t)
  /\ UNCHANGED <<mtx, refs, finalized, leaseVars, state, bindVars, registry,
                 rtVars, obj>>

\* The backend chosen there maps whatever is bound now.  On a device backing
\* the host backend hands out the device pointer, the others a null pointer.
map_locked(t) ==
  /\ pc[t] = "map_locked"
  /\ mtx = NoThread
  /\ \E p \in IF domain = "DEVICE" THEN {backing, 0} ELSE {backing} :
       ptr' = [ptr EXCEPT ![t] = p]
  /\ map_count' = map_count + 1
  /\ state' = IF valid_transition(state, "MAPPED") THEN "MAPPED" ELSE state
  /\ pc' = [pc EXCEPT ![t] = "map_retain"]
  /\ UNCHANGED <<mtx, refs, finalized, read_leases, write_leases,
                 exclusive_leases, bindVars, registry, rtVars, obj, op, arg>>

map_retain(t) == pc[t] = "map_retain" /\ Pin(t, "map")

NoWriter == write_leases = 0 /\ exclusive_leases = 0

\* A conflict test that forgets the readers.
NoLease_but_readers == NoWriter

NoLease == NoWriter /\ read_leases = 0

\* A grant that marks the buffer IN_USE from whatever state it is in.
LeasedState_from_any(from) == "IN_USE"

LeasedState(from) == IF state \in from THEN "IN_USE" ELSE state

\* What a granted lease does besides its counter; all under the lock.
Grant(t, k) ==
  /\ retain
  /\ NewObject(k, obj[arg[t]].gen, 0)
  /\ Return(t)
  /\ UNCHANGED <<mtx, finalized, map_count, bindVars, registry, rtVars>>

\* lease_conflict
Refuse(t) ==
  /\ Return(t)
  /\ UNCHANGED <<mtx, refs, finalized, leaseVars, state, bindVars, registry,
                 rtVars, obj>>

acquire_read(t) ==
  /\ pc[t] = "acquire_read"
  /\ mtx = NoThread
  /\ \/ /\ NoWriter
        /\ read_leases' = read_leases + 1
        /\ state' = LeasedState({"ALLOCATED"})
        /\ Grant(t, "read")
        /\ UNCHANGED <<write_leases, exclusive_leases>>
     \/ ~NoWriter /\ Refuse(t)

acquire_write(t) ==
  /\ pc[t] = "acquire_write"
  /\ mtx = NoThread
  /\ \/ /\ NoLease
        /\ write_leases' = write_leases + 1
        /\ state' = LeasedState({"ALLOCATED", "MAPPED"})
        /\ Grant(t, "write")
        /\ UNCHANGED <<read_leases, exclusive_leases>>
     \/ ~NoLease /\ Refuse(t)

acquire_exclusive(t) ==
  /\ pc[t] = "acquire_exclusive"
  /\ mtx = NoThread
  /\ \/ /\ NoLease
        /\ exclusive_leases' = exclusive_leases + 1
        /\ state' = LeasedState({"ALLOCATED", "MAPPED"})
        /\ Grant(t, "exclusive")
        /\ UNCHANGED <<read_leases, write_leases>>
     \/ ~NoLease /\ Refuse(t)

\* copy_to and copy_from read the address after the last unlock ...
copy(t) ==
  /\ pc[t] = "copy"
  /\ ptr' = [ptr EXCEPT ![t] = backing]
  /\ pc' = [pc EXCEPT ![t] = "copy_memory"]
  /\ UNCHANGED <<mtx, refs, finalized, leaseVars, state, bindVars, registry,
                 rtVars, obj, op, arg>>

\* ... and move the bytes outside the lock.
copy_memory(t) ==
  /\ pc[t] = "copy_memory"
  /\ Return(t)
  /\ UNCHANGED <<mtx, refs, finalized, leaseVars, state, bindVars, registry,
                 rtVars, obj>>

\* export_descriptor takes no lock.  A mapped domain yields an OS handle, which
\* import_descriptor turns into another buffer; the others a local descriptor.
export_descriptor(t) ==
  /\ pc[t] = "export"
  /\ descs' = IF backends /\ domain \in RawDomains
                THEN descs \cup {generation} ELSE descs
  /\ Return(t)
  /\ UNCHANGED <<mtx, refs, finalized, leaseVars, state, bindVars, registry,
                 closed, backends, obj>>

\* import_descriptor of a local descriptor: lookup under the registry lock,
\* reading the generation without ctl->mtx; the facade retains afterwards.
lookup(t) ==
  /\ "import_local" \in Ops
  /\ ~closed /\ registry /\ generation \in descs /\ Room
  /\ Enter(t, "import", "import_retain", NoObject)
  /\ UNCHANGED <<mtx, refs, finalized, leaseVars, state, bindVars, registry,
                 rtVars, obj>>
-----------------------------------------------------------------------------
(***************************************************************************)
(* Migration.  impl->migrate checks closed_ before it takes ctl->mtx and   *)
(* holds the lock to its end.                                              *)
(***************************************************************************)
migrate(t) ==
  /\ pc[t] = "migrate"
  /\ IF closed THEN Return(t) ELSE Goto(t, "migrate_locked")
  /\ UNCHANGED <<mtx, refs, finalized, leaseVars, state, bindVars, registry,
                 rtVars, obj>>

\* Reservation, allocation, copy, commit and verification may each fail and
\* then leave the buffer as it was (the last disjunct); when they succeed the
\* binding is swapped and the old backing freed, whoever owned it.
migrate_locked(t) ==
  /\ pc[t] = "migrate_locked"
  /\ mtx = NoThread
  /\ \/ /\ domain \in Domains
        /\ Goto(t, "migrate_retain")
        /\ UNCHANGED <<state, bindVars>>
     \/ /\ state \notin {"RELEASED", "INVALID"} /\ NoWriter /\ backends
        /\ generation < MaxGen
        /\ \E target \in Domains \ {domain} : domain' = target
        /\ generation' = generation + 1
        /\ backing' = generation'
        /\ mem' = [g \in Gens |-> CASE g = generation' -> "live"
                                    [] g = backing -> Freed(mem[g])
                                    [] OTHER -> mem[g]]
        /\ pool_eligible' = FALSE
        /\ state' = "ALLOCATED"
        /\ Goto(t, "migrate_retain")
        /\ UNCHANGED ownership
     \/ /\ Return(t)
        /\ UNCHANGED <<state, bindVars>>
  /\ UNCHANGED <<mtx, refs, finalized, leaseVars, registry, rtVars, obj>>
-----------------------------------------------------------------------------
(***************************************************************************)
(* Releasing an object, and the finalization that the last release runs.   *)
(***************************************************************************)
release_handle(t, h) ==
  /\ obj[h].kind = "handle"
  /\ ~InUse(h)
  /\ Discard(h)
  /\ Enter(t, "release", "drop_ref", NoObject)
  /\ UNCHANGED <<mtx, refs, finalized, leaseVars, state, bindVars, registry, rtVars>>

release_view(t, o) ==
  /\ obj[o].kind = "view"
  /\ Discard(o)
  /\ Enter(t, "release", "drop_ref", NoObject)
  /\ UNCHANGED <<mtx, refs, finalized, leaseVars, state, bindVars, registry, rtVars>>

\* Releases that miss the last holder, and that count one holder twice.
Less_but_last(n) == IF n > 1 THEN n - 1 ELSE n
Less_twice(n) == n - 2

Less(n) == IF n > 0 THEN n - 1 ELSE n

\* A release that forgets to leave IN_USE.
UnleasedState_kept == state

UnleasedState == IF NoLease' /\ state = "IN_USE" THEN "ALLOCATED" ELSE state

release_lease(t, o) ==
  /\ obj[o].kind \in LeaseKinds
  /\ mtx = NoThread
  /\ read_leases' = IF obj[o].kind = "read" THEN Less(read_leases) ELSE read_leases
  /\ write_leases' = IF obj[o].kind = "write" THEN Less(write_leases) ELSE write_leases
  /\ exclusive_leases' = IF obj[o].kind = "exclusive" THEN Less(exclusive_leases)
                                                      ELSE exclusive_leases
  /\ state' = UnleasedState
  /\ Discard(o)
  /\ Enter(t, "release", "drop_ref", NoObject)
  /\ UNCHANGED <<mtx, refs, finalized, map_count, bindVars, registry, rtVars>>

\* The backends' unmap does nothing.
release_map(t, o) ==
  /\ obj[o].kind = "map"
  /\ mtx = NoThread
  /\ map_count' = Less(map_count)
  /\ state' = IF map_count' = 0 /\ state = "MAPPED" THEN "ALLOCATED" ELSE state
  /\ Discard(o)
  /\ Enter(t, "release", "drop_ref", NoObject)
  /\ UNCHANGED <<mtx, refs, finalized, read_leases, write_leases,
                 exclusive_leases, bindVars, registry, rtVars>>

\* Off by one: the reference count after the decrement is compared, or before
\* it with the wrong bound.
LastRef_too_late == refs = 0
LastRef_too_early == refs \in {1, 2}

LastRef == refs = 1

drop_ref(t) ==
  /\ pc[t] = "drop_ref"
  /\ refs' = refs - 1
  /\ IF LastRef THEN Goto(t, "finalize") ELSE Return(t)
  /\ UNCHANGED <<mtx, finalized, leaseVars, state, bindVars, registry, rtVars, obj>>

\* finalize returns to drop_ref's caller or to shutdown.
FinalizeReturn(t) == IF op[t] = "shutdown" THEN Goto(t, "trim") ELSE Return(t)

\* A finalize that does not look at the flag it exchanges.
finalize_again(t) ==
  /\ pc[t] = "finalize"
  /\ mtx = NoThread
  /\ finalized' = TRUE
  /\ Goto(t, "finalize_release") /\ mtx' = t
  /\ UNCHANGED <<refs, leaseVars, state, bindVars, registry, rtVars, obj>>

\* Take ctl->mtx and exchange the flag.
finalize(t) ==
  /\ pc[t] = "finalize"
  /\ mtx = NoThread
  /\ finalized' = TRUE
  /\ IF finalized
       THEN FinalizeReturn(t) /\ UNCHANGED mtx
       ELSE Goto(t, "finalize_release") /\ mtx' = t
  /\ UNCHANGED <<refs, leaseVars, state, bindVars, registry, rtVars, obj>>

\* Memory is given back whoever owns it; only when the runtime allocated it
\* for this buffer; and whenever it is not the caller's.
Owned_by_anyone == backing # 0
Owned_by_runtime == backing # 0 /\ ownership = "RUNTIME"

Owned == backing # 0 /\ ownership # "BORROWED"

\* Pool the backing, or free it, or forget it when it is borrowed.  pool_put
\* keeps the backing or evicts it; either way its address stays in the record.
\* Forgetting drops NativeAllocation::state, whose destructor unmaps a mapped
\* backing: a borrowed wrap has one once it was migrated to a mapped domain.
finalize_release(t) ==
  /\ pc[t] = "finalize_release"
  /\ state' = "RELEASED"
  /\ \/ /\ Owned /\ pool_eligible
        /\ \/ mem' = [mem EXCEPT ![backing] = "pooled"]
           \/ LetGo(backing)
        /\ UNCHANGED <<backing, ownership>>
     \/ /\ Owned /\ ~pool_eligible
        /\ ownership' = IF ownership = "ADOPTED" THEN "RUNTIME" ELSE ownership
        /\ LetGo(backing)
        /\ backing' = 0
     \/ /\ ~Owned
        /\ mem' = IF backing # 0 /\ domain \in MappedDomains
                    THEN [mem EXCEPT ![backing] = Freed(@)] ELSE mem
        /\ backing' = 0
        /\ UNCHANGED ownership
  /\ Goto(t, "finalize_erase")
  /\ UNCHANGED <<mtx, refs, finalized, leaseVars, generation, domain,
                 pool_eligible, registry, rtVars, obj>>

\* A finalize that leaves without unlocking, and one that keeps the entry.
finalize_erase_locked(t) ==
  /\ pc[t] = "finalize_erase"
  /\ registry' = FALSE
  /\ FinalizeReturn(t)
  /\ UNCHANGED <<mtx, refs, finalized, leaseVars, state, bindVars, rtVars, obj>>
finalize_erase_nothing(t) ==
  /\ pc[t] = "finalize_erase"
  /\ mtx' = NoThread
  /\ FinalizeReturn(t)
  /\ UNCHANGED <<refs, finalized, leaseVars, state, bindVars, registry, rtVars, obj>>

\* Erase the registry entry and leave the lock.
finalize_erase(t) ==
  /\ pc[t] = "finalize_erase"
  /\ registry' = FALSE
  /\ mtx' = NoThread
  /\ FinalizeReturn(t)
  /\ UNCHANGED <<refs, finalized, leaseVars, state, bindVars, rtVars, obj>>
-----------------------------------------------------------------------------
(***************************************************************************)
(* Runtime::invalidate: finalize_by_id finds the control block, locks it   *)
(* and, if nothing refers to it, calls finalize - which locks it again.    *)
(***************************************************************************)
invalidate(t) ==
  /\ "invalidate" \in Ops
  /\ registry
  /\ Enter(t, "invalidate", "finalize_by_id", NoObject)
  /\ UNCHANGED <<mtx, refs, finalized, leaseVars, state, bindVars, registry,
                 rtVars, obj>>

finalize_by_id(t) ==
  /\ pc[t] = "finalize_by_id"
  /\ mtx = NoThread
  /\ IF refs > 0 \/ finalized
       THEN Return(t) /\ UNCHANGED mtx
       ELSE Goto(t, "invalidate_store") /\ mtx' = t
  /\ UNCHANGED <<refs, finalized, leaseVars, state, bindVars, registry, rtVars, obj>>

invalidate_store(t) ==
  /\ pc[t] = "invalidate_store"
  /\ refs' = 0
  /\ Goto(t, "invalidate_relock")
  /\ UNCHANGED <<mtx, finalized, leaseVars, state, bindVars, registry, rtVars, obj>>

\* Locking a std::mutex that the thread owns is undefined behaviour: the POSIX
\* build waits for ever, the Windows build throws and unwinds the outer lock.
invalidate_relock(t) ==
  /\ pc[t] = "invalidate_relock"
  /\ \/ Goto(t, "stuck") /\ UNCHANGED mtx
     \/ Return(t) /\ mtx' = NoThread
  /\ UNCHANGED <<refs, finalized, leaseVars, state, bindVars, registry, rtVars, obj>>
-----------------------------------------------------------------------------
(***************************************************************************)
(* Runtime::pool_trim and RuntimeImpl::shutdown.                           *)
(***************************************************************************)
pool_trim(t) ==
  /\ "pool_trim" \in Ops
  /\ Enter(t, "pool_trim", "trim", NoObject)
  /\ UNCHANGED <<mtx, refs, finalized, leaseVars, state, bindVars, registry,
                 rtVars, obj>>

\* Under pool_mtx_, which no other step of this module holds.
trim(t) ==
  /\ pc[t] = "trim"
  /\ mem' = [g \in Gens |->
               IF mem[g] = "pooled" /\ (backends \/ domain \in MappedDomains)
                 THEN "freed" ELSE mem[g]]
  /\ IF op[t] = "shutdown" THEN Goto(t, "reset_backends") ELSE Return(t)
  /\ UNCHANGED <<mtx, refs, finalized, leaseVars, state, generation, domain,
                 ownership, pool_eligible, backing, registry, rtVars, obj>>

shutdown(t) ==
  /\ "shutdown" \in Ops
  /\ ~closed
  /\ closed' = TRUE
  /\ Enter(t, "shutdown", "snapshot", NoObject)
  /\ UNCHANGED <<mtx, refs, finalized, leaseVars, state, bindVars, registry,
                 backends, descs, obj>>

shutdown_snapshot(t) ==
  /\ pc[t] = "snapshot"
  /\ Goto(t, IF registry THEN "shutdown_check" ELSE "trim")
  /\ UNCHANGED <<mtx, refs, finalized, leaseVars, state, bindVars, registry,
                 rtVars, obj>>

shutdown_check(t) ==
  /\ pc[t] = "shutdown_check"
  /\ Goto(t, IF refs = 0 THEN "finalize" ELSE "trim")
  /\ UNCHANGED <<mtx, refs, finalized, leaseVars, state, bindVars, registry,
                 rtVars, obj>>

reset_backends(t) ==
  /\ pc[t] = "reset_backends"
  /\ backends' = FALSE
  /\ Return(t)
  /\ UNCHANGED <<mtx, refs, finalized, leaseVars, state, bindVars, registry,
                 closed, descs, obj>>
-----------------------------------------------------------------------------
\* Calls a thread may start, and the steps that carry a call to its end.
Start(t) ==
  \/ allocate(t) \/ wrap_external(t) \/ import_shared(t) \/ lookup(t)
  \/ invalidate(t) \/ pool_trim(t) \/ shutdown(t)
  \/ \E o \in Objects :
       \/ \E call \in HandleOps : begin(t, call, o)
       \/ release_handle(t, o) \/ release_view(t, o)
       \/ release_lease(t, o) \/ release_map(t, o)

Continue(t) ==
  \/ register_control(t) \/ retain_new(t) \/ validate_alive(t) \/ share(t)
  \/ view(t) \/ view_retain(t) \/ map(t) \/ map_locked(t) \/ map_retain(t)
  \/ acquire_read(t) \/ acquire_write(t) \/ acquire_exclusive(t)
  \/ copy(t) \/ copy_memory(t) \/ export_descriptor(t)
  \/ migrate(t) \/ migrate_locked(t)
  \/ drop_ref(t) \/ finalize(t) \/ finalize_release(t) \/ finalize_erase(t)
  \/ finalize_by_id(t) \/ invalidate_store(t) \/ invalidate_relock(t)
  \/ trim(t) \/ shutdown_snapshot(t) \/ shutdown_check(t) \/ reset_backends(t)

Next == \E t \in Threads : Start(t) \/ Continue(t)

Spec == Init /\ [][Next]_vars

\* A thread inside a call keeps running (the operating system schedules it);
\* no thread is obliged to start a call or to release anything.
FairSpec == Spec /\ \A t \in Threads : WF_vars(Continue(t))
-----------------------------------------------------------------------------
(***************************************************************************)
(* Properties.                                                             *)
(***************************************************************************)

\* A write or exclusive lease (BufferHandle::acquire_write, acquire_exclusive)
\* never coexists with another lease, whatever threads, migrations, imports
\* and finalizations interleave with the counters under Control::mtx.
LeaseExclusion ==
  \A o1, o2 \in Objects :
    obj[o1].kind \in {"write", "exclusive"} /\ o1 # o2
      => obj[o2].kind \notin LeaseKinds

\* The lease counters and map_count of the Control block are exactly the
\* leases, the maps and the maps about to be handed out: no release is lost by
\* the clamped decrements of BufferLease::release and BufferMap::release.
CountersExact ==
  /\ read_leases = Cardinality(Holding("read"))
  /\ write_leases = Cardinality(Holding("write"))
  /\ exclusive_leases = Cardinality(Holding("exclusive"))
  /\ map_count = Cardinality(Holding("map"))
                 + Cardinality({t \in Threads : pc[t] = "map_retain"})

\* Control::refs counts the client objects and the releases that have not yet
\* reached drop_ref's decrement.
RefsExact ==
  refs = Cardinality(Live) + Cardinality({t \in Threads : pc[t] = "drop_ref"})

\* MAPPED and IN_USE are never left behind: the state says MAPPED only while
\* map_count is positive, IN_USE only while a lease counter is.
StateBacked ==
  /\ state = "MAPPED" => map_count > 0
  /\ state = "IN_USE" => ~NoLease

\* Once register_control has published a buffer, every assignment to
\* Record::state is a legal move of the valid_transition table, although map,
\* the leases, migrate and finalize assign it directly.  An assignment of the
\* state it has already is no move.
LegalMoves == [][registry => valid_transition(state, state')]_state

\* finalize runs only when nothing refers to the buffer: no client object
\* is left and no call is using a handle of it.
FinalizedUnreferenced ==
  finalized => Live = {} /\ \A t \in Threads : pc[t] \notin UsingPC

\* The memory behind the address held by a view or a map, or read by a copy
\* that is under way, is still bound to the buffer: not freed, not pooled.
NoDanglingPointer ==
  /\ \A o \in Objects : obj[o].kind \in {"view", "map"} /\ obj[o].seg # 0
                           => mem[obj[o].seg] = "live"
  /\ \A t \in Threads : pc[t] = "copy_memory" /\ ptr[t] # 0
                           => mem[ptr[t]] = "live"

\* No backing is given to its backend's free twice, nor freed or pooled after
\* that, by any interleaving of finalize, migrate, pool_trim and shutdown.
FreedOnce ==
  /\ \A g \in Gens : mem[g] # "double_free"
  /\ state # "DECLARED" /\ backing # 0 /\ ~finalized => mem[backing] = "live"

\* After shutdown and the last release nothing is left that only the runtime
\* could free, the pool included.
NoLeakAfterShutdown ==
  (~backends /\ Live = {} /\ \A t \in Threads : pc[t] = "idle") =>
    \A g \in Gens : mem[g] \in {"live", "pooled"} => g = 1 /\ ownership = "BORROWED"

\* The caller's memory of a BORROWED wrap is never freed nor pooled.
BorrowedNeverFreed == ownership = "BORROWED" => mem[1] \in {"unused", "live"}

\* A lease, map or view is handed out only to a handle of the current
\* generation ("A stale handle or generation is always rejected",
\* docs/LIFECYCLE.md; validate_alive).
StaleRejected ==
  [][\A o \in Objects :
       obj[o].kind = "none" /\ obj'[o].kind \in LeaseKinds \cup {"map", "view"}
         => obj'[o].gen = generation]_obj

\* The caller's memory of a BORROWED wrap is freed or pooled by nothing but
\* migrate (which advances the generation): not by finalize, pool_trim or
\* shutdown, whatever the threads do to the buffer.
BorrowedFreedOnlyByMigration ==
  ownership = "BORROWED" /\ generation = 1 => mem[1] \in {"unused", "live"}

\* map tests the domain before it locks, and validate_alive the generation
\* before that: memory of the DEVICE domain is mapped only when the buffer
\* migrated in between, that is through a handle that has become stale.
DeviceMapIsStale ==
  [][map_count' > map_count /\ domain = "DEVICE" =>
       \E t \in Threads : pc[t] = "map_locked" /\ obj[arg[t]].gen < generation]_map_count

\* With migration, local imports and shutdown too (everything but invalidate
\* and the migration of a borrowed wrap), once the last object is gone and no
\* call is under way the buffer is finalized and unregistered and its lock is
\* free ("There is no implicit leak", docs/LIFECYCLE.md).  The only memory left
\* is the caller's own, the first backing of a borrowed wrap, or raw memory
\* whose backend shutdown has reset (LetGo).
LeakOnlyAfterShutdown ==
  (state # "DECLARED" /\ Live = {} /\ \A t \in Threads : pc[t] = "idle") =>
    /\ state = "RELEASED" /\ finalized /\ ~registry /\ mtx = NoThread
    /\ \A g \in Gens : mem[g] = "live" =>
         \/ g = 1 /\ ownership = "BORROWED"
         \/ ~backends /\ domain \in RawDomains

\* A call that a thread has started comes to an end: no thread waits for ever
\* on Control::mtx.
CallsReturn == \A t \in Threads : (pc[t] # "idle") ~> (pc[t] = "idle")

\* When the last reference is dropped the releasing thread finalizes the
\* buffer: it leaves the registry.
LastDropFinalizes == \A t \in Threads : (pc[t] = "finalize") ~> ~registry
-----------------------------------------------------------------------------
(***************************************************************************)
(* What the documents and tests say and the code does not do (README).     *)
(***************************************************************************)
\* The direct assignments that initialize a record are legal moves from its
\* default state DECLARED as well ("each is a legal move under the table",
\* docs/LIFECYCLE.md).
DirectAssignmentsLegal == [][valid_transition(state, state')]_state

\* shutdown finalizes the buffers that are still referenced: by the time it
\* resets the backends a buffer with client objects has been finalized ("live
\* buffers at shutdown are finalized", docs/LIFECYCLE.md).
ShutdownFinalizes ==
  [][(backends /\ ~backends' /\ Live # {}) => finalized]_backends

\* map never succeeds on a buffer that is in device memory when it is mapped
\* ("`map` of a `DEVICE` buffer fails", docs/DESIGN.md).
DeviceNotMapped == [][map_count' > map_count => domain # "DEVICE"]_map_count
-----------------------------------------------------------------------------
(***************************************************************************)
(* The control block implements the promise of SharedBuffer.               *)
(***************************************************************************)
AbstractStatus ==
  IF finalized THEN "released"
  ELSE IF state = "DECLARED" THEN "absent"
  ELSE IF \E t \in Threads : pc[t] \in {"register_control", "retain_new"} THEN "new"
  ELSE "live"

Promise == INSTANCE SharedBuffer WITH
             status <- AbstractStatus,
             holders <- [o \in Objects |-> obj[o].kind]

\* Counters, the control mutex and the finalized flag implement SharedBuffer:
\* leases exclude each other, objects are only obtained through a handle, and
\* the buffer is finalized once, after the last object, and then for certain.
KeepsPromise == Promise!Spec
=============================================================================
