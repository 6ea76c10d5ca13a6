------------------------ MODULE BufferReferenceProofs -----------------------
(***************************************************************************)
(* The references to a buffer.  Without invalidate the count is exact and  *)
(* nothing is kept for ever; without imports and shutdown as well, which   *)
(* look at the count or the registry before they retain or finalize, the   *)
(* buffer is finalized only when nothing refers to it, and it keeps the    *)
(* promise of SharedBuffer.                                                *)
(***************************************************************************)
EXTENDS BufferLifetimeProofs

InvalidatePC == {"finalize_by_id", "invalidate_store", "invalidate_relock", "stuck"}
ShutdownPC == {"snapshot", "shutdown_check", "reset_backends"}
MigratePC == {"migrate", "migrate_locked", "migrate_retain"}

\* A thread is inside an operation only if the clients call it.
OpsPC ==
  \A t \in Threads :
    /\ pc[t] \in InvalidatePC => "invalidate" \in Ops
    /\ pc[t] = "import_retain" => "import_local" \in Ops
    /\ pc[t] \in ShutdownPC \/ op[t] = "shutdown" => "shutdown" \in Ops
    /\ pc[t] \in MigratePC \/ op[t] = "migrate" => "migrate" \in Ops

\* Every step keeps the threads inside operations that are called.
LEMMA StepOpsPC ==
  ASSUME Types, ArgOK, OpsPC, NEW t \in Threads, Start(t) \/ Continue(t)
  PROVE  OpsPC'
<1> USE DEF InvalidatePC, ShutdownPC, MigratePC
<1>1. CallTypes
  BY DEF Types
<1>2. \A u \in Threads \ {t} : pc'[u] = pc[u] /\ op'[u] = op[u]
  BY <1>1, OtherThreads
<1>3. ASSUME /\ pc'[t] \in InvalidatePC => "invalidate" \in Ops
             /\ pc'[t] = "import_retain" => "import_local" \in Ops
             /\ pc'[t] \in ShutdownPC \/ op'[t] = "shutdown" => "shutdown" \in Ops
             /\ pc'[t] \in MigratePC \/ op'[t] = "migrate" => "migrate" \in Ops
      PROVE  OpsPC'
  BY <1>2, <1>3 DEF OpsPC
<1>4. CASE Return(t)
  BY <1>1, <1>3, <1>4 DEF Return, CallTypes
<1>5. ASSUME NEW next \in {"retain_new", "map_locked", "finalize", "finalize_release",
                           "finalize_erase", "trim"}, Goto(t, next)
      PROVE  OpsPC'
  BY <1>1, <1>3, <1>5, Zenon DEF Goto, callVars, CallTypes, OpsPC
<1>6. CASE Start(t)
  <2>1. ASSUME NEW call, NEW next, NEW h, Enter(t, call, next, h),
               next \in InvalidatePC => "invalidate" \in Ops,
               next = "import_retain" => "import_local" \in Ops,
               next \in ShutdownPC \/ call = "shutdown" => "shutdown" \in Ops,
               next \in MigratePC \/ call = "migrate" => "migrate" \in Ops
        PROVE  OpsPC'
    <3>1. pc'[t] = next /\ op'[t] = call
      BY <1>1, <2>1, Zenon DEF Enter, CallTypes
    <3>2. QED
      BY <1>3, <2>1, <3>1, Zenon
  <2>2. CASE allocate(t) \/ wrap_external(t) \/ import_shared(t)
    BY <2>1, <2>2, Zenon DEF allocate, wrap_external, import_shared, Create
  <2>3. CASE lookup(t) \/ invalidate(t) \/ pool_trim(t) \/ shutdown(t)
    BY <2>1, <2>3, Zenon DEF lookup, invalidate, pool_trim, shutdown
  <2>4. ASSUME NEW o \in Objects, NEW call \in HandleOps, begin(t, call, o)
        PROVE  OpsPC'
    <3>1. Enter(t, call, "validate_alive", o) /\ call \in Ops /\ call # "shutdown"
      BY <2>4, Zenon DEF begin, HandleOps
    <3>2. QED
      BY <2>1, <3>1, Zenon
  <2>5. ASSUME NEW o \in Objects,
               \/ release_handle(t, o) \/ release_view(t, o)
               \/ release_lease(t, o) \/ release_map(t, o)
        PROVE  OpsPC'
    BY <2>1, <2>5, Zenon DEF release_handle, release_view, release_lease, release_map
  <2>6. QED
    BY <1>6, <2>2, <2>3, <2>4, <2>5, Zenon DEF Start
<1>7. CASE validate_alive(t)
  <2>1. CASE Goto(t, op[t])
    <3>1. op[t] \in HandleOps
      BY <1>7 DEF validate_alive, ArgOK, UsingPC
    <3>2. QED
      BY <1>1, <1>3, <2>1, <3>1 DEF Goto, callVars, CallTypes, OpsPC, HandleOps
  <2>2. QED
    BY <1>4, <1>7, <2>1 DEF validate_alive
<1>8. CASE view(t) \/ map_locked(t) \/ copy(t)
  BY <1>1, <1>3, <1>8, Zenon DEF view, map_locked, copy, CallTypes, OpsPC
<1>9. CASE \/ register_control(t) \/ retain_new(t) \/ share(t) \/ view_retain(t)
           \/ map(t) \/ map_retain(t) \/ acquire_read(t) \/ acquire_write(t)
           \/ acquire_exclusive(t) \/ copy_memory(t) \/ export_descriptor(t)
           \/ drop_ref(t) \/ finalize_release(t) \/ finalize_erase(t)
  BY <1>4, <1>5, <1>9
     DEF register_control, retain_new, share, view_retain, map, map_retain, Pin,
         acquire_read, acquire_write, acquire_exclusive, Grant, Refuse, copy_memory,
         export_descriptor, drop_ref, finalize_release, finalize_erase, FinalizeReturn
<1>10. CASE finalize(t)
  BY <1>4, <1>5, <1>10 DEF finalize, FinalizeReturn
<1>11. CASE migrate(t) \/ migrate_locked(t)
  <2>1. ASSUME NEW next \in MigratePC, Goto(t, next), pc[t] \in MigratePC
        PROVE  OpsPC'
    BY <1>1, <1>3, <2>1 DEF Goto, callVars, CallTypes, OpsPC
  <2>2. QED
    BY <1>4, <1>11, <2>1 DEF migrate, migrate_locked
<1>12. CASE finalize_by_id(t) \/ invalidate_store(t) \/ invalidate_relock(t)
  <2>1. ASSUME NEW next \in InvalidatePC, Goto(t, next), pc[t] \in InvalidatePC
        PROVE  OpsPC'
    BY <1>1, <1>3, <2>1, Zenon DEF Goto, callVars, CallTypes, OpsPC
  <2>2. QED
    BY <1>4, <1>12, <2>1 DEF finalize_by_id, invalidate_store, invalidate_relock
<1>13. CASE shutdown_snapshot(t) \/ shutdown_check(t) \/ trim(t) \/ reset_backends(t)
  <2>1. ASSUME NEW next \in ShutdownPC, Goto(t, next), pc[t] \in ShutdownPC \/ op[t] = "shutdown"
        PROVE  OpsPC'
    BY <1>1, <1>3, <2>1, Zenon DEF Goto, callVars, CallTypes, OpsPC
  <2>2. QED
    BY <1>4, <1>5, <1>13, <2>1 DEF shutdown_snapshot, shutdown_check, trim, reset_backends
<1>14. QED
  BY <1>6, <1>7, <1>8, <1>9, <1>10, <1>11, <1>12, <1>13, Zenon DEF Continue

\* Releases that have not yet reached drop_ref's decrement.
Dropping == {t \in Threads : pc[t] = "drop_ref"}

\* What a step does to the reference count and to the objects.
Gains(t) ==
  /\ refs' = refs + 1
  /\ \E k \in ObjectKinds \ {"none"}, g \in Segs, s \in {0, ptr[t]} : NewObject(k, g, s)
  /\ pc[t] # "drop_ref" /\ pc'[t] = "idle"
Releases(t) ==
  /\ UNCHANGED refs
  /\ \E o \in Objects : obj[o].kind # "none" /\ Discard(o)
  /\ pc[t] = "idle" /\ pc'[t] = "drop_ref"
Keeps(t) == UNCHANGED <<refs, obj>> /\ pc[t] # "drop_ref" /\ pc'[t] # "drop_ref"

\* A step gains an object with its reference, gives one up, drops a reference,
\* or leaves both alone; invalidate alone overwrites the count.
LEMMA RefSteps ==
  ASSUME Types, ArgOK, NEW t \in Threads, Start(t) \/ Continue(t)
  PROVE  Gains(t) \/ Releases(t) \/ drop_ref(t) \/ Keeps(t) \/ invalidate_store(t)
<1> USE DEF ObjectKinds, LeaseKinds
<1>1. CallTypes /\ BindTypes /\ ObjectTypes /\ 0 \in Segs /\ Gens \subseteq Segs
  BY GenFacts DEF Types
<1>2. pc[t] \in UsingPC => obj[arg[t]].gen \in Segs
  BY <1>1 DEF ArgOK, ObjectTypes, ObjectType
<1>3. CASE retain_new(t)
  BY <1>1, <1>3, Zenon DEF retain_new, retain, Return, Gains, CallTypes, BindTypes
<1>4. CASE share(t) \/ view_retain(t) \/ map_retain(t)
  BY <1>1, <1>2, <1>4
     DEF share, view_retain, map_retain, Pin, retain, Return, Gains, CallTypes, UsingPC,
         HandleOps
<1>5. CASE acquire_read(t) \/ acquire_write(t) \/ acquire_exclusive(t)
  <2>1. pc[t] \in UsingPC /\ pc[t] # "drop_ref"
    BY <1>5 DEF acquire_read, acquire_write, acquire_exclusive, UsingPC, HandleOps
  <2>2. ASSUME NEW k \in LeaseKinds, Grant(t, k) PROVE Gains(t)
    BY <1>1, <1>2, <2>1, <2>2 DEF Grant, retain, Return, Gains, CallTypes
  <2>3. CASE Refuse(t)
    BY <1>1, <2>1, <2>3, Zenon DEF Refuse, Return, Keeps, CallTypes
  <2>4. QED
    BY <1>5, <2>2, <2>3 DEF acquire_read, acquire_write, acquire_exclusive
<1>6. ASSUME NEW o \in Objects,
             \/ release_handle(t, o) \/ release_view(t, o)
             \/ release_lease(t, o) \/ release_map(t, o)
      PROVE  Releases(t)
  BY <1>1, <1>6, Zenon DEF release_handle, release_view, release_lease, release_map, Enter,
                    Releases, CallTypes
<1>7. CASE \/ \E o \in Objects, call \in HandleOps : begin(t, call, o)
           \/ allocate(t) \/ wrap_external(t) \/ import_shared(t) \/ lookup(t)
           \/ invalidate(t) \/ pool_trim(t) \/ shutdown(t)
  BY <1>1, <1>7 DEF begin, allocate, wrap_external, import_shared, Create, lookup,
                    invalidate, pool_trim, shutdown, Enter, Keeps, CallTypes
<1>8. CASE validate_alive(t)
  <2>1. op[t] # "drop_ref"
    BY <1>8, Zenon DEF validate_alive, ArgOK, UsingPC, HandleOps
  <2>2. QED
    BY <1>1, <1>8, <2>1, Zenon DEF validate_alive, Goto, Return, Keeps, CallTypes
<1>9. CASE \/ register_control(t) \/ view(t) \/ map(t) \/ map_locked(t) \/ copy(t)
           \/ copy_memory(t) \/ export_descriptor(t) \/ migrate(t) \/ migrate_locked(t)
  BY <1>1, <1>9, Zenon DEF register_control, view, map, map_locked, copy, copy_memory,
                    export_descriptor, migrate, migrate_locked, Goto, Return, Keeps,
                    CallTypes
<1>10. CASE \/ finalize_release(t) \/ finalize_erase(t) \/ finalize_by_id(t)
            \/ invalidate_relock(t) \/ trim(t) \/ shutdown_snapshot(t)
            \/ shutdown_check(t) \/ reset_backends(t)
  BY <1>1, <1>10 DEF finalize_release, finalize_erase, FinalizeReturn, finalize_by_id,
                     invalidate_relock, trim, shutdown_snapshot, shutdown_check,
                     reset_backends, Goto, Return, Keeps, CallTypes
<1>11. CASE finalize(t)
  <2>1. FinalizeReturn(t) \/ Goto(t, "finalize_release")
    BY <1>11 DEF finalize
  <2>2. QED
    BY <1>1, <1>11, <2>1 DEF finalize, FinalizeReturn, Goto, Return, Keeps, CallTypes
<1>12. QED
  BY <1>3, <1>4, <1>5, <1>6, <1>7, <1>8, <1>9, <1>10, <1>11, Zenon DEF Start, Continue

\* The sets that the reference count counts are finite.
LEMMA FiniteRefs ==
  /\ IsFiniteSet(Live) /\ Cardinality(Live) \in Nat
  /\ IsFiniteSet(Dropping) /\ Cardinality(Dropping) \in Nat
<1>1. Live \subseteq Objects /\ Dropping \subseteq Threads
  BY DEF Live, Dropping
<1>2. QED
  BY <1>1, ObjectsAssumption, ThreadsAssumption, FS_Subset, FS_CardinalityType

\* Every step but invalidate's store keeps the reference count exact.
LEMMA StepRefs ==
  ASSUME Types, ArgOK, RefsExact, NEW t \in Threads, Start(t) \/ Continue(t),
         ~invalidate_store(t)
  PROVE  RefsExact'
<1>1. CallTypes /\ ObjectTypes /\ refs \in Int
  BY DEF Types, ControlTypes
<1>2. \A u \in Threads \ {t} : pc'[u] = pc[u]
  BY <1>1, OtherThreads
<1>3. refs = Cardinality(Live) + Cardinality(Dropping)
  BY DEF RefsExact, Dropping
<1>4. SUFFICES refs' = Cardinality(Live)' + Cardinality(Dropping)'
  BY DEF RefsExact, Dropping
<1>5. CASE Keeps(t)
  <2>1. Live' = Live /\ Dropping' = Dropping
    BY <1>2, <1>5 DEF Keeps, Live, Dropping
  <2>2. QED
    BY <1>3, <1>5, <2>1 DEF Keeps
<1>6. CASE Gains(t)
  <2>1. Dropping' = Dropping
    BY <1>2, <1>6, Zenon DEF Gains, Dropping
  <2>2. PICK o \in Objects : o \notin Live /\ Live' = Live \cup {o}
    BY <1>1, <1>6 DEF Gains, NewObject, Live, ObjectTypes
  <2>3. Cardinality(Live)' = Cardinality(Live) + 1
    BY <2>2, FiniteRefs, FS_AddElement, Zenon
  <2>4. QED
    BY <1>3, <1>6, <2>1, <2>3, FiniteRefs DEF Gains
<1>7. CASE Releases(t)
  <2>1. t \notin Dropping /\ Dropping' = Dropping \cup {t}
    BY <1>2, <1>7 DEF Releases, Dropping
  <2>2. Cardinality(Dropping)' = Cardinality(Dropping) + 1
    BY <2>1, FiniteRefs, FS_AddElement, Zenon
  <2>3. PICK o \in Objects : o \in Live /\ Live' = Live \ {o}
    BY <1>1, <1>7 DEF Releases, Discard, Live, ObjectTypes
  <2>4. Cardinality(Live)' = Cardinality(Live) - 1
    BY <2>3, FiniteRefs, FS_RemoveElement, Zenon
  <2>5. QED
    BY <1>3, <1>7, <2>2, <2>4, FiniteRefs DEF Releases
<1>8. CASE drop_ref(t)
  <2>1. t \in Dropping /\ Dropping' = Dropping \ {t} /\ Live' = Live
    BY <1>1, <1>2, <1>8 DEF drop_ref, Goto, Return, Dropping, Live, CallTypes
  <2>2. Cardinality(Dropping)' = Cardinality(Dropping) - 1
    BY <2>1, FiniteRefs, FS_RemoveElement, Zenon
  <2>3. QED
    BY <1>3, <1>8, <2>1, <2>2, FiniteRefs DEF drop_ref
<1>9. QED
  BY <1>5, <1>6, <1>7, <1>8, RefSteps
-----------------------------------------------------------------------------
(***************************************************************************)
(* Without invalidate: nothing is kept for ever.                           *)
(***************************************************************************)

\* Between its creation and register_control the buffer is its creator's.
Fresh ==
  \A t \in Threads : pc[t] = "register_control" =>
    /\ ~registry /\ ~finalized
    /\ \A o \in Objects : obj[o].kind = "none"
    /\ \A u \in Threads \ {t} : pc[u] \in EarlyPC

\* A buffer that is not finalized has a client, or a thread that is about to
\* hand it out or to finalize it.
Owed ==
  state # "DECLARED" /\ ~finalized =>
    \/ Live # {}
    \/ \E t \in Threads : pc[t] \in {"register_control", "retain_new", "drop_ref", "finalize"}

\* The registry entry does not outlive finalize.
Gone ==
  finalized /\ (\A t \in Threads : pc[t] \notin {"finalize_release", "finalize_erase"})
    => ~registry

\* Only register_control enters the buffer in the registry, and only
\* finalize_erase removes it.
LEMMA RegistrySteps ==
  ASSUME NEW t \in Threads, Start(t) \/ Continue(t)
  PROVE  UNCHANGED registry \/ register_control(t) \/ finalize_erase(t)
<1>1. CASE Start(t)
  BY <1>1, ZenonT(30) DEF Start, begin, allocate, wrap_external, import_shared, Create, lookup,
              invalidate, pool_trim, shutdown, release_handle, release_view,
              release_lease, release_map
<1>2. CASE Continue(t)
  BY <1>2, Zenon DEF Continue, retain_new, validate_alive, share, view, view_retain, map,
              map_locked, map_retain, Pin, acquire_read, acquire_write,
              acquire_exclusive, Grant, Refuse, copy, copy_memory, export_descriptor,
              migrate, migrate_locked, drop_ref, finalize, finalize_release,
              finalize_by_id, invalidate_store, invalidate_relock, trim,
              shutdown_snapshot, shutdown_check, reset_backends
<1>3. QED
  BY <1>1, <1>2, Zenon

\* A thread comes to register_control by creating the buffer.
LEMMA ComesToRegister ==
  ASSUME Types, ArgOK, NEW t \in Threads, Start(t) \/ Continue(t),
         pc'[t] = "register_control"
  PROVE  Created(t)
<1>1. CallTypes
  BY DEF Types
<1>2. CASE allocate(t) \/ wrap_external(t) \/ import_shared(t)
  BY <1>2, DomainsAssumption, Zenon
     DEF allocate, wrap_external, import_shared, Created, Ownership
<1>3. CASE Start(t) /\ ~(allocate(t) \/ wrap_external(t) \/ import_shared(t))
  BY <1>1, <1>3, Zenon DEF Start, begin, lookup, invalidate, pool_trim, shutdown,
                    release_handle, release_view, release_lease, release_map, Enter,
                    CallTypes
<1>4. CASE Continue(t)
  <2>1. CASE validate_alive(t)
    <3>1. op[t] # "register_control"
      BY <2>1, Zenon DEF validate_alive, ArgOK, UsingPC, HandleOps
    <3>2. QED
      BY <1>1, <2>1, <3>1 DEF validate_alive, Goto, Return, CallTypes
  <2>2. CASE finalize(t)
    <3>1. FinalizeReturn(t) \/ Goto(t, "finalize_release")
      BY <2>2, ZenonT(30) DEF finalize
    <3>2. QED
      BY <1>1, <3>1 DEF FinalizeReturn, Goto, Return, CallTypes
  <2>3. CASE ~validate_alive(t) /\ ~finalize(t)
    BY <1>1, <1>4, <2>3, ZenonT(30)
       DEF Continue, register_control, retain_new, share, view, view_retain, map,
           map_locked, map_retain, Pin, acquire_read, acquire_write, acquire_exclusive,
           Grant, Refuse, copy, copy_memory, export_descriptor, migrate,
           migrate_locked, drop_ref, finalize_release, finalize_erase, FinalizeReturn,
           finalize_by_id, invalidate_store, invalidate_relock, trim,
           shutdown_snapshot, shutdown_check, reset_backends, Goto, Return, CallTypes
  <2>4. QED
    BY <2>1, <2>2, <2>3
<1>5. QED
  BY <1>2, <1>3, <1>4

\* Every step keeps a buffer that is not registered yet to its creator.
LEMMA StepFresh ==
  ASSUME Types, ArgOK, Blank, Fresh, NEW t \in Threads, Start(t) \/ Continue(t)
  PROVE  Fresh'
<1>1. \A u \in Threads \ {t} : pc'[u] = pc[u]
  BY OtherThreads DEF Types
<1>2. CASE Created(t)
  <2>1. state = "DECLARED" /\ UNCHANGED <<registry, finalized, obj>>
    BY <1>2 DEF Created, Create
  <2>2. /\ ~registry /\ ~finalized
        /\ \A o \in Objects : obj[o].kind = "none"
        /\ \A u \in Threads : pc[u] \in EarlyPC
    BY <2>1 DEF Blank
  <2>3. "register_control" \notin EarlyPC
    BY DEF EarlyPC
  <2>4. QED
    BY <1>1, <2>1, <2>2, <2>3, Zenon DEF Fresh
<1>3. ASSUME NEW v \in Threads, pc'[v] = "register_control", ~Created(t)
      PROVE  /\ ~registry' /\ ~finalized'
             /\ \A o \in Objects : obj'[o].kind = "none"
             /\ \A u \in Threads \ {v} : pc'[u] \in EarlyPC
  <2>1. v # t /\ pc[v] = "register_control"
    BY <1>1, <1>3, ComesToRegister
  <2>2. /\ ~registry /\ ~finalized
        /\ \A o \in Objects : obj[o].kind = "none"
        /\ \A u \in Threads \ {v} : pc[u] \in EarlyPC
    BY <2>1 DEF Fresh
  <2>3. pc'[t] \in EarlyPC /\ UNCHANGED <<finalized, registry, obj>>
    BY <1>3, <2>1, <2>2, EarlySteps
  <2>4. QED
    BY <1>1, <2>2, <2>3
<1>4. QED
  BY <1>2, <1>3 DEF Fresh

\* The count before the last decrement: another client or another release.
LEMMA NotLast ==
  ASSUME RefsExact, NEW t \in Threads, drop_ref(t), ~LastRef
  PROVE  Live # {} \/ \E u \in Threads \ {t} : pc[u] = "drop_ref"
<1>1. SUFFICES ASSUME Live = {}, Dropping = {t} PROVE FALSE
  BY DEF Dropping, drop_ref
<1>2. Cardinality(Live) = 0 /\ Cardinality(Dropping) = 1
  BY <1>1, FS_EmptySet, FS_Singleton, Zenon
<1>3. QED
  BY <1>2 DEF RefsExact, Dropping, LastRef

\* Every step keeps a buffer that is not finalized owed to somebody.
LEMMA StepOwed ==
  ASSUME Types, ArgOK, Blank, RefsExact, Owed, NEW t \in Threads,
         Start(t) \/ Continue(t), ~invalidate_store(t)
  PROVE  Owed'
<1>1. CallTypes /\ ObjectTypes /\ ControlTypes
  BY DEF Types
<1>2. \A u \in Threads \ {t} : pc'[u] = pc[u]
  BY <1>1, OtherThreads
<1>3. CASE Gains(t)
  <2>1. Live' # {}
    BY <1>1, <1>3 DEF Gains, NewObject, Live, ObjectTypes
  <2>2. QED
    BY <2>1 DEF Owed
<1>4. CASE Releases(t)
  BY <1>4 DEF Releases, Owed
<1>5. CASE drop_ref(t)
  <2>1. CASE LastRef
    BY <1>1, <1>5, <2>1, Zenon DEF drop_ref, Goto, Owed, CallTypes
  <2>2. CASE ~LastRef
    <3>1. Live # {} \/ \E u \in Threads \ {t} : pc[u] = "drop_ref"
      BY <1>5, <2>2, NotLast, Zenon
    <3>2. Live' = Live
      BY <1>5 DEF drop_ref, Live
    <3>3. QED
      BY <1>2, <3>1, <3>2 DEF Owed
  <2>3. QED
    BY <2>1, <2>2
<1>6. CASE Keeps(t)
  <2> SUFFICES ASSUME state' # "DECLARED", ~finalized', Live' = {}
               PROVE  \E u \in Threads : pc'[u] \in {"register_control", "retain_new",
                                                     "drop_ref", "finalize"}
    BY DEF Owed
  <2>1. CASE Created(t)
    BY <1>1, <2>1 DEF Created, Create, Enter, CallTypes
  <2>2. CASE ~Created(t)
    <3>1. state # "DECLARED" /\ ~finalized /\ ~finalize(t)
      <4>1. ~finalize(t)
        BY DEF finalize
      <4>2. CASE Steady(t)
        BY <4>1, <4>2 DEF Steady, Usable
      <4>3. CASE Swap(t)
        BY <4>1, <4>3, Zenon DEF Swap, Blank, EarlyPC
      <4>4. CASE finalize_release(t) \/ trim(t)
        BY <4>1, <4>4 DEF finalize_release, trim, Blank, EarlyPC
      <4>5. QED
        BY <2>2, <4>1, <4>2, <4>3, <4>4, BindingSteps, Zenon
    <3>2. Live = {}
      BY <1>6 DEF Keeps, Live
    <3>3. PICK u \in Threads : pc[u] \in {"register_control", "retain_new", "drop_ref",
                                          "finalize"}
      BY <3>1, <3>2 DEF Owed
    <3>4. CASE u # t
      BY <1>2, <3>3, <3>4
    <3>5. CASE u = t
      <4>1. register_control(t)
        <5>1. ~Start(t)
          BY <3>3, <3>5, ZenonT(30)
             DEF Start, begin, allocate, wrap_external, import_shared, Create, lookup,
                 invalidate, pool_trim, shutdown, release_handle, release_view,
                 release_lease, release_map, Enter
        <5>2. ~retain_new(t)
          <6>1. refs \in Int /\ refs' = refs
            BY <1>1, <1>6 DEF Keeps, ControlTypes
          <6>2. QED
            BY <6>1 DEF retain_new, retain
        <5>3. QED
          BY <1>6, <3>1, <3>3, <3>5, <5>1, <5>2, ZenonT(30)
             DEF Continue, Keeps, validate_alive, share, view, view_retain, map,
                 map_locked, map_retain, acquire_read, acquire_write, acquire_exclusive,
                 copy, copy_memory, export_descriptor, migrate, migrate_locked,
                 drop_ref, finalize_release, finalize_erase, finalize_by_id,
                 invalidate_store, invalidate_relock, trim, shutdown_snapshot,
                 shutdown_check, reset_backends
      <4>2. QED
        BY <1>1, <4>1, ZenonT(30) DEF register_control, Goto, CallTypes
    <3>6. QED
      BY <3>4, <3>5
  <2>3. QED
    BY <2>1, <2>2
<1>7. QED
  BY <1>3, <1>4, <1>5, <1>6, RefSteps

\* Every step keeps a finalized buffer out of the registry.
LEMMA StepGone ==
  ASSUME Types, ArgOK, Fresh, Gone, NEW t \in Threads, Start(t) \/ Continue(t)
  PROVE  Gone'
<1>1. CallTypes /\ ControlTypes
  BY DEF Types
<1>2. \A u \in Threads \ {t} : pc'[u] = pc[u]
  BY <1>1, OtherThreads, Zenon
<1>3. CASE register_control(t)
  <2>1. ~finalized /\ UNCHANGED finalized
    BY <1>3, ZenonT(30) DEF register_control, Fresh
  <2>2. QED
    BY <2>1 DEF Gone
<1>4. CASE finalize_erase(t)
  BY <1>4, Zenon DEF finalize_erase, Gone
<1>5. CASE UNCHANGED registry /\ ~finalize_erase(t)
  <2>1. CASE finalize(t) /\ ~finalized
    <3>1. pc'[t] = "finalize_release"
      BY <1>1, <2>1, Zenon DEF finalize, Goto, CallTypes
    <3>2. QED
      BY <3>1 DEF Gone
  <2>2. CASE finalize_release(t)
    BY <1>1, <2>2 DEF finalize_release, Goto, CallTypes, Gone
  <2>3. ASSUME finalized' => finalized, pc[t] \notin {"finalize_release", "finalize_erase"}
        PROVE  Gone'
    BY <1>2, <1>5, <2>3 DEF Gone
  <2>4. CASE Created(t) \/ Swap(t) \/ trim(t)
    BY <2>3, <2>4 DEF Created, Create, Enter, Swap, trim
  <2>5. CASE Steady(t)
    <3>1. pc[t] # "finalize_erase"
      <4>1. CASE Start(t)
        BY <4>1, ZenonT(30)
           DEF Start, begin, allocate, wrap_external, import_shared, Create, lookup,
                    invalidate, pool_trim, shutdown, release_handle, release_view,
                    release_lease, release_map, Enter
      <4>2. CASE Continue(t)
        BY <1>5, <4>2, ZenonT(30)
           DEF Continue, register_control, retain_new, validate_alive, share, view,
               view_retain, map, map_locked, map_retain, acquire_read, acquire_write,
               acquire_exclusive, copy, copy_memory, export_descriptor, migrate,
               migrate_locked, drop_ref, finalize, finalize_release, finalize_by_id,
               invalidate_store, invalidate_relock, trim, shutdown_snapshot,
               shutdown_check, reset_backends
      <4>3. QED
        BY <4>1, <4>2, Zenon
    <3>2. QED
      BY <2>3, <2>5, <3>1 DEF Steady
  <2>6. QED
    BY <2>1, <2>2, <2>4, <2>5, BindingSteps, Zenon
<1>6. QED
  BY <1>3, <1>4, <1>5, RegistrySteps

RefInv == LifeInv /\ OpsPC /\ RefsExact /\ Fresh /\ Owed /\ Gone

\* The invariant holds before anything has happened.
LEMMA InitRef == Init => RefInv
<1> SUFFICES ASSUME Init PROVE RefInv
  OBVIOUS
<1>1. LifeInv
  BY InitLife, Zenon
<1>2. OpsPC /\ Fresh
  BY DEF Init, OpsPC, InvalidatePC, ShutdownPC, MigratePC, Fresh
<1>3. Owed /\ Gone
  BY DEF Init, Owed, Gone
<1>4. RefsExact
  <2>1. Live = {} /\ {t \in Threads : pc[t] = "drop_ref"} = {}
    BY DEF Init, Live
  <2>2. Cardinality(Live) = 0 /\ Cardinality({t \in Threads : pc[t] = "drop_ref"}) = 0
    BY <2>1, FS_EmptySet
  <2>3. QED
    BY <2>2 DEF Init, RefsExact
<1>5. QED
  BY <1>1, <1>2, <1>3, <1>4 DEF RefInv

\* Every step keeps it, when invalidate is not called.
LEMMA NextRef ==
  ASSUME "invalidate" \notin Ops
  PROVE  RefInv /\ [Next]_vars => RefInv'
<1> SUFFICES ASSUME RefInv, [Next]_vars PROVE RefInv'
  OBVIOUS
<1>1. LifeInv'
  BY NextLife DEF RefInv
<1>2. CASE UNCHANGED vars
  <2>1. OpsPC' /\ Fresh' /\ Gone'
    BY <1>2, Zenon DEF RefInv, OpsPC, Fresh, Gone, vars, callVars
  <2>2. RefsExact' /\ Owed'
    BY <1>2 DEF RefInv, RefsExact, Owed, Live, vars
  <2>3. QED
    BY <1>1, <2>1, <2>2, Zenon DEF RefInv
<1>3. ASSUME NEW t \in Threads, Start(t) \/ Continue(t)
      PROVE  RefInv'
  <2>1. Types /\ ArgOK /\ Blank /\ OpsPC /\ Fresh /\ RefsExact /\ Owed /\ Gone
    BY DEF RefInv, LifeInv, IInv
  <2>2. ~invalidate_store(t)
    BY <2>1 DEF invalidate_store, OpsPC, InvalidatePC
  <2>3. OpsPC' /\ Fresh' /\ RefsExact' /\ Owed' /\ Gone'
    BY <1>3, <2>1, <2>2, StepOpsPC, StepFresh, StepRefs, StepOwed, StepGone, Zenon
  <2>4. QED
    BY <1>1, <2>3 DEF RefInv
<1>4. QED
  BY <1>2, <1>3 DEF Next

\* Control::refs is exactly the number of client objects and pending releases
\* as long as invalidate, which stores 0 into it, is not called.
THEOREM ReferencesAreExact ==
  ASSUME "invalidate" \notin Ops
  PROVE  Spec => []RefsExact
<1>1. RefInv => RefsExact
  BY DEF RefInv
<1>2. RefInv /\ [Next]_vars => RefInv'
  BY NextRef, Zenon
<1>3. QED
  BY <1>1, <1>2, InitRef, PTL DEF Spec

\* Only a call of migrate comes to rebind the buffer.
Movers == \A t \in Threads : pc[t] \in MovingPC => op[t] = "migrate"

\* When borrowed wraps are not migrated, the caller's memory stays bound.
LoanKept ==
  ownership = "BORROWED" =>
    generation = 1 /\ \A t \in Threads : pc[t] \in UsingPC => op[t] # "migrate"

\* Every step keeps both.
LEMMA StepLoan ==
  ASSUME "migrate_borrowed" \notin Ops, Types, ArgOK, Blank, Movers, LoanKept,
         NEW t \in Threads, Start(t) \/ Continue(t)
  PROVE  Movers' /\ LoanKept'
<1> USE DEF MovingPC
<1>1. \A u \in Threads \ {t} : pc'[u] = pc[u] /\ op'[u] = op[u]
  BY OtherThreads, Zenon DEF Types
<1>2. MovingPC \subseteq UsingPC /\ EarlyPC \cap UsingPC = {}
  BY DEF UsingPC, HandleOps, EarlyPC
<1>3. pc'[t] \in MovingPC => op'[t] = "migrate"
  <2>1. pc[t] \in UsingPC => op[t] # "migrate_locked"
    BY DEF ArgOK, HandleOps
  <2>2. QED
    BY <1>2, <2>1, UsingSteps, Zenon DEF Movers
<1>4. CASE Created(t)
  <2>1. \A u \in Threads : pc[u] \in EarlyPC
    BY <1>4, Zenon DEF Created, Create, Blank
  <2>2. generation' = 1 /\ pc'[t] = "register_control"
    BY <1>4, Zenon DEF Created, Create, Enter, Types, CallTypes
  <2>3. pc'[t] \notin UsingPC
    BY <2>2 DEF UsingPC, HandleOps
  <2>4. QED
    BY <1>1, <1>2, <1>3, <2>1, <2>2, <2>3, Zenon DEF Movers, LoanKept
<1>5. CASE ~Created(t)
  <2>1. ~(ownership = "BORROWED" /\ Swap(t))
    BY <1>2, Zenon DEF Swap, Movers, LoanKept
  <2>2. ownership' = "BORROWED" => ownership = "BORROWED"
    BY <1>5, BindingSteps, Zenon DEF Steady, Swap, finalize, finalize_release, trim, bindVars
  <2>3. ownership' = "BORROWED" => generation' = generation
    BY <1>5, <2>1, <2>2, BindingSteps, Zenon
       DEF Steady, finalize, finalize_release, trim, bindVars
  <2>4. ownership' = "BORROWED" /\ pc'[t] \in UsingPC => op'[t] # "migrate"
    BY <2>2, UsingSteps, Zenon DEF LoanKept
  <2>5. QED
    BY <1>1, <1>3, <2>2, <2>3, <2>4, Zenon DEF Movers, LoanKept
<1>6. QED
  BY <1>4, <1>5, Zenon

\* With migration, imports and shutdown, but without invalidate and with no
\* borrowed wrap migrated, a buffer that nobody refers to is finalized,
\* unregistered and unlocked, and no memory is left but the caller's own or raw
\* memory whose backend shutdown has reset.
THEOREM LeaksOnlyAfterShutdown ==
  ASSUME "invalidate" \notin Ops, "migrate_borrowed" \notin Ops
  PROVE  Spec => []LeakOnlyAfterShutdown
<1> DEFINE LeakInv == RefInv /\ Movers /\ LoanKept
<1>1. LeakInv => LeakOnlyAfterShutdown
  <2> SUFFICES ASSUME RefInv, LoanKept, state # "DECLARED", Live = {},
                      \A t \in Threads : pc[t] = "idle"
               PROVE  /\ state = "RELEASED" /\ finalized /\ ~registry /\ mtx = NoThread
                      /\ \A g \in Gens : mem[g] = "live" =>
                           \/ g = 1 /\ ownership = "BORROWED"
                           \/ ~backends /\ domain \in RawDomains
    BY DEF LeakOnlyAfterShutdown
  <2>1. finalized
    BY DEF RefInv, Owed
  <2>2. state = "RELEASED"
    BY <2>1 DEF RefInv, LifeInv, MemInv, Finalizing
  <2>3. ~registry
    BY <2>1 DEF RefInv, Gone
  <2>4. mtx = NoThread
    BY DEF RefInv, LifeInv, IInv, Types, ControlTypes, Locked, LockPC
  <2>5. ASSUME NEW g \in Gens, mem[g] = "live"
        PROVE  \/ g = 1 /\ ownership = "BORROWED"
               \/ ~backends /\ domain \in RawDomains
    <3>1. generation \in Gens
      BY DEF RefInv, LifeInv, IInv, Types, BindTypes
    <3>2. g = generation
      BY <2>5, <3>1 DEF RefInv, LifeInv, MemInv, Others, Gens
    <3>3. QED
      BY <2>2, <2>5, <3>2 DEF RefInv, LifeInv, Lost, LoanKept
  <2>6. QED
    BY <2>1, <2>2, <2>3, <2>4, <2>5, Zenon
<1>2. Init => LeakInv
  <2>1. Init => Movers /\ LoanKept
    BY DEF Init, Movers, MovingPC, LoanKept
  <2>2. QED
    BY <2>1, InitRef
<1>3. LeakInv /\ [Next]_vars => LeakInv'
  <2> SUFFICES ASSUME RefInv, Movers, LoanKept, [Next]_vars PROVE LeakInv'
    OBVIOUS
  <2>1. RefInv'
    BY NextRef
  <2>2. CASE UNCHANGED vars
    BY <2>1, <2>2, Zenon DEF Movers, LoanKept, vars, bindVars, callVars
  <2>3. ASSUME NEW t \in Threads, Start(t) \/ Continue(t) PROVE Movers' /\ LoanKept'
    BY <2>3, StepLoan, Zenon DEF RefInv, LifeInv, IInv
  <2>4. QED
    BY <2>1, <2>2, <2>3 DEF Next
<1>4. QED
  BY <1>1, <1>2, <1>3, PTL DEF Spec
-----------------------------------------------------------------------------
(***************************************************************************)
(* Without import_local and shutdown as well: finalized means unreferenced.*)
(***************************************************************************)

\* The operations that decide on a reference count or a registry entry they
\* have read and then act without it.
Counted == Ops \cap {"invalidate", "import_local", "shutdown"} = {}

CreatingPC == {"register_control", "retain_new"}
FinalPC == {"finalize", "finalize_release", "finalize_erase"}
QuietPC == {"idle", "trim"}

Ended == finalized \/ \E t \in Threads : pc[t] \in FinalPC
NoObjects == \A o \in Objects : obj[o].kind = "none"

\* Once a thread has set out to finalize the buffer, nothing refers to it.
Over == Ended => NoObjects /\ \A t \in Threads : pc[t] \in FinalPC \cup QuietPC

\* Until the first handle exists the buffer is its creator's.
Alone ==
  \A t \in Threads : pc[t] \in CreatingPC =>
    ~finalized /\ NoObjects /\ \A u \in Threads \ {t} : pc[u] \in QuietPC

\* With no object left a thread can only trim the pool, or go on finalizing.
LEMMA LateSteps ==
  ASSUME Counted, Types, OpsPC, NEW t \in Threads, Start(t) \/ Continue(t),
         pc[t] \in FinalPC \cup QuietPC, NoObjects, state # "DECLARED"
  PROVE  /\ UNCHANGED obj
         /\ pc'[t] \in FinalPC \cup QuietPC
         /\ pc[t] \in QuietPC => pc'[t] \in QuietPC /\ UNCHANGED <<finalized, state>>
<1> USE DEF FinalPC, QuietPC
<1>1. CallTypes /\ op[t] # "shutdown"
  BY Zenon DEF Types, OpsPC, Counted
<1>2. CASE Start(t)
  <2>1. pool_trim(t)
    BY <1>2, Zenon
       DEF Start, allocate, wrap_external, import_shared, Create, lookup, invalidate,
                shutdown, begin, release_handle, release_view, release_lease,
                release_map, LeaseKinds, Counted, NoObjects
  <2>2. QED
    BY <1>1, <2>1, Zenon DEF pool_trim, Enter, CallTypes
<1>3. CASE Continue(t)
  <2>1. trim(t) \/ finalize(t) \/ finalize_release(t) \/ finalize_erase(t)
    BY <1>3, ZenonT(30)
       DEF Continue, register_control, retain_new, validate_alive, share, view,
           view_retain, map, map_locked, map_retain, acquire_read, acquire_write,
           acquire_exclusive, copy, copy_memory, export_descriptor, migrate,
           migrate_locked, drop_ref, finalize_by_id, invalidate_store,
           invalidate_relock, shutdown_snapshot, shutdown_check, reset_backends
  <2>2. CASE trim(t) \/ finalize_release(t) \/ finalize_erase(t)
    BY <1>1, <2>2, Zenon
       DEF trim, finalize_release, finalize_erase, FinalizeReturn, Goto, Return, CallTypes
  <2>3. CASE finalize(t)
    <3>1. FinalizeReturn(t) \/ Goto(t, "finalize_release")
      BY <2>3, Zenon DEF finalize
    <3>2. QED
      BY <1>1, <2>3, <3>1, Zenon DEF finalize, FinalizeReturn, Goto, Return, CallTypes
  <2>4. QED
    BY <2>1, <2>2, <2>3, Zenon
<1>4. QED
  BY <1>2, <1>3, Zenon

\* The last decrement finds no client object and no other release.
LEMMA LastOne ==
  ASSUME RefsExact, NEW t \in Threads, drop_ref(t), LastRef
  PROVE  NoObjects /\ \A u \in Threads \ {t} : pc[u] # "drop_ref"
<1>1. t \in Dropping /\ Cardinality(Live) + Cardinality(Dropping) = 1
  BY DEF RefsExact, Dropping, LastRef, drop_ref
<1>2. Cardinality(Dropping) # 0
  BY <1>1, FiniteRefs, FS_EmptySet
<1>3. Cardinality(Live) = 0 /\ Cardinality(Dropping) = 1
  BY <1>1, <1>2, FiniteRefs
<1>4. Live = {}
  BY <1>3, FiniteRefs, FS_EmptySet
<1>5. \E u : Dropping = {u}
  BY <1>3, FiniteRefs, FS_Singleton, Zenon
<1>6. QED
  BY <1>1, <1>4, <1>5 DEF Live, NoObjects, Dropping

\* Only the last drop_ref sets out to finalize.
LEMMA ComesToFinalize ==
  ASSUME Counted, Types, ArgOK, OpsPC, NEW t \in Threads, Start(t) \/ Continue(t),
         pc[t] \notin FinalPC, pc'[t] \in FinalPC
  PROVE  drop_ref(t) /\ LastRef
<1> USE DEF FinalPC
<1>1. CallTypes
  BY DEF Types
<1>2. pc[t] # "shutdown_check"
  BY Zenon DEF OpsPC, ShutdownPC, Counted
<1>3. CASE Start(t)
  BY <1>1, <1>3, ZenonT(30)
     DEF Start, allocate, wrap_external, import_shared, Create, lookup, invalidate,
         pool_trim, shutdown, begin, release_handle, release_view, release_lease,
         release_map, Enter, CallTypes
<1>4. CASE validate_alive(t)
  <2>1. op[t] \notin FinalPC
    BY <1>4, Zenon DEF validate_alive, ArgOK, UsingPC, HandleOps
  <2>2. QED
    BY <1>1, <1>4, <2>1 DEF validate_alive, Goto, Return, CallTypes
<1>5. CASE drop_ref(t)
  BY <1>1, <1>5, ZenonT(30) DEF drop_ref, Goto, Return, CallTypes
<1>6. CASE Continue(t) /\ ~validate_alive(t) /\ ~drop_ref(t)
  BY <1>1, <1>2, <1>6, ZenonT(30)
     DEF Continue, register_control, retain_new, share, view, view_retain, map,
         map_locked, map_retain, Pin, acquire_read, acquire_write, acquire_exclusive,
         Grant, Refuse, copy, copy_memory, export_descriptor, migrate, migrate_locked,
         finalize, finalize_release, finalize_erase, finalize_by_id, invalidate_store,
         invalidate_relock, trim, shutdown_snapshot, shutdown_check, reset_backends,
         Goto, Return, CallTypes
<1>7. QED
  BY <1>3, <1>4, <1>5, <1>6, Zenon

\* Every thread is somewhere.
LEMMA WherePC ==
  ASSUME Counted, Types, OpsPC, NEW u \in Threads
  PROVE  pc[u] \in UsingPC \cup FinalPC \cup QuietPC \cup CreatingPC \cup {"drop_ref"}
BY DEF Types, CallTypes, PC, OtherPC, OpsPC, Counted, InvalidatePC, ShutdownPC, FinalPC,
       QuietPC, CreatingPC

\* Every step keeps a buffer that is being finalized unreferenced.
LEMMA StepOver ==
  ASSUME Counted, RefInv, Alone, Over, NEW t \in Threads, Start(t) \/ Continue(t)
  PROVE  Over'
<1>1. /\ Types /\ ArgOK /\ OpsPC /\ Blank /\ HandlesUsed /\ RefsExact
      /\ CallTypes
  BY DEF RefInv, LifeInv, IInv, Types
<1>2. \A u \in Threads \ {t} : pc'[u] = pc[u]
  BY <1>1, OtherThreads, Zenon
<1>3. CASE Ended
  <2>1. NoObjects /\ \A u \in Threads : pc[u] \in FinalPC \cup QuietPC
    BY <1>3 DEF Over
  <2>2. state # "DECLARED"
    BY <1>1, <1>3, Zenon DEF Blank, Ended, EarlyPC, FinalPC
  <2>3. UNCHANGED obj /\ pc'[t] \in FinalPC \cup QuietPC
    BY <1>1, <2>1, <2>2, LateSteps, Zenon
  <2>4. QED
    BY <1>2, <2>1, <2>3 DEF Over, NoObjects
<1>4. CASE ~Ended /\ Ended'
  <2>1. pc[t] \notin FinalPC /\ ~finalized /\ \A u \in Threads : pc[u] \notin FinalPC
    BY <1>4 DEF Ended
  <2>2. ~finalized'
    <3>1. ~finalize(t) /\ ~finalize_release(t)
      BY <2>1, Zenon DEF finalize, finalize_release, FinalPC
    <3>2. QED
      BY <1>1, <2>1, <3>1, BindingSteps, Zenon DEF Steady, Created, Create, Swap, trim
  <2>3. pc'[t] \in FinalPC
    BY <1>2, <1>4, <2>1, <2>2, Zenon DEF Ended
  <2>4. drop_ref(t) /\ LastRef
    BY <1>1, <2>1, <2>3, ComesToFinalize, Zenon
  <2>5. NoObjects /\ \A u \in Threads \ {t} : pc[u] # "drop_ref"
    BY <1>1, <2>4, LastOne
  <2>6. ASSUME NEW u \in Threads \ {t} PROVE pc[u] \in QuietPC
    <3>1. pc[u] \notin UsingPC
      BY <1>1, <2>5, Zenon DEF HandlesUsed, ArgOK, NoObjects
    <3>2. pc[u] \notin CreatingPC
      BY <2>4 DEF Alone, drop_ref, QuietPC
    <3>3. QED
      BY <1>1, <2>1, <2>5, <3>1, <3>2, WherePC, Zenon
  <2>7. UNCHANGED obj
    BY <2>4 DEF drop_ref
  <2>8. QED
    BY <1>2, <2>3, <2>5, <2>6, <2>7, Zenon DEF Over, NoObjects
<1>5. QED
  BY <1>3, <1>4 DEF Over

\* A thread comes to retain_new from register_control.
LEMMA ComesToRetain ==
  ASSUME Types, ArgOK, NEW t \in Threads, Start(t) \/ Continue(t),
         pc'[t] \in CreatingPC
  PROVE  Created(t) \/ register_control(t)
<1> USE DEF CreatingPC
<1>1. CallTypes
  BY DEF Types
<1>2. CASE pc'[t] = "register_control"
  BY <1>2, ComesToRegister
<1>3. CASE pc'[t] = "retain_new"
  <2>1. CASE Start(t)
    BY <1>1, <1>3, <2>1, ZenonT(30)
       DEF Start, allocate, wrap_external, import_shared, Create, lookup, invalidate,
           pool_trim, shutdown, begin, release_handle, release_view, release_lease,
           release_map, Enter, CallTypes
  <2>2. CASE validate_alive(t)
    <3>1. op[t] # "retain_new"
      BY <2>2 DEF validate_alive, ArgOK, UsingPC, HandleOps
    <3>2. QED
      BY <1>1, <1>3, <2>2, <3>1, Zenon DEF validate_alive, Goto, Return, CallTypes
  <2>3. CASE finalize(t)
    <3>1. FinalizeReturn(t) \/ Goto(t, "finalize_release")
      BY <2>3, Zenon DEF finalize
    <3>2. QED
      BY <1>1, <1>3, <3>1, Zenon DEF FinalizeReturn, Goto, Return, CallTypes
  <2>4. CASE Continue(t) /\ ~validate_alive(t) /\ ~finalize(t)
    BY <1>1, <1>3, <2>4, ZenonT(30)
       DEF Continue, retain_new, share, view, view_retain, map,
           map_locked, map_retain, Pin, acquire_read, acquire_write, acquire_exclusive,
           Grant, Refuse, copy, copy_memory, export_descriptor, migrate, migrate_locked,
           drop_ref, finalize_release, finalize_erase, FinalizeReturn, finalize_by_id,
           invalidate_store, invalidate_relock, trim, shutdown_snapshot,
           shutdown_check, reset_backends, Goto, Return, CallTypes
  <2>5. QED
    BY <2>1, <2>2, <2>3, <2>4, Zenon
<1>4. QED
  BY <1>2, <1>3

\* Every step keeps a buffer without its first handle to its creator.
LEMMA StepAlone ==
  ASSUME Counted, RefInv, Alone, NEW t \in Threads, Start(t) \/ Continue(t)
  PROVE  Alone'
<1>1. Types /\ ArgOK /\ OpsPC /\ Blank
  BY DEF RefInv, LifeInv, IInv
<1>2. \A u \in Threads \ {t} : pc'[u] = pc[u]
  BY <1>1, OtherThreads, Zenon DEF Types
<1>3. CASE Created(t)
  <2>1. state = "DECLARED" /\ UNCHANGED <<finalized, obj>>
    BY <1>3 DEF Created, Create
  <2>2. ~finalized /\ NoObjects /\ \A u \in Threads : pc[u] \in EarlyPC
    BY <1>1, <2>1, Zenon DEF Blank, NoObjects
  <2>3. \A u \in Threads : pc[u] \in QuietPC
    BY <1>1, <2>2, Zenon DEF OpsPC, ShutdownPC, Counted, EarlyPC, QuietPC
  <2>4. QED
    BY <1>2, <2>1, <2>2, <2>3, Zenon DEF Alone, NoObjects, QuietPC, CreatingPC
<1>4. CASE register_control(t)
  BY <1>1, <1>2, <1>4, Zenon DEF register_control, Alone, NoObjects, QuietPC, CreatingPC
<1>5. ASSUME NEW v \in Threads, pc'[v] \in CreatingPC, ~Created(t), ~register_control(t)
      PROVE  ~finalized' /\ NoObjects' /\ \A u \in Threads \ {v} : pc'[u] \in QuietPC
  <2>1. v # t /\ pc[v] \in CreatingPC
    BY <1>1, <1>2, <1>5, ComesToRetain, Zenon
  <2>2. ~finalized /\ NoObjects /\ \A u \in Threads \ {v} : pc[u] \in QuietPC
    BY <2>1 DEF Alone
  <2>3. state # "DECLARED"
    BY <1>1, <2>1, Zenon DEF Blank, EarlyPC, CreatingPC
  <2>4. pc'[t] \in QuietPC /\ UNCHANGED <<obj, finalized>>
    BY <1>1, <2>1, <2>2, <2>3, LateSteps, Zenon
  <2>5. QED
    BY <1>2, <2>2, <2>4, Zenon DEF NoObjects
<1>6. QED
  BY <1>3, <1>4, <1>5 DEF Alone

\* Without migration everything that is handed out is of generation 1.
Unmoved ==
  /\ generation = 1 /\ backing \in {0, 1}
  /\ \A o \in Objects : obj[o].seg \in {0, 1}
  /\ \A t \in Threads : ptr[t] \in {0, 1}

\* An address is read from the binding, or forgotten.
LEMMA PtrSteps ==
  ASSUME CallTypes, NEW t \in Threads, Start(t) \/ Continue(t)
  PROVE  ptr'[t] \in {0, ptr[t], backing}
<1> USE DEF CallTypes
<1>1. CASE Start(t)
  BY <1>1, ZenonT(30)
     DEF Start, allocate, wrap_external, import_shared, Create, lookup, invalidate,
              pool_trim, shutdown, begin, release_handle, release_view, release_lease,
              release_map, Enter
<1>2. CASE view(t) \/ map_locked(t) \/ copy(t)
  <2>1. HostMap \in {0, backing}
    BY Zenon DEF HostMap
  <2>2. QED
    BY <1>2, <2>1, Zenon DEF view, map_locked, copy
<1>3. CASE \/ register_control(t) \/ retain_new(t) \/ validate_alive(t) \/ share(t)
           \/ view_retain(t) \/ map(t) \/ map_retain(t) \/ acquire_read(t)
           \/ acquire_write(t) \/ acquire_exclusive(t) \/ copy_memory(t)
           \/ export_descriptor(t) \/ migrate(t) \/ migrate_locked(t)
  BY <1>3 DEF register_control, retain_new, validate_alive, share, view_retain, map,
              map_retain, Pin, acquire_read, acquire_write, acquire_exclusive, Grant,
              Refuse, copy_memory, export_descriptor, migrate, migrate_locked, Goto,
              Return, callVars
<1>4. CASE \/ drop_ref(t) \/ finalize_release(t) \/ finalize_erase(t)
           \/ finalize_by_id(t) \/ invalidate_store(t) \/ invalidate_relock(t)
           \/ trim(t) \/ shutdown_snapshot(t) \/ shutdown_check(t) \/ reset_backends(t)
  BY <1>4, Zenon DEF drop_ref, finalize_release, finalize_erase, FinalizeReturn,
              finalize_by_id, invalidate_store, invalidate_relock, trim,
              shutdown_snapshot, shutdown_check, reset_backends, Goto, Return, callVars
<1>5. CASE finalize(t)
  <2>1. FinalizeReturn(t) \/ Goto(t, "finalize_release")
    BY <1>5, Zenon DEF finalize
  <2>2. QED
    BY <2>1, Zenon DEF FinalizeReturn, Goto, Return, callVars
<1>6. QED
  BY <1>1, <1>2, <1>3, <1>4, <1>5, Zenon DEF Continue

\* Every step but a migration keeps it so.
LEMMA StepUnmoved ==
  ASSUME "migrate" \notin Ops, Types, ArgOK, OpsPC, Unmoved, NEW t \in Threads,
         Start(t) \/ Continue(t)
  PROVE  Unmoved'
<1>1. CallTypes /\ ObjectTypes
  BY DEF Types
<1>2. generation' = 1 /\ backing' \in {0, 1}
  <2>1. ~Swap(t)
    BY DEF Swap, OpsPC, MigratePC
  <2>2. QED
    BY <2>1, BindingSteps, Zenon
       DEF Unmoved, Steady, Created, Create, finalize, finalize_release, trim, bindVars
<1>3. \A u \in Threads : ptr'[u] \in {0, 1}
  <2>1. ptr'[t] \in {0, 1}
    BY <1>1, PtrSteps, Zenon DEF Unmoved
  <2>2. \A u \in Threads \ {t} : ptr'[u] = ptr[u]
    BY <1>1, OtherThreads, Zenon
  <2>3. QED
    BY <2>1, <2>2, Zenon DEF Unmoved
<1>4. \A o \in Objects : obj'[o].seg \in {0, 1}
  <2>1. CASE UNCHANGED obj
    BY <2>1, Zenon DEF Unmoved
  <2>2. ASSUME NEW k, NEW g, NEW s \in {0, 1}, NewObject(k, g, s)
        PROVE  \A o \in Objects : obj'[o].seg \in {0, 1}
    BY <1>1, <2>2 DEF Unmoved, NewObject, ObjectTypes
  <2>3. ASSUME NEW o \in Objects, Discard(o)
        PROVE  \A p \in Objects : obj'[p].seg \in {0, 1}
    BY <1>1, <2>3, Zenon DEF Unmoved, Discard, ObjectTypes
  <2>4. ptr[t] \in {0, 1}
    BY DEF Unmoved
  <2>5. QED
    BY <2>1, <2>2, <2>3, <2>4, ObjectMoves, Zenon DEF release_handle
<1>5. QED
  BY <1>2, <1>3, <1>4 DEF Unmoved

FinalInv == RefInv /\ Alone /\ Over

\* The invariant holds before anything has happened.
LEMMA InitFinal == Init => FinalInv /\ Unmoved
<1> SUFFICES ASSUME Init PROVE FinalInv /\ Unmoved
  BY Zenon
<1>1. RefInv
  BY InitRef
<1>2. Alone /\ Over
  BY Zenon DEF Init, Alone, Over, Ended, CreatingPC, FinalPC
<1>3. Unmoved
  BY DEF Init, Unmoved
<1>4. QED
  BY <1>1, <1>2, <1>3 DEF FinalInv

\* Every step keeps it.
LEMMA NextFinal ==
  ASSUME Counted
  PROVE  FinalInv /\ [Next]_vars => FinalInv'
<1> SUFFICES ASSUME FinalInv, [Next]_vars PROVE FinalInv'
  OBVIOUS
<1>1. RefInv'
  BY NextRef DEF FinalInv, Counted
<1>2. CASE UNCHANGED vars
  <2>1. Alone' /\ Over'
    BY <1>2 DEF FinalInv, Alone, Over, Ended, NoObjects, vars
  <2>2. QED
    BY <1>1, <2>1, Zenon DEF FinalInv
<1>3. ASSUME NEW t \in Threads, Start(t) \/ Continue(t)
      PROVE  FinalInv'
  BY <1>1, <1>3, StepAlone, StepOver DEF FinalInv
<1>4. QED
  BY <1>2, <1>3 DEF Next

\* finalize runs only when no client object is left and no call is using a
\* handle, with migration but without the operations of Counted.
THEOREM FinalizedIsUnreferenced ==
  ASSUME Counted
  PROVE  Spec => []FinalizedUnreferenced
<1>1. FinalInv => FinalizedUnreferenced
  <2> SUFFICES ASSUME FinalInv, finalized
               PROVE  Live = {} /\ \A t \in Threads : pc[t] \notin UsingPC
    BY DEF FinalizedUnreferenced
  <2>1. NoObjects /\ \A t \in Threads : pc[t] \in FinalPC \cup QuietPC
    BY DEF FinalInv, Over, Ended
  <2>2. QED
    BY <2>1 DEF NoObjects, Live, FinalPC, QuietPC, UsingPC, HandleOps
<1>2. FinalInv /\ [Next]_vars => FinalInv'
  BY NextFinal
<1>3. QED
  BY <1>1, <1>2, InitFinal, PTL DEF Spec

\* Without migration either, the address that a view, a map or a copy under way
\* holds is that of memory that is still bound to the buffer.
THEOREM NoPointerDangles ==
  ASSUME Counted, "migrate" \notin Ops
  PROVE  Spec => []NoDanglingPointer
<1> DEFINE PtrInv == FinalInv /\ Unmoved
<1>1. PtrInv => NoDanglingPointer
  <2> SUFFICES ASSUME FinalInv, Unmoved PROVE NoDanglingPointer
    OBVIOUS
  <2>1. state \in Usable => mem[1] = "live"
    BY DEF FinalInv, RefInv, LifeInv, MemInv, Bound, Unmoved
  <2>2. state \in Usable \/ state = "DECLARED" \/ finalized
    BY DEF FinalInv, RefInv, LifeInv, MemInv, StateRange, Finalizing
  <2>3. ASSUME NEW o \in Objects, obj[o].kind \in {"view", "map"}, obj[o].seg # 0
        PROVE  mem[obj[o].seg] = "live"
    <3>1. state # "DECLARED" /\ ~finalized
      BY <2>3, Zenon DEF FinalInv, RefInv, LifeInv, Blank, Over, Ended, NoObjects
    <3>2. QED
      BY <2>1, <2>2, <2>3, <3>1, Zenon DEF Unmoved
  <2>4. ASSUME NEW t \in Threads, pc[t] = "copy_memory", ptr[t] # 0
        PROVE  mem[ptr[t]] = "live"
    <3>1. state # "DECLARED" /\ ~finalized
      BY <2>4 DEF FinalInv, RefInv, LifeInv, Blank, EarlyPC, Over, Ended, FinalPC, QuietPC
    <3>2. QED
      BY <2>1, <2>2, <2>4, <3>1, Zenon DEF Unmoved
  <2>5. QED
    BY <2>3, <2>4 DEF NoDanglingPointer
<1>2. PtrInv /\ [Next]_vars => PtrInv'
  <2> SUFFICES ASSUME FinalInv, Unmoved, [Next]_vars PROVE Unmoved'
    BY NextFinal, Zenon
  <2>1. CASE UNCHANGED vars
    BY <2>1 DEF Unmoved, vars, bindVars, callVars
  <2>2. ASSUME NEW t \in Threads, Start(t) \/ Continue(t)
        PROVE  Unmoved'
    BY <2>2, StepUnmoved DEF FinalInv, RefInv, LifeInv, IInv
  <2>3. QED
    BY <2>1, <2>2 DEF Next
<1>3. Init => PtrInv
  BY InitFinal
<1>4. QED
  BY <1>1, <1>2, <1>3, PTL DEF Spec
-----------------------------------------------------------------------------
(***************************************************************************)
(* Refinement: every step is a step of SharedBuffer, or none.              *)
(***************************************************************************)
Creating == \E t \in Threads : pc[t] \in CreatingPC

\* The status as the promise sees it, by the parts it is made of.
LEMMA StatusParts ==
  /\ AbstractStatus = "released" <=> finalized
  /\ AbstractStatus = "absent" <=> ~finalized /\ state = "DECLARED"
  /\ AbstractStatus = "new" <=> ~finalized /\ state # "DECLARED" /\ Creating
  /\ AbstractStatus = "live" <=> ~finalized /\ state # "DECLARED" /\ ~Creating
BY DEF AbstractStatus, Creating, CreatingPC

\* A step that touches none of the parts leaves the status alone.
LEMMA StatusKept ==
  ASSUME finalized' <=> finalized, state' = "DECLARED" <=> state = "DECLARED",
         Creating' <=> Creating
  PROVE  AbstractStatus' = AbstractStatus
BY Zenon DEF AbstractStatus, Creating, CreatingPC

\* An object that is handed out is obtained: through a handle, and only when
\* the lease counters that count its rivals are zero.
LEMMA StepObtains ==
  ASSUME Counted, FinalInv, NEW t \in Threads, Start(t) \/ Continue(t),
         Gains(t), pc[t] # "retain_new"
  PROVE  \E o \in Objects, k \in Promise!Kinds : Promise!Obtain(o, k)
<1>1. /\ Types /\ ArgOK /\ OpsPC /\ Blank /\ HandlesUsed /\ Counts /\ ObjectTypes
      /\ CallTypes
  BY Zenon DEF FinalInv, RefInv, LifeInv, IInv, Types
<1>2. pc[t] \in UsingPC /\ arg[t] \in Objects /\ obj[arg[t]].kind = "handle"
  <2>1. pc[t] \in UsingPC
    <3>1. pc[t] # "import_retain"
      BY <1>1, Zenon DEF OpsPC, Counted
    <3>2. pc'[t] = "idle" /\ ~UNCHANGED obj
      <4>1. PICK k \in ObjectKinds \ {"none"}, g \in Segs, s \in {0, ptr[t]} :
               pc'[t] = "idle" /\ NewObject(k, g, s)
        BY Zenon DEF Gains
      <4>2. PICK o \in Objects :
               /\ obj[o].kind = "none"
               /\ obj' = [obj EXCEPT ![o] = [kind |-> k, gen |-> g, seg |-> s]]
        BY <4>1, Zenon DEF NewObject
      <4>3. obj'[o].kind = k
        BY <1>1, <4>2 DEF ObjectTypes
      <4>4. QED
        BY <4>1, <4>2, <4>3
    <3>3. CASE Start(t)
      BY <1>1, <3>2, <3>3, ZenonT(30)
         DEF Start, allocate, wrap_external, import_shared, Create, lookup, invalidate,
             pool_trim, shutdown, begin, release_handle, release_view, release_lease,
             release_map, Enter, CallTypes
    <3>4. CASE Continue(t)
      BY <3>1, <3>2, <3>4, ZenonT(30)
         DEF Continue, UsingPC, HandleOps, register_control, retain_new, validate_alive,
             share, view, view_retain, map, map_locked, map_retain, acquire_read,
             acquire_write, acquire_exclusive, copy, copy_memory, export_descriptor,
             migrate, migrate_locked, drop_ref, finalize, finalize_release,
             finalize_erase, finalize_by_id, invalidate_store, invalidate_relock, trim,
             shutdown_snapshot, shutdown_check, reset_backends
    <3>5. QED
      BY <3>3, <3>4, Zenon
  <2>2. QED
    BY <1>1, <2>1, Zenon DEF ArgOK, HandlesUsed
<1>3. ~finalized /\ state # "DECLARED" /\ ~Creating
  <2>1. state # "DECLARED"
    BY <1>1, <1>2, Zenon DEF Blank
  <2>2. ~finalized
    BY <1>2, Zenon DEF FinalInv, Over, Ended, NoObjects
  <2>3. ~Creating
    BY <1>2, Zenon DEF FinalInv, Alone, Creating, NoObjects
  <2>4. QED
    BY <2>1, <2>2, <2>3, Zenon
<1>4. \A u \in Threads \ {t} : pc'[u] = pc[u]
  BY <1>1, OtherThreads, Zenon
<1>5. ~finalized' /\ state' # "DECLARED" /\ ~Creating'
  <2>1. ~Creating'
    BY <1>3, <1>4 DEF Creating, CreatingPC, Gains
  <2>2. ~Created(t) /\ ~finalize(t) /\ ~finalize_release(t) /\ ~trim(t) /\ ~Swap(t)
    BY <1>2, <1>3, <1>4, Zenon
       DEF Created, Create, finalize, finalize_release, trim, Swap, UsingPC, HandleOps,
           Gains
  <2>3. Steady(t)
    BY <1>1, <2>2, BindingSteps, Zenon
  <2>4. QED
    BY <1>3, <2>1, <2>3, Zenon DEF Steady, Usable
<1>6. AbstractStatus = "live" /\ AbstractStatus' = AbstractStatus
  BY <1>3, <1>5, StatusParts, StatusKept, Zenon
<1>7. PICK k \in ObjectKinds \ {"none"}, g \in Segs, s \in {0, ptr[t]} : NewObject(k, g, s)
  BY DEF Gains
<1>8. PICK o \in Objects :
         /\ obj[o].kind = "none"
         /\ obj' = [obj EXCEPT ![o] = [kind |-> k, gen |-> g, seg |-> s]]
  BY <1>7, Zenon DEF NewObject
<1>9. k \in Promise!Kinds
  BY DEF Promise!Kinds, Promise!Leases, ObjectKinds, LeaseKinds
<1>10. [p \in Objects |-> obj'[p].kind]
         = [[p \in Objects |-> obj[p].kind] EXCEPT ![o] = k]
  BY <1>1, <1>8, Zenon DEF ObjectTypes
<1>11. /\ NoWriter => \A p \in Objects : obj[p].kind \notin {"write", "exclusive"}
       /\ NoLease => \A p \in Objects : obj[p].kind \notin LeaseKinds
  BY <1>1, ZeroCount, Zenon DEF NoLease, NoWriter, Counts, LeaseKinds
<1>12. ASSUME NEW j, NEW h, NEW r, NewObject(j, h, r)
       PROVE  j = k
  <2>1. PICK p \in Objects : obj' = [obj EXCEPT ![p] = [kind |-> j, gen |-> h, seg |-> r]]
    BY <1>12, Zenon DEF NewObject
  <2>2. obj'[o].kind = k /\ DOMAIN obj = Objects
    BY <1>1, <1>8, Zenon DEF ObjectTypes
  <2>3. p = o
    BY <1>8, <2>1, <2>2, Zenon
  <2>4. QED
    BY <2>1, <2>2, <2>3
<1>13. /\ k = "read" => NoWriter
       /\ k \in {"write", "exclusive"} => NoLease
  <2>1. ASSUME k \in LeaseKinds, Start(t) PROVE FALSE
    BY <1>2, <2>1, ZenonT(30)
       DEF Start, allocate, wrap_external, import_shared, Create, lookup, invalidate,
           pool_trim, shutdown, begin, release_handle, release_view, release_lease,
           release_map, Enter, UsingPC, HandleOps
  <2>2. CASE \/ retain_new(t) \/ share(t) \/ view_retain(t) \/ map_retain(t)
    BY <1>12, <2>2, Zenon DEF retain_new, share, view_retain, map_retain, Pin
  <2>3. CASE acquire_read(t)
    <3>1. Grant(t, "read") \/ Refuse(t)
      BY <2>3, Zenon DEF acquire_read
    <3>2. ~Refuse(t)
      BY <1>1, <1>8 DEF Refuse, ObjectTypes, ObjectKinds
    <3>3. NoWriter /\ NewObject("read", obj[arg[t]].gen, 0)
      BY <2>3, <3>1, <3>2, ZenonT(30) DEF acquire_read, Grant
    <3>4. QED
      BY <1>12, <3>3, Zenon
  <2>4. CASE acquire_write(t) \/ acquire_exclusive(t)
    <3>1. ~Refuse(t)
      BY <1>1, <1>8 DEF Refuse, ObjectTypes, ObjectKinds
    <3>2. NoLease /\ \E j \in {"write", "exclusive"} : NewObject(j, obj[arg[t]].gen, 0)
      BY <2>4, <3>1, ZenonT(30) DEF acquire_write, acquire_exclusive, Grant
    <3>3. QED
      BY <1>12, <3>2, Zenon
  <2>5. CASE UNCHANGED obj
    <3>1. obj'[o].kind = k /\ obj[o].kind = "none"
      BY <1>1, <1>8, Zenon DEF ObjectTypes
    <3>2. QED
      BY <2>5, <3>1, ZenonT(30)
  <2>6. CASE Continue(t) /\ ~UNCHANGED obj
    BY <2>2, <2>3, <2>4, <2>6, ZenonT(30)
       DEF Continue, register_control, validate_alive, view, map, map_locked, copy,
           copy_memory, export_descriptor, migrate, migrate_locked, drop_ref, finalize,
           finalize_release, finalize_erase, finalize_by_id, invalidate_store,
           invalidate_relock, trim, shutdown_snapshot, shutdown_check, reset_backends
  <2>7. QED
    BY <2>1, <2>5, <2>6, Zenon DEF LeaseKinds
<1>14. Promise!Compatible(k)
  BY <1>11, <1>13 DEF Promise!Compatible, Promise!HeldAs, Promise!Leases, LeaseKinds
<1>15. Promise!HeldAs({"handle"}) # {}
  BY <1>2, Zenon DEF Promise!HeldAs
<1>16. Promise!Obtain(o, k)
  BY <1>6, <1>8, <1>10, <1>14, <1>15, Zenon DEF Promise!Obtain
<1>17. QED
  BY <1>9, <1>16, Zenon

\* The first handle makes a new buffer a live one.
LEMMA StepFirst ==
  ASSUME Counted, FinalInv, NEW t \in Threads, retain_new(t), pc[t] = "retain_new"
  PROVE  \E o \in Objects : Promise!First(o)
<1>1. Types /\ Blank /\ ObjectTypes /\ CallTypes
  BY DEF FinalInv, RefInv, LifeInv, IInv, Types
<1>2. ~finalized /\ \A u \in Threads \ {t} : pc[u] \in QuietPC
  BY Zenon DEF FinalInv, Alone, CreatingPC
<1>3. state # "DECLARED" /\ Creating
  BY <1>1, Zenon DEF Blank, EarlyPC, Creating, CreatingPC
<1>4. ~finalized' /\ state' # "DECLARED" /\ ~Creating'
  <2>1. UNCHANGED <<finalized, state>> /\ pc' = [pc EXCEPT ![t] = "idle"]
    BY Zenon DEF retain_new, Return
  <2>2. QED
    BY <1>1, <1>2, <1>3, <2>1, Zenon DEF Creating, CreatingPC, QuietPC, CallTypes
<1>5. AbstractStatus = "new" /\ AbstractStatus' = "live"
  BY <1>2, <1>3, <1>4, StatusParts, Zenon DEF AbstractStatus, Creating, CreatingPC
<1>6. PICK o \in Objects :
         obj' = [obj EXCEPT ![o] = [kind |-> "handle", gen |-> generation, seg |-> 0]]
  BY Zenon DEF retain_new, NewObject
<1>7. [p \in Objects |-> obj'[p].kind]
        = [[p \in Objects |-> obj[p].kind] EXCEPT ![o] = "handle"]
  BY <1>1, <1>6, Zenon DEF ObjectTypes
<1>8. Promise!First(o)
  BY <1>5, <1>7, Zenon DEF Promise!First
<1>9. QED
  BY <1>8

\* A step that gains no object leaves the creators where they are, unless it
\* creates the buffer.
LEMMA CreatingKept ==
  ASSUME Types, ArgOK, NEW t \in Threads, Start(t) \/ Continue(t),
         ~Created(t), ~retain_new(t)
  PROVE  Creating' <=> Creating
<1>1. CallTypes /\ \A u \in Threads \ {t} : pc'[u] = pc[u]
  BY OtherThreads, Zenon DEF Types
<1>2. CASE register_control(t)
  BY <1>1, <1>2, Zenon DEF register_control, Goto, Creating, CreatingPC, CallTypes
<1>3. CASE ~register_control(t)
  <2>1. pc'[t] \notin CreatingPC
    BY <1>3, ComesToRetain, Zenon
  <2>2. pc[t] \notin CreatingPC
    <3>1. CASE Start(t)
      BY <3>1, ZenonT(30)
         DEF Start, allocate, wrap_external, import_shared, Create, lookup, invalidate,
             pool_trim, shutdown, begin, release_handle, release_view, release_lease,
             release_map, Enter, CreatingPC
    <3>2. CASE Continue(t)
      BY <1>3, <3>2, ZenonT(30)
         DEF Continue, CreatingPC, validate_alive, share, view, view_retain, map,
             map_locked, map_retain, acquire_read, acquire_write, acquire_exclusive,
             copy, copy_memory, export_descriptor, migrate, migrate_locked, drop_ref,
             finalize, finalize_release, finalize_erase, finalize_by_id,
             invalidate_store, invalidate_relock, trim, shutdown_snapshot,
             shutdown_check, reset_backends
    <3>3. QED
      BY <3>1, <3>2, Zenon
  <2>3. QED
    BY <1>1, <2>1, <2>2, Zenon DEF Creating
<1>4. QED
  BY <1>2, <1>3, Zenon

\* Every step is a step of the promise, or changes nothing of it.
LEMMA StepPromise ==
  ASSUME Counted, FinalInv, NEW t \in Threads, Start(t) \/ Continue(t)
  PROVE  [Promise!Next]_(Promise!vars)
<1>1. /\ Types /\ ArgOK /\ OpsPC /\ Blank /\ ObjectTypes /\ CallTypes /\ ControlTypes
  BY DEF FinalInv, RefInv, LifeInv, IInv, Types
<1>2. CASE Created(t)
  <2>1. /\ state = "DECLARED" /\ state' # "DECLARED" /\ UNCHANGED <<finalized, obj>>
        /\ pc'[t] = "register_control"
    BY <1>1, <1>2, Zenon DEF Created, Create, Enter, CallTypes
  <2>2. ~finalized /\ ~finalized' /\ Creating'
    BY <1>1, <2>1, Zenon DEF Blank, Creating, CreatingPC
  <2>3. AbstractStatus = "absent" /\ AbstractStatus' = "new"
    BY <2>1, <2>2, Zenon DEF AbstractStatus, Creating, CreatingPC
  <2>4. Promise!Create
    BY <2>1, <2>3 DEF Promise!Create
  <2>5. QED
    BY <2>4, Zenon DEF Promise!Next
<1>3. CASE retain_new(t) /\ pc[t] = "retain_new"
  BY <1>3, StepFirst DEF Promise!Next
<1>4. CASE Gains(t) /\ pc[t] # "retain_new"
  BY <1>4, StepObtains DEF Promise!Next
<1>5. CASE finalize(t) /\ ~finalized
  <2>1. /\ NoObjects /\ ~Creating /\ state # "DECLARED" /\ finalized' /\ UNCHANGED obj
    <3>1. pc[t] = "finalize" /\ finalized' /\ UNCHANGED obj
      BY <1>5 DEF finalize
    <3>2. NoObjects /\ \A u \in Threads : pc[u] \in FinalPC \cup QuietPC
      BY <3>1, Zenon DEF FinalInv, Over, Ended, FinalPC
    <3>3. QED
      BY <1>1, <3>1, <3>2, Zenon DEF Creating, CreatingPC, FinalPC, QuietPC, Blank, EarlyPC
  <2>2. AbstractStatus = "live" /\ AbstractStatus' = "released"
    BY <1>5, <2>1, StatusParts, Zenon DEF AbstractStatus
  <2>3. Promise!GiveUp
    BY <2>1, <2>2, Zenon DEF Promise!GiveUp, Promise!Held, NoObjects
  <2>4. QED
    BY <2>3 DEF Promise!Next
<1>6. CASE /\ ~Created(t) /\ ~(finalize(t) /\ ~finalized) /\ ~retain_new(t)
  <2>1. Creating' <=> Creating
    BY <1>1, <1>6, CreatingKept, Zenon
  <2>2. (finalized' <=> finalized) /\ (state' = "DECLARED" <=> state = "DECLARED")
    <3>1. CASE Steady(t) \/ trim(t)
      <4>1. CASE trim(t)
        BY <4>1, Zenon DEF trim
      <4>2. CASE Steady(t)
        <5>1. finalized' = finalized /\ (state' = state \/ {state, state'} \subseteq Usable)
          BY <4>2, Zenon DEF Steady
        <5>2. "DECLARED" \notin Usable
          BY DEF Usable
        <5>3. QED
          BY <5>1, <5>2, Zenon
      <4>3. QED
        BY <3>1, <4>1, <4>2, Zenon
    <3>2. CASE Swap(t) \/ finalize_release(t)
      BY <1>1, <3>2 DEF Swap, finalize_release, Blank, EarlyPC
    <3>3. QED
      BY <1>1, <1>6, <3>1, <3>2, BindingSteps, Zenon
  <2>3. AbstractStatus' = AbstractStatus
    BY <2>1, <2>2, StatusKept, Zenon
  <2>4. CASE UNCHANGED obj
    BY <2>3, <2>4 DEF Promise!vars
  <2>5. CASE Releases(t)
    <3>1. PICK o \in Objects : obj[o].kind # "none" /\ Discard(o)
      BY <2>5, Zenon DEF Releases
    <3>2. [p \in Objects |-> obj'[p].kind]
            = [[p \in Objects |-> obj[p].kind] EXCEPT ![o] = "none"]
      BY <1>1, <3>1, Zenon DEF Discard, ObjectTypes
    <3>3. Promise!Drop(o)
      BY <2>3, <3>1, <3>2, Zenon DEF Promise!Drop
    <3>4. QED
      BY <3>3 DEF Promise!Next
  <2>6. CASE Gains(t)
    <3>1. CASE pc[t] # "retain_new"
      BY <1>4, <2>6, <3>1, Zenon
    <3>2. CASE pc[t] = "retain_new"
      <4>1. UNCHANGED obj
        <5>1. ~Start(t)
          BY <3>2, ZenonT(30)
             DEF Start, allocate, wrap_external, import_shared, Create, lookup,
                 invalidate, pool_trim, shutdown, begin, release_handle, release_view,
                 release_lease, release_map, Enter
        <5>2. QED
          BY <1>6, <3>2, <5>1, ZenonT(30)
             DEF Continue, register_control, validate_alive, share, view, view_retain,
                 map, map_locked, map_retain, acquire_read, acquire_write,
                 acquire_exclusive, copy, copy_memory, export_descriptor, migrate,
                 migrate_locked, drop_ref, finalize, finalize_release, finalize_erase,
                 finalize_by_id, invalidate_store, invalidate_relock, trim,
                 shutdown_snapshot, shutdown_check, reset_backends
      <4>2. QED
        BY <2>4, <4>1, Zenon
    <3>3. QED
      BY <3>1, <3>2
  <2>7. CASE drop_ref(t) \/ Keeps(t) \/ invalidate_store(t)
    BY <2>4, <2>7, Zenon DEF drop_ref, Keeps, invalidate_store
  <2>8. QED
    BY <1>1, <2>5, <2>6, <2>7, RefSteps, Zenon
<1>7. CASE retain_new(t) /\ pc[t] # "retain_new"
  <2>1. Gains(t)
    <3>1. generation \in Segs /\ 0 \in {0, ptr[t]} /\ "handle" \in ObjectKinds \ {"none"}
      BY <1>1, GenFacts DEF Types, BindTypes, ObjectKinds
    <3>2. QED
      BY <1>1, <1>7, <3>1, Zenon DEF retain_new, retain, Return, Gains, CallTypes
  <2>2. QED
    BY <1>4, <1>7, <2>1, Zenon
<1>8. QED
  BY <1>2, <1>3, <1>5, <1>6, <1>7, Zenon

\* Counters, the control mutex and the finalized flag implement the safety
\* part of SharedBuffer's specification (KeepsPromise without its fairness),
\* with migration but without the operations of Counted: leases exclude each
\* other, objects are obtained through a handle, and the buffer is finalized
\* once, after the last object.
THEOREM ImplementsPromise ==
  ASSUME Counted
  PROVE  Spec => Promise!Init /\ [][Promise!Next]_(Promise!vars)
<1>1. Init => Promise!Init
  BY DEF Init, Promise!Init, AbstractStatus
<1>2. FinalInv /\ [Next]_vars => [Promise!Next]_(Promise!vars)
  <2> SUFFICES ASSUME FinalInv, [Next]_vars PROVE [Promise!Next]_(Promise!vars)
    OBVIOUS
  <2>1. CASE UNCHANGED vars
    BY <2>1 DEF vars, Promise!vars, AbstractStatus
  <2>2. ASSUME NEW t \in Threads, Start(t) \/ Continue(t)
        PROVE  [Promise!Next]_(Promise!vars)
    BY <2>2, StepPromise
  <2>3. QED
    BY <2>1, <2>2 DEF Next
<1>3. FinalInv /\ [Next]_vars => FinalInv'
  BY NextFinal
<1>4. Init => FinalInv
  BY InitFinal
<1>5. QED
  BY <1>1, <1>2, <1>3, <1>4, PTL DEF Spec
=============================================================================
