------------------------ MODULE BufferLifetimeProofs ------------------------
(***************************************************************************)
(* The life of a buffer, for every set of operations, threads, objects and *)
(* domains: its memory is given back once, its state moves by the table,   *)
(* and device memory is mapped only through a stale handle.                *)
(***************************************************************************)
EXTENDS BufferControlProofs

\* The steps taken with Control::mtx held.
LockPC == {"finalize_release", "finalize_erase", "invalidate_store", "invalidate_relock",
           "stuck"}

\* Where a thread can be before the buffer is created.
EarlyPC == {"idle", "snapshot", "trim", "reset_backends"}

\* A step moves the call of its own thread only.
LEMMA OtherThreads ==
  ASSUME CallTypes, NEW t \in Threads, Start(t) \/ Continue(t)
  PROVE  \A u \in Threads \ {t} : /\ pc'[u] = pc[u] /\ op'[u] = op[u]
                                  /\ arg'[u] = arg[u] /\ ptr'[u] = ptr[u]
<1> USE DEF CallTypes
<1>1. ASSUME NEW call, NEW next, NEW h, Enter(t, call, next, h)
      PROVE  \A u \in Threads \ {t} : /\ pc'[u] = pc[u] /\ op'[u] = op[u]
                                      /\ arg'[u] = arg[u] /\ ptr'[u] = ptr[u]
  BY <1>1 DEF Enter
<1>2. ASSUME NEW next, Goto(t, next)
      PROVE  \A u \in Threads \ {t} : /\ pc'[u] = pc[u] /\ op'[u] = op[u]
                                      /\ arg'[u] = arg[u] /\ ptr'[u] = ptr[u]
  BY <1>2 DEF Goto, callVars
<1>3. ASSUME Return(t)
      PROVE  \A u \in Threads \ {t} : /\ pc'[u] = pc[u] /\ op'[u] = op[u]
                                      /\ arg'[u] = arg[u] /\ ptr'[u] = ptr[u]
  BY <1>3 DEF Return
<1>4. ASSUME NEW next, NEW p, ReadAddress(t, next, p)
      PROVE  \A u \in Threads \ {t} : /\ pc'[u] = pc[u] /\ op'[u] = op[u]
                                      /\ arg'[u] = arg[u] /\ ptr'[u] = ptr[u]
  BY <1>4, Zenon DEF ReadAddress
<1>5. CASE Start(t)
  BY <1>1, <1>5, Zenon
     DEF Start, allocate, wrap_external, import_shared, Create, lookup, invalidate,
         pool_trim, shutdown, begin, release_handle, release_view, release_lease,
         release_map
<1>6. CASE view(t) \/ map_locked(t) \/ copy(t)
  BY <1>4, <1>6, Zenon DEF view, map_locked, copy, ReadAddress
<1>7. CASE \/ register_control(t) \/ retain_new(t) \/ validate_alive(t) \/ share(t)
           \/ view_retain(t) \/ map(t) \/ map_retain(t) \/ acquire_read(t)
           \/ acquire_write(t) \/ acquire_exclusive(t) \/ copy_memory(t)
           \/ export_descriptor(t) \/ migrate(t) \/ migrate_locked(t)
  BY <1>2, <1>3, <1>7, Zenon
     DEF register_control, retain_new, validate_alive, share, view_retain, map,
         map_retain, Pin, acquire_read, acquire_write, acquire_exclusive, Grant, Refuse,
         copy_memory, export_descriptor, migrate, migrate_locked
<1>8. CASE \/ drop_ref(t) \/ finalize(t) \/ finalize_release(t) \/ finalize_erase(t)
           \/ finalize_by_id(t) \/ invalidate_store(t) \/ invalidate_relock(t)
           \/ trim(t) \/ shutdown_snapshot(t) \/ shutdown_check(t) \/ reset_backends(t)
  BY <1>2, <1>3, <1>8
     DEF drop_ref, finalize, FinalizeReturn, finalize_release, finalize_erase,
         finalize_by_id, invalidate_store, invalidate_relock, trim, shutdown_snapshot,
         shutdown_check, reset_backends
<1>9. QED
  BY <1>5, <1>6, <1>7, <1>8 DEF Continue

\* Control::mtx is owned by the thread that is inside finalize or invalidate.
Locked == \A t \in Threads : pc[t] \in LockPC <=> mtx = t

\* Every step keeps the ownership of the lock exact.
LEMMA StepLocked ==
  ASSUME Types, ArgOK, Locked, NEW t \in Threads, Start(t) \/ Continue(t)
  PROVE  Locked'
<1> USE DEF LockPC
<1>1. CallTypes
  BY DEF Types
<1>2. /\ \A u \in Threads \ {t} : pc'[u] = pc[u]
      /\ t # NoThread
  BY <1>1, OtherThreads, ThreadsAssumption
<1>3. ASSUME UNCHANGED mtx, pc[t] \notin LockPC, pc'[t] \notin LockPC
      PROVE  Locked'
  BY <1>2, <1>3 DEF Locked
<1>4. CASE Start(t)
  BY <1>1, <1>3, <1>4, ZenonT(30)
     DEF Start, allocate, wrap_external, import_shared, Create, lookup, invalidate,
         pool_trim, shutdown, begin, release_handle, release_view, release_lease,
         release_map, Enter, CallTypes
<1>5. CASE validate_alive(t)
  <2>1. op[t] \in HandleOps
    BY <1>5 DEF validate_alive, ArgOK, UsingPC
  <2>2. QED
    BY <1>1, <1>3, <1>5, <2>1 DEF validate_alive, Goto, Return, CallTypes, HandleOps
<1>6. CASE \/ register_control(t) \/ retain_new(t) \/ share(t) \/ view(t) \/ view_retain(t)
           \/ map(t) \/ map_locked(t) \/ map_retain(t) \/ acquire_read(t)
           \/ acquire_write(t) \/ acquire_exclusive(t) \/ copy(t) \/ copy_memory(t)
  BY <1>1, <1>3, <1>6, Zenon
     DEF register_control, retain_new, share, view, view_retain, map, map_locked,
         map_retain, Pin, acquire_read, acquire_write, acquire_exclusive, Grant, Refuse,
         copy, copy_memory, Goto, Return, CallTypes
<1>7. CASE \/ export_descriptor(t) \/ migrate(t) \/ migrate_locked(t) \/ drop_ref(t)
           \/ trim(t) \/ shutdown_snapshot(t) \/ shutdown_check(t) \/ reset_backends(t)
  BY <1>1, <1>3, <1>7
     DEF export_descriptor, migrate, migrate_locked, drop_ref, trim, shutdown_snapshot,
         shutdown_check, reset_backends, Goto, Return, CallTypes
<1>8. ASSUME mtx = NoThread, mtx' = t, pc'[t] \in LockPC PROVE Locked'
  BY <1>2, <1>8, ThreadsAssumption DEF Locked
<1>9. CASE finalize(t)
  <2>1. CASE finalized
    BY <1>1, <1>3, <1>9, <2>1 DEF finalize, FinalizeReturn, Goto, Return, CallTypes
  <2>2. CASE ~finalized
    BY <1>1, <1>8, <1>9, <2>2 DEF finalize, Goto, CallTypes
  <2>3. QED
    BY <2>1, <2>2
<1>10. CASE finalize_by_id(t)
  <2>1. CASE refs > 0 \/ finalized
    BY <1>1, <1>3, <1>10, <2>1 DEF finalize_by_id, Return, CallTypes
  <2>2. CASE ~(refs > 0 \/ finalized)
    BY <1>1, <1>8, <1>10, <2>2 DEF finalize_by_id, Goto, CallTypes
  <2>3. QED
    BY <2>1, <2>2
<1>11. ASSUME UNCHANGED mtx, pc[t] \in LockPC, pc'[t] \in LockPC PROVE Locked'
  BY <1>2, <1>11 DEF Locked
<1>12. CASE finalize_release(t) \/ invalidate_store(t)
  BY <1>1, <1>11, <1>12 DEF finalize_release, invalidate_store, Goto, CallTypes
<1>13. ASSUME mtx' = NoThread, pc[t] \in LockPC, pc'[t] \notin LockPC PROVE Locked'
  BY <1>2, <1>13, ThreadsAssumption DEF Locked
<1>14. CASE finalize_erase(t)
  BY <1>1, <1>13, <1>14 DEF finalize_erase, FinalizeReturn, Goto, Return, CallTypes
<1>15. CASE invalidate_relock(t)
  BY <1>1, <1>11, <1>13, <1>15, Zenon DEF invalidate_relock, Goto, Return, CallTypes
<1>16. QED
  BY <1>4, <1>5, <1>6, <1>7, <1>9, <1>10, <1>12, <1>14, <1>15 DEF Continue
-----------------------------------------------------------------------------
(***************************************************************************)
(* The binding: which steps touch the state, the flag and the memory.      *)
(***************************************************************************)
Usable == {"ALLOCATED", "IMPORTED", "MAPPED", "IN_USE"}

\* What every step but creation, migration, finalize and trim does to them:
\* the state may move by the table between the states of a usable buffer.
Steady(t) ==
  /\ UNCHANGED <<bindVars, finalized>>
  /\ state' # state => /\ state \in Usable /\ state' \in Usable
                       /\ valid_transition(state, state')
  /\ backends' => backends
  /\ pc[t] # "finalize_release" /\ pc'[t] # "finalize_release"

Created(t) ==
  \E own \in Ownership, st \in {"ALLOCATED", "IMPORTED"}, d \in Domains, pooled \in BOOLEAN :
    /\ own = "BORROWED" => d \in RawDomains
    /\ Create(t, own, st, d, pooled)

\* migrate_locked, when it rebinds the buffer.
Swap(t) ==
  /\ pc[t] = "migrate_locked" /\ mtx = NoThread
  /\ state \notin {"RELEASED", "INVALID"} /\ generation < MaxGen
  /\ generation' = generation + 1
  /\ backing' = generation'
  /\ mem' = [g \in Gens |-> CASE g = generation' -> "live"
                              [] g = backing -> Freed(mem[g])
                              [] OTHER -> mem[g]]
  /\ state' = "ALLOCATED"
  /\ pc'[t] = "migrate_retain"
  /\ UNCHANGED <<finalized, ownership, backends>>

\* A step is one of creation, migration, the three steps that finalize and
\* trim, or it leaves the binding alone.
LEMMA BindingSteps ==
  ASSUME Types, ArgOK, NEW t \in Threads, Start(t) \/ Continue(t)
  PROVE  \/ Steady(t) \/ Created(t) \/ Swap(t)
         \/ finalize(t) /\ ~finalized
         \/ finalize_release(t) \/ trim(t)
<1>1. CallTypes /\ ControlTypes
  BY DEF Types
<1>2. ASSUME UNCHANGED <<state, bindVars, finalized, backends>>,
             pc[t] # "finalize_release", pc'[t] # "finalize_release"
      PROVE  Steady(t)
  BY <1>2 DEF Steady
<1>3. CASE allocate(t) \/ wrap_external(t) \/ import_shared(t)
  BY <1>3, DomainsAssumption, Zenon
     DEF allocate, wrap_external, import_shared, Created, Ownership
<1>4. CASE lookup(t) \/ invalidate(t) \/ pool_trim(t) \/ shutdown(t)
  BY <1>1, <1>2, <1>4, Zenon
     DEF lookup, invalidate, pool_trim, shutdown, Enter, CallTypes, rtVars
<1>5. ASSUME NEW o \in Objects,
             \/ \E call \in HandleOps : begin(t, call, o)
             \/ release_handle(t, o) \/ release_view(t, o)
      PROVE  Steady(t)
  BY <1>1, <1>2, <1>5, Zenon DEF begin, release_handle, release_view, Enter, CallTypes, rtVars
<1>6. ASSUME NEW o \in Objects, release_lease(t, o)
      PROVE  Steady(t)
  <2>1. /\ UNCHANGED <<bindVars, finalized, backends>>
        /\ pc[t] = "idle" /\ pc'[t] = "drop_ref"
        /\ state' = state \/ (state = "IN_USE" /\ state' = "ALLOCATED")
    BY <1>1, <1>6, Zenon DEF release_lease, UnleasedState, Enter, CallTypes, rtVars
  <2>2. QED
    BY <2>1 DEF Steady, Usable, valid_transition, destinations
<1>7. ASSUME NEW o \in Objects, release_map(t, o)
      PROVE  Steady(t)
  <2>1. /\ UNCHANGED <<bindVars, finalized, backends>>
        /\ pc[t] = "idle" /\ pc'[t] = "drop_ref"
        /\ state' = state \/ (state = "MAPPED" /\ state' = "ALLOCATED")
    BY <1>1, <1>7 DEF release_map, Enter, CallTypes, rtVars
  <2>2. QED
    BY <2>1 DEF Steady, Usable, valid_transition, destinations
<1>8. CASE validate_alive(t)
  <2>1. op[t] \in HandleOps
    BY <1>8, Zenon DEF validate_alive, ArgOK, UsingPC
  <2>2. QED
    BY <1>1, <1>2, <1>8, <2>1, Zenon
       DEF validate_alive, Goto, Return, CallTypes, HandleOps, rtVars
<1>9. CASE \/ register_control(t) \/ retain_new(t) \/ share(t) \/ view(t) \/ view_retain(t)
           \/ map(t) \/ map_retain(t) \/ copy(t) \/ copy_memory(t)
           \/ export_descriptor(t) \/ migrate(t)
  BY <1>1, <1>2, <1>9
     DEF register_control, retain_new, share, view, view_retain, map, map_retain, Pin,
         copy, copy_memory, export_descriptor, migrate, Goto, Return, CallTypes, rtVars
<1>10. CASE map_locked(t)
  <2>1. /\ UNCHANGED <<bindVars, finalized, backends>>
        /\ pc[t] = "map_locked" /\ pc'[t] = "map_retain"
        /\ state' = state \/ (valid_transition(state, "MAPPED") /\ state' = "MAPPED")
    BY <1>1, <1>10 DEF map_locked, CallTypes, rtVars
  <2>2. valid_transition(state, "MAPPED") => state = "ALLOCATED"
    BY <1>1 DEF valid_transition, destinations, ControlTypes, BufferState
  <2>3. QED
    BY <2>1, <2>2 DEF Steady, Usable
<1>11. ASSUME NEW k, NEW from \in SUBSET {"ALLOCATED", "MAPPED"},
              Grant(t, k), state' = LeasedState(from), pc[t] # "finalize_release"
       PROVE  Steady(t)
  <2>1. /\ UNCHANGED <<bindVars, finalized, backends>>
        /\ pc'[t] = "idle"
        /\ state' = state \/ (state \in {"ALLOCATED", "MAPPED"} /\ state' = "IN_USE")
    BY <1>1, <1>11 DEF Grant, LeasedState, Return, CallTypes, rtVars
  <2>2. QED
    BY <1>11, <2>1 DEF Steady, Usable, valid_transition, destinations
<1>12. CASE acquire_read(t) \/ acquire_write(t) \/ acquire_exclusive(t)
  <2>1. ASSUME Refuse(t), pc[t] # "finalize_release" PROVE Steady(t)
    BY <1>1, <1>2, <2>1 DEF Refuse, Return, CallTypes, rtVars
  <2>2. QED
    BY <1>11, <1>12, <2>1 DEF acquire_read, acquire_write, acquire_exclusive
<1>13. CASE migrate_locked(t)
  <2>1. CASE Goto(t, "migrate_retain") /\ UNCHANGED <<state, bindVars>>
    BY <1>1, <1>2, <1>13, <2>1 DEF migrate_locked, Goto, CallTypes, rtVars
  <2>2. CASE Return(t) /\ UNCHANGED <<state, bindVars>>
    BY <1>1, <1>2, <1>13, <2>2 DEF migrate_locked, Return, CallTypes, rtVars
  <2>3. CASE generation' = generation + 1 /\ Goto(t, "migrate_retain")
             /\ ~UNCHANGED <<state, bindVars>>
    BY <1>1, <1>13, <2>3, Zenon DEF migrate_locked, Swap, Goto, Return, CallTypes, rtVars
  <2>4. QED
    BY <1>13, <2>1, <2>2, <2>3 DEF migrate_locked
<1>14. CASE \/ drop_ref(t) \/ finalize_erase(t)
            \/ finalize_by_id(t) \/ invalidate_store(t) \/ invalidate_relock(t)
            \/ shutdown_snapshot(t) \/ shutdown_check(t)
  BY <1>1, <1>2, <1>14, Zenon
     DEF drop_ref, finalize_erase, FinalizeReturn, finalize_by_id, invalidate_store,
         invalidate_relock, shutdown_snapshot, shutdown_check, Goto, Return, CallTypes,
         rtVars
<1>15. CASE finalize(t) /\ finalized
  <2>1. finalized' = finalized
    BY <1>1, <1>15 DEF finalize, ControlTypes
  <2>2. pc[t] = "finalize" /\ pc'[t] \in {"trim", "idle"}
    BY <1>1, <1>15 DEF finalize, FinalizeReturn, Goto, Return, CallTypes
  <2>3. UNCHANGED <<state, bindVars, backends>>
    BY <1>15, Zenon DEF finalize, rtVars
  <2>4. QED
    BY <1>2, <2>1, <2>2, <2>3
<1>16. CASE reset_backends(t)
  <2>1. pc[t] = "reset_backends" /\ pc'[t] = "idle" /\ ~backends'
    BY <1>1, <1>16, Zenon DEF reset_backends, Return, CallTypes
  <2>2. QED
    BY <1>16, <2>1 DEF reset_backends, Steady
<1>17. QED
  BY Zenon, <1>3, <1>4, <1>5, <1>6, <1>7, <1>8, <1>9, <1>10, <1>12, <1>13, <1>14, <1>15,
     <1>16 DEF Start, Continue
-----------------------------------------------------------------------------
(***************************************************************************)
(* The memory.                                                             *)
(***************************************************************************)

\* Until it is created nobody has anything of the buffer.
Blank ==
  state = "DECLARED" =>
    /\ ~finalized /\ ~registry /\ refs = 0 /\ generation = 1
    /\ \A o \in Objects : obj[o].kind = "none"
    /\ \A t \in Threads : pc[t] \in EarlyPC

StateRange == state \in Usable \cup {"DECLARED", "RELEASED"}

\* The flag is raised by the thread that goes on to release the backing.
Finalizing ==
  /\ \A t \in Threads : pc[t] = "finalize_release" => finalized /\ state # "RELEASED"
  /\ finalized /\ state # "RELEASED" => \E t \in Threads : pc[t] = "finalize_release"
  /\ state = "RELEASED" => finalized

\* A usable buffer is bound to the live memory of its generation; older
\* generations have been freed and younger ones are not allocated yet.
Bound == state \in Usable => backing = generation /\ mem[generation] = "live"
Others ==
  \A g \in Gens : /\ g > generation => mem[g] = "unused"
                  /\ g < generation => mem[g] = "freed"
MemSafe == \A g \in Gens : mem[g] # "double_free"

MemInv == StateRange /\ Finalizing /\ Bound /\ Others /\ MemSafe

\* With no object and no registry entry to start from, a thread that has not
\* gone further can create the buffer, or trim the pool and shut down.
LEMMA EarlySteps ==
  ASSUME Types, NEW t \in Threads, Start(t) \/ Continue(t), pc[t] \in EarlyPC,
         ~registry, \A o \in Objects : obj[o].kind = "none"
  PROVE  \/ Created(t)
         \/ /\ pc'[t] \in EarlyPC
            /\ UNCHANGED <<finalized, registry, refs, generation, obj, state>>
<1> USE DEF EarlyPC
<1>1. CallTypes
  BY DEF Types
<1>2. CASE Start(t)
  <2>1. allocate(t) \/ wrap_external(t) \/ import_shared(t) \/ pool_trim(t) \/ shutdown(t)
    BY <1>2, Zenon DEF Start, lookup, invalidate, begin, release_handle, release_view,
                release_lease, release_map, LeaseKinds
  <2>2. CASE allocate(t) \/ wrap_external(t) \/ import_shared(t)
    BY <2>2, DomainsAssumption, Zenon
       DEF allocate, wrap_external, import_shared, Created, Ownership
  <2>3. CASE pool_trim(t) \/ shutdown(t)
    BY <1>1, <2>3, Zenon DEF pool_trim, shutdown, Enter, bindVars, CallTypes
  <2>4. QED
    BY <2>1, <2>2, <2>3, Zenon
<1>3. CASE Continue(t)
  <2>1. shutdown_snapshot(t) \/ trim(t) \/ reset_backends(t)
    BY <1>3, Zenon
       DEF Continue, register_control, retain_new, validate_alive, share, view,
           view_retain, map, map_locked, map_retain, acquire_read, acquire_write,
           acquire_exclusive, copy, copy_memory, export_descriptor, migrate,
           migrate_locked, drop_ref, finalize, finalize_release, finalize_erase,
           finalize_by_id, invalidate_store, invalidate_relock, shutdown_check
  <2>2. QED
    BY <1>1, <2>1
       DEF shutdown_snapshot, trim, reset_backends, Goto, Return, bindVars, CallTypes
<1>4. QED
  BY <1>2, <1>3

\* Every step keeps an uncreated buffer untouched.
LEMMA StepBlank ==
  ASSUME Types, ArgOK, Blank, NEW t \in Threads, Start(t) \/ Continue(t)
  PROVE  Blank'
<1>1. \A u \in Threads \ {t} : pc'[u] = pc[u]
  BY OtherThreads DEF Types
<1>2. CASE state' # "DECLARED"
  BY <1>2, Zenon DEF Blank
<1>3. CASE state' = "DECLARED"
  <2>1. state = "DECLARED" /\ ~Created(t)
    <3>1. Steady(t) => state = "DECLARED"
      BY <1>3 DEF Steady, Usable
    <3>2. ~Created(t) /\ ~Swap(t)
      BY <1>3, Zenon DEF Created, Create, Swap
    <3>3. finalize(t) \/ finalize_release(t) \/ trim(t) => state = "DECLARED"
      BY <1>3, Zenon DEF finalize, finalize_release, trim
    <3>4. QED
      BY <3>1, <3>2, <3>3, BindingSteps, Zenon
  <2>2. /\ pc'[t] \in EarlyPC
        /\ UNCHANGED <<finalized, registry, refs, generation, obj, state>>
    BY <2>1, EarlySteps DEF Blank
  <2>3. QED
    BY <1>1, <2>1, <2>2 DEF Blank
<1>4. QED
  BY <1>2, <1>3

\* A step that leaves the binding alone, or only gives up what is pooled,
\* keeps the invariant of the memory.
LEMMA SteadyMem ==
  ASSUME Types, MemInv, NEW t \in Threads, Start(t) \/ Continue(t), Steady(t) \/ trim(t)
  PROVE  MemInv'
<1> USE DEF Usable
<1>1. CallTypes /\ BindTypes
  BY DEF Types
<1>2. \A u \in Threads \ {t} : pc'[u] = pc[u]
  BY <1>1, OtherThreads, Zenon
<1>3. /\ UNCHANGED <<generation, backing, finalized>>
      /\ state' # state => state \in Usable /\ state' \in Usable
      /\ pc[t] # "finalize_release" /\ pc'[t] # "finalize_release"
      /\ \A g \in Gens : mem'[g] = mem[g] \/ (mem[g] = "pooled" /\ mem'[g] = "freed")
  <2>1. CASE Steady(t)
    BY <2>1, Zenon DEF Steady, bindVars
  <2>2. CASE trim(t)
    BY <1>1, <2>2, Zenon DEF trim, Goto, Return, CallTypes
  <2>3. QED
    BY <2>1, <2>2, Zenon
<1>4. StateRange'
  BY <1>3, Zenon DEF MemInv, StateRange
<1>5. Finalizing'
  BY <1>2, <1>3, Zenon DEF MemInv, Finalizing
<1>6. Bound' /\ Others' /\ MemSafe'
  BY <1>1, <1>3 DEF MemInv, Bound, Others, MemSafe, BindTypes
<1>7. QED
  BY <1>4, <1>5, <1>6 DEF MemInv

\* Every step keeps the invariant of the memory.
LEMMA StepMem ==
  ASSUME Types, ArgOK, Locked, Blank, MemInv, NEW t \in Threads, Start(t) \/ Continue(t)
  PROVE  MemInv'
<1> USE DEF Usable
<1>1. CallTypes /\ BindTypes
  BY DEF Types
<1>2. \A u \in Threads \ {t} : pc'[u] = pc[u]
  BY <1>1, OtherThreads
<1>3. mtx = NoThread => \A u \in Threads : pc[u] # "finalize_release"
  BY ThreadsAssumption DEF Locked, LockPC
<1>4. ASSUME NEW u \in Threads, NEW v \in Threads,
             pc[u] = "finalize_release", pc[v] = "finalize_release"
      PROVE  u = v
  BY <1>4 DEF Locked, LockPC
<1>5. CASE Created(t)
  <2>1. /\ state = "DECLARED" /\ state' \in {"ALLOCATED", "IMPORTED"}
        /\ generation' = 1 /\ backing' = 1 /\ mem' = [mem EXCEPT ![1] = "live"]
        /\ UNCHANGED finalized /\ pc'[t] = "register_control"
    BY <1>1, <1>5, Zenon DEF Created, Create, Enter, CallTypes
  <2>2. generation = 1 /\ ~finalized /\ \A u \in Threads : pc[u] \in EarlyPC
    BY <2>1, Zenon DEF Blank
  <2>3. Others' /\ MemSafe' /\ Bound'
    BY <1>1, <2>1, <2>2, GenFacts, Zenon DEF MemInv, Others, MemSafe, Bound, BindTypes, Gens
  <2>4. Finalizing' /\ StateRange'
    BY <1>2, <2>1, <2>2 DEF Finalizing, StateRange, EarlyPC
  <2>5. QED
    BY <2>3, <2>4 DEF MemInv
<1>6. CASE Swap(t)
  <2>1. state # "DECLARED"
    BY <1>6 DEF Swap, Blank, EarlyPC
  <2>2. state \in Usable
    BY <1>6, <2>1 DEF Swap, MemInv, StateRange
  <2>3. backing = generation /\ mem[generation] = "live" /\ ~finalized
    BY <1>3, <1>6, <2>2 DEF Swap, MemInv, Bound, Finalizing
  <2>4. Others' /\ MemSafe' /\ Bound'
    BY <1>1, <1>6, <2>3, GenFacts
       DEF Swap, MemInv, Others, MemSafe, Bound, BindTypes, Gens, Freed
  <2>5. Finalizing' /\ StateRange'
    BY <1>2, <1>3, <1>6, <2>3 DEF Swap, Finalizing, StateRange
  <2>6. QED
    BY <2>4, <2>5 DEF MemInv
<1>7. CASE finalize(t) /\ ~finalized
  <2>1. /\ finalized' /\ UNCHANGED <<state, bindVars>> /\ mtx = NoThread
        /\ pc'[t] = "finalize_release" /\ pc[t] = "finalize"
    BY <1>1, <1>7 DEF finalize, Goto, CallTypes
  <2>2. Others' /\ MemSafe' /\ Bound' /\ StateRange'
    BY <2>1 DEF MemInv, Others, MemSafe, Bound, StateRange, bindVars
  <2>3. Finalizing'
    BY <1>2, <1>3, <1>7, <2>1, Zenon DEF MemInv, Finalizing
  <2>4. QED
    BY <2>2, <2>3 DEF MemInv
<1>8. CASE finalize_release(t)
  <2>1. /\ finalized /\ state \in Usable /\ pc[t] = "finalize_release"
        /\ backing = generation /\ mem[generation] = "live"
    BY <1>8, Zenon DEF finalize_release, MemInv, Finalizing, StateRange, Bound, Blank, EarlyPC
  <2>2. /\ state' = "RELEASED" /\ UNCHANGED <<generation, finalized>>
        /\ pc'[t] = "finalize_erase"
        /\ \A g \in Gens : g # generation => mem'[g] = mem[g]
        /\ mem'[generation] \in {"live", "pooled", "freed"}
    BY <1>1, <1>8, <2>1 DEF finalize_release, LetGo, Freed, Goto, CallTypes, BindTypes
  <2>3. Others' /\ MemSafe' /\ Bound' /\ StateRange'
    BY <1>1, <2>2, Zenon DEF MemInv, Others, MemSafe, Bound, StateRange, BindTypes
  <2>4. Finalizing'
    BY <1>2, <1>4, <2>1, <2>2 DEF Finalizing
  <2>5. QED
    BY <2>3, <2>4 DEF MemInv
<1>9. QED
  BY <1>5, <1>6, <1>7, <1>8, BindingSteps, SteadyMem, Zenon

\* The caller's memory is in a raw domain, so that no mapping goes with it.
BorrowedRaw == ownership = "BORROWED" /\ generation = 1 => domain \in RawDomains

\* Every step keeps it: only creation and migration choose a domain.
LEMMA StepBorrowedRaw ==
  ASSUME Types, ArgOK, BorrowedRaw, NEW t \in Threads, Start(t) \/ Continue(t)
  PROVE  BorrowedRaw'
<1> USE DEF BorrowedRaw
<1>1. BindTypes
  BY DEF Types
<1>2. CASE Steady(t) \/ (finalize(t) /\ ~finalized) \/ trim(t)
  BY <1>2 DEF Steady, finalize, trim, bindVars
<1>3. CASE Created(t)
  BY <1>3 DEF Created, Create
<1>4. CASE Swap(t)
  BY <1>1, <1>4 DEF Swap, BindTypes, Gens
<1>5. CASE finalize_release(t)
  BY <1>5 DEF finalize_release, Owned
<1>6. QED
  BY <1>2, <1>3, <1>4, <1>5, BindingSteps

\* Every step but a migration leaves the caller's memory alone.
LEMMA StepBorrowed ==
  ASSUME Types, ArgOK, BorrowedRaw, BorrowedFreedOnlyByMigration, NEW t \in Threads,
         Start(t) \/ Continue(t)
  PROVE  BorrowedFreedOnlyByMigration'
<1> USE DEF BorrowedFreedOnlyByMigration
<1>1. BindTypes
  BY DEF Types
<1>2. CASE Steady(t) \/ (finalize(t) /\ ~finalized)
  BY <1>2 DEF Steady, finalize, bindVars
<1>3. CASE Created(t)
  BY <1>1, <1>3, GenFacts DEF Created, Create, BindTypes
<1>4. CASE Swap(t)
  BY <1>1, <1>4 DEF Swap, BindTypes, Gens
<1>5. CASE finalize_release(t)
  BY <1>5 DEF finalize_release, Owned, BorrowedRaw, RawDomains, MappedDomains
<1>6. CASE trim(t)
  BY <1>1, <1>6, GenFacts, Zenon DEF trim, BindTypes
<1>7. QED
  BY <1>2, <1>3, <1>4, <1>5, <1>6, BindingSteps

\* Memory that a released buffer has not given back is the caller's, or raw
\* memory whose backend had been reset.
Lost ==
  state = "RELEASED" /\ mem[generation] = "live" =>
    ownership = "BORROWED" \/ (~backends /\ domain \in RawDomains)

\* finalize_release gives back all other memory.
LEMMA StepLost ==
  ASSUME Types, ArgOK, Blank, MemInv, Lost, NEW t \in Threads, Start(t) \/ Continue(t)
  PROVE  Lost'
<1> USE DEF Lost
<1>1. BindTypes /\ RuntimeTypes
  BY DEF Types
<1>2. CASE Steady(t)
  BY <1>2 DEF Steady, Usable, bindVars
<1>3. CASE Created(t) \/ Swap(t)
  BY <1>3 DEF Created, Create, Swap
<1>4. CASE finalize(t)
  BY <1>4 DEF finalize, bindVars, rtVars
<1>5. CASE finalize_release(t)
  <2>1. backing = generation /\ mem[generation] = "live"
    BY <1>5, Zenon
       DEF finalize_release, MemInv, Finalizing, StateRange, Bound, Blank, EarlyPC
  <2>2. UNCHANGED <<generation, domain, backends>>
    BY <1>5 DEF finalize_release, rtVars
  <2>3. CASE ~Owned
    BY <1>1, <1>5, <2>1, <2>3 DEF finalize_release, Owned, BindTypes, Gens
  <2>4. CASE Owned
    <3>1. LetGo(backing) => mem'[generation] = "freed" \/ (~backends /\ domain \in RawDomains)
      BY <1>1, <2>1, Zenon DEF LetGo, Freed, BindTypes, MemoryDomain
    <3>2. \/ mem' = [mem EXCEPT ![backing] = "pooled"]
          \/ LetGo(backing)
      BY <1>5, <2>4, Zenon DEF finalize_release
    <3>3. QED
      BY <1>1, <2>1, <2>2, <3>1, <3>2, Zenon DEF BindTypes
  <2>5. QED
    BY <2>3, <2>4, Zenon
<1>6. CASE trim(t)
  BY <1>1, <1>6 DEF trim, BindTypes, rtVars
<1>7. QED
  BY <1>2, <1>3, <1>4, <1>5, <1>6, BindingSteps, Zenon
-----------------------------------------------------------------------------
(***************************************************************************)
(* The handles in use, and what map reads before and after it locks.       *)
(***************************************************************************)

\* The handle that a call works on exists until the call is over.
HandlesUsed == \A t \in Threads : pc[t] \in UsingPC => obj[arg[t]].kind = "handle"

\* No object is younger than the binding.
GensOld == \A o \in Objects : obj[o].gen <= generation

\* Past map's test of the domain, a device binding is a younger one.
MapsOld ==
  \A t \in Threads :
    pc[t] = "map_locked" /\ domain = "DEVICE" => obj[arg[t]].gen # generation

\* The steps that leave the objects alone, hand one out or take one back.
LEMMA ObjectMoves ==
  ASSUME NEW t \in Threads, Start(t) \/ Continue(t)
  PROVE  \/ UNCHANGED obj
         \/ \E k \in ObjectKinds \ {"none"}, s \in {0, ptr[t]} :
              \E g \in {generation, obj[arg[t]].gen} : NewObject(k, g, s)
         \/ \E o \in Objects : release_handle(t, o)
         \/ \E o \in Objects : obj[o].kind \notin {"none", "handle"} /\ Discard(o)
<1> USE DEF ObjectKinds, LeaseKinds
<1>1. CASE \/ retain_new(t) \/ share(t) \/ view_retain(t) \/ map_retain(t)
  BY <1>1, ZenonT(30) DEF retain_new, share, view_retain, map_retain, Pin
<1>2. CASE acquire_read(t) \/ acquire_write(t) \/ acquire_exclusive(t)
  BY <1>2, Zenon DEF acquire_read, acquire_write, acquire_exclusive, Grant, Refuse
<1>3. ASSUME NEW o \in Objects,
             \/ release_handle(t, o) \/ release_view(t, o)
             \/ release_lease(t, o) \/ release_map(t, o)
      PROVE  release_handle(t, o) \/ (obj[o].kind \notin {"none", "handle"} /\ Discard(o))
  BY <1>3, Zenon DEF release_view, release_lease, release_map
<1>4. CASE \/ \E o \in Objects, call \in HandleOps : begin(t, call, o)
           \/ allocate(t) \/ wrap_external(t) \/ import_shared(t) \/ lookup(t)
           \/ invalidate(t) \/ pool_trim(t) \/ shutdown(t)
  BY <1>4, Zenon DEF begin, allocate, wrap_external, import_shared, Create, lookup,
              invalidate, pool_trim, shutdown
<1>5. CASE \/ register_control(t) \/ validate_alive(t) \/ view(t) \/ map(t)
           \/ map_locked(t) \/ copy(t) \/ copy_memory(t) \/ export_descriptor(t)
           \/ migrate(t) \/ migrate_locked(t)
  BY <1>5 DEF register_control, validate_alive, view, map, map_locked, copy,
              copy_memory, export_descriptor, migrate, migrate_locked
<1>6. CASE \/ drop_ref(t) \/ finalize(t) \/ finalize_release(t) \/ finalize_erase(t)
           \/ finalize_by_id(t) \/ invalidate_store(t) \/ invalidate_relock(t)
           \/ trim(t) \/ shutdown_snapshot(t) \/ shutdown_check(t) \/ reset_backends(t)
  BY <1>6, ZenonT(30) DEF drop_ref, finalize, finalize_release, finalize_erase, finalize_by_id,
              invalidate_store, invalidate_relock, trim, shutdown_snapshot,
              shutdown_check, reset_backends
<1>7. QED
  BY <1>1, <1>2, <1>3, <1>4, <1>5, <1>6, ZenonT(30) DEF Start, Continue

\* No step changes a handle that a call is working on.
LEMMA UsedKept ==
  ASSUME Types, ArgOK, HandlesUsed, NEW t \in Threads, Start(t) \/ Continue(t),
         NEW u \in Threads, pc[u] \in UsingPC
  PROVE  obj'[arg[u]] = obj[arg[u]]
<1>1. ObjectTypes /\ arg[u] \in Objects /\ obj[arg[u]].kind = "handle"
  BY Zenon DEF Types, ArgOK, HandlesUsed
<1>2. ASSUME NEW k, NEW g, NEW s, NewObject(k, g, s) PROVE obj'[arg[u]] = obj[arg[u]]
  BY <1>1, <1>2, Zenon DEF NewObject, ObjectTypes
<1>3. ASSUME NEW o \in Objects, Discard(o), o # arg[u] PROVE obj'[arg[u]] = obj[arg[u]]
  BY <1>1, <1>3, Zenon DEF Discard, ObjectTypes
<1>4. ASSUME NEW o \in Objects, release_handle(t, o) PROVE obj'[arg[u]] = obj[arg[u]]
  BY <1>3, <1>4 DEF release_handle, InUse
<1>5. QED
  BY <1>1, <1>2, <1>3, <1>4, ObjectMoves, Zenon

MovingPC == {"migrate", "migrate_locked"}

\* A thread gets to work on a handle by naming one that exists, and to migrate
\* it by calling migrate.
LEMMA UsingSteps ==
  ASSUME Types, ArgOK, NEW t \in Threads, Start(t) \/ Continue(t), pc'[t] \in UsingPC
  PROVE  \/ /\ pc[t] \in UsingPC /\ arg'[t] = arg[t] /\ op'[t] = op[t]
            /\ pc'[t] \in MovingPC => pc[t] \in MovingPC \/ pc'[t] = op[t]
         \/ /\ pc'[t] = "validate_alive" /\ UNCHANGED <<obj, ownership>>
            /\ obj[arg'[t]].kind = "handle"
            /\ op'[t] = "migrate" /\ ownership = "BORROWED" => "migrate_borrowed" \in Ops
<1> USE DEF UsingPC, HandleOps, MovingPC
<1>1. CallTypes
  BY DEF Types
<1>2. CASE \E o \in Objects, call \in HandleOps : begin(t, call, o)
  BY <1>1, <1>2, ZenonT(30) DEF begin, Enter, CallTypes, bindVars
<1>3. ASSUME NEW o \in Objects,
             \/ release_handle(t, o) \/ release_view(t, o)
             \/ release_lease(t, o) \/ release_map(t, o)
      PROVE  FALSE
  BY <1>1, <1>3, ZenonT(30)
     DEF release_handle, release_view, release_lease, release_map, Enter, CallTypes
<1>4. CASE \/ allocate(t) \/ wrap_external(t) \/ import_shared(t) \/ lookup(t)
           \/ invalidate(t) \/ pool_trim(t) \/ shutdown(t)
  BY <1>1, <1>4, Zenon DEF allocate, wrap_external, import_shared, Create, lookup,
              invalidate, pool_trim, shutdown, Enter, CallTypes
<1>5. CASE \/ register_control(t) \/ retain_new(t) \/ share(t) \/ view_retain(t)
           \/ map_retain(t) \/ acquire_read(t) \/ acquire_write(t)
           \/ acquire_exclusive(t) \/ copy_memory(t) \/ export_descriptor(t)
  BY <1>1, <1>5, Zenon DEF register_control, retain_new, share, view_retain, map_retain, Pin,
                    acquire_read, acquire_write, acquire_exclusive, Grant, Refuse,
                    copy_memory, export_descriptor, Goto, Return, CallTypes
<1>6. CASE \/ validate_alive(t) \/ view(t) \/ map(t) \/ map_locked(t) \/ copy(t)
           \/ migrate(t) \/ migrate_locked(t)
  BY <1>1, <1>6
     DEF validate_alive, view, map, map_locked, copy, migrate, migrate_locked,
                    Goto, Return, callVars, CallTypes
<1>7. CASE \/ drop_ref(t) \/ finalize_release(t) \/ finalize_erase(t)
           \/ finalize_by_id(t) \/ invalidate_store(t) \/ invalidate_relock(t)
           \/ trim(t) \/ shutdown_snapshot(t) \/ shutdown_check(t) \/ reset_backends(t)
  BY <1>1, <1>7, ZenonT(30) DEF drop_ref, finalize_release, finalize_erase, finalize_by_id,
              invalidate_store, invalidate_relock, trim, shutdown_snapshot,
              shutdown_check, reset_backends, FinalizeReturn, Goto, Return, CallTypes
<1>8. CASE finalize(t)
  <2>1. FinalizeReturn(t) \/ Goto(t, "finalize_release")
    BY <1>8, ZenonT(30) DEF finalize
  <2>2. QED
    BY <1>1, <2>1 DEF FinalizeReturn, Goto, Return, CallTypes
<1>9. QED
  BY <1>2, <1>3, <1>4, <1>5, <1>6, <1>7, <1>8, Zenon DEF Start, Continue

\* Every step keeps the handles in use.
LEMMA StepHandlesUsed ==
  ASSUME Types, ArgOK, HandlesUsed, NEW t \in Threads, Start(t) \/ Continue(t)
  PROVE  HandlesUsed'
<1>1. \A u \in Threads \ {t} : pc'[u] = pc[u] /\ arg'[u] = arg[u]
  BY OtherThreads, Zenon DEF Types
<1>2. ASSUME NEW u \in Threads, pc'[u] \in UsingPC
      PROVE  obj'[arg'[u]].kind = "handle"
  <2>1. CASE pc[u] \in UsingPC /\ arg'[u] = arg[u]
    BY <2>1, UsedKept DEF HandlesUsed
  <2>2. CASE u = t
    BY <1>2, <2>1, <2>2, UsingSteps
  <2>3. QED
    BY <1>1, <1>2, <2>1, <2>2, Zenon
<1>3. QED
  BY <1>2, ZenonT(30) DEF HandlesUsed

\* The generation never falls, and the domain changes with it.
LEMMA GenerationGrows ==
  ASSUME Types, ArgOK, Blank, NEW t \in Threads, Start(t) \/ Continue(t)
  PROVE  /\ generation' >= generation
         /\ generation' = generation /\ state # "DECLARED" => domain' = domain
<1>1. BindTypes
  BY Zenon DEF Types
<1>2. CASE Steady(t) \/ finalize(t) \/ finalize_release(t) \/ trim(t)
  <2>1. generation' = generation /\ domain' = domain
    BY <1>2, Zenon DEF Steady, finalize, finalize_release, trim, bindVars
  <2>2. generation \in Int
    BY <1>1 DEF BindTypes, Gens
  <2>3. QED
    BY <2>1, <2>2
<1>3. CASE Created(t)
  <2>1. state = "DECLARED" /\ generation' = 1
    BY <1>3, Zenon DEF Created, Create
  <2>2. generation = 1
    BY <2>1, Zenon DEF Blank
  <2>3. QED
    BY <2>1, <2>2
<1>4. CASE Swap(t)
  <2>1. generation' = generation + 1 /\ generation \in Int
    BY <1>1, <1>4 DEF Swap, BindTypes, Gens
  <2>2. QED
    BY <2>1
<1>5. QED
  BY <1>2, <1>3, <1>4, BindingSteps

\* Every step keeps the objects no younger than the binding.
LEMMA StepGensOld ==
  ASSUME Types, ArgOK, Blank, HandlesUsed, GensOld, NEW t \in Threads, Start(t) \/ Continue(t)
  PROVE  GensOld'
<1>1. ObjectTypes /\ BindTypes /\ BindTypes' /\ generation' >= generation
  BY GenerationGrows, StepTypes DEF Types
<1>2. CASE UNCHANGED obj
  BY <1>1, <1>2 DEF GensOld, ObjectTypes, ObjectType, BindTypes, Gens, Segs
<1>3. ASSUME NEW k, NEW s, NEW g \in Segs, g <= generation, NewObject(k, g, s)
      PROVE  GensOld'
  BY <1>1, <1>3 DEF NewObject, GensOld, ObjectTypes, ObjectType, BindTypes, Gens, Segs
<1>4. ASSUME NEW o \in Objects, Discard(o)
      PROVE  GensOld'
  BY <1>1, <1>4 DEF Discard, GensOld, ObjectTypes, ObjectType, BindTypes, Gens, Segs
<1>5. CASE retain_new(t)
  BY <1>1, <1>3, <1>5, GenFacts DEF retain_new, BindTypes, Gens
<1>6. CASE pc[t] \in UsingPC
  <2>1. obj[arg[t]].gen \in Segs /\ obj[arg[t]].gen <= generation
    BY <1>1, <1>6 DEF ArgOK, GensOld, ObjectTypes, ObjectType
  <2>2. generation \in Segs /\ generation <= generation
    BY <1>1, GenFacts DEF BindTypes, Gens
  <2>3. QED
    BY <1>2, <1>3, <1>4, <2>1, <2>2, ObjectMoves, Zenon DEF release_handle
<1>7. CASE pc[t] \notin UsingPC /\ ~retain_new(t)
  <2>1. UNCHANGED obj \/ \E o \in Objects : Discard(o)
    <3>1. CASE Start(t)
      BY <3>1, ZenonT(30)
         DEF Start, begin, allocate, wrap_external, import_shared, Create, lookup,
                  invalidate, pool_trim, shutdown, release_handle, release_view,
                  release_lease, release_map
    <3>2. CASE Continue(t)
      BY <1>7, <3>2, ZenonT(30)
         DEF Continue, UsingPC, HandleOps, register_control, validate_alive, share, view,
             view_retain, map, map_locked, map_retain, acquire_read, acquire_write,
             acquire_exclusive, copy, copy_memory, export_descriptor, migrate,
             migrate_locked, drop_ref, finalize, finalize_release, finalize_erase,
             finalize_by_id, invalidate_store, invalidate_relock, trim,
             shutdown_snapshot, shutdown_check, reset_backends
    <3>3. QED
      BY <3>1, <3>2, Zenon
  <2>2. QED
    BY <1>2, <1>4, <2>1
<1>8. QED
  BY <1>5, <1>6, <1>7

\* Every step keeps the maps under way on a device binding stale: only a
\* migration brings the buffer to the device once map has tested the domain.
LEMMA StepMapsOld ==
  ASSUME Types, ArgOK, Blank, HandlesUsed, GensOld, MapsOld,
         NEW t \in Threads, Start(t) \/ Continue(t)
  PROVE  MapsOld'
<1>1. CallTypes /\ BindTypes /\ BindTypes' /\ ObjectTypes
  BY StepTypes DEF Types
<1>2. \A u \in Threads \ {t} : pc'[u] = pc[u] /\ arg'[u] = arg[u]
  BY <1>1, OtherThreads
<1>3. ASSUME NEW u \in Threads, u # t, pc'[u] = "map_locked", domain' = "DEVICE"
      PROVE  obj'[arg'[u]].gen # generation'
  <2>1. pc[u] = "map_locked" /\ arg'[u] = arg[u] /\ pc[u] \in UsingPC
    BY <1>2, <1>3, Zenon DEF UsingPC
  <2>2. obj'[arg[u]] = obj[arg[u]] /\ arg[u] \in Objects
    BY <2>1, UsedKept, Zenon DEF ArgOK
  <2>3. obj[arg[u]].gen \in Int /\ obj[arg[u]].gen <= generation
    BY <1>1, <2>2 DEF GensOld, ObjectTypes, ObjectType, Segs
  <2>4. state # "DECLARED"
    BY <2>1 DEF Blank, EarlyPC
  <2>5. generation \in Int /\ generation' \in Int /\ generation' >= generation
        /\ (generation' = generation => domain' = domain)
    BY <1>1, <2>4, GenerationGrows DEF BindTypes, Gens
  <2>6. CASE generation' = generation
    BY <1>3, <2>1, <2>2, <2>5, <2>6, Zenon DEF MapsOld
  <2>7. CASE generation' > generation
    BY <2>1, <2>2, <2>3, <2>5, <2>7
  <2>8. QED
    BY <2>5, <2>6, <2>7
<1>4. ASSUME pc'[t] = "map_locked"
      PROVE  domain' # "DEVICE"
  <2>1. CASE Start(t)
    BY <1>1, <1>4, <2>1, ZenonT(30)
       DEF Start, allocate, wrap_external, import_shared, Create, lookup, invalidate,
           pool_trim, shutdown, begin, release_handle, release_view, release_lease,
           release_map, Enter, CallTypes
  <2>2. CASE map(t)
    BY <1>1, <1>4, <2>2, Zenon DEF map, Goto, Return, CallTypes, bindVars
  <2>3. CASE validate_alive(t)
    <3>1. op[t] # "map_locked"
      BY <2>3, ZenonT(30) DEF validate_alive, ArgOK, UsingPC, HandleOps
    <3>2. QED
      BY <1>1, <1>4, <2>3, <3>1, Zenon DEF validate_alive, Goto, Return, CallTypes
  <2>4. CASE \/ register_control(t) \/ retain_new(t) \/ share(t) \/ view(t)
             \/ view_retain(t) \/ map_locked(t) \/ map_retain(t) \/ acquire_read(t)
             \/ acquire_write(t) \/ acquire_exclusive(t) \/ copy(t) \/ copy_memory(t)
             \/ export_descriptor(t) \/ migrate(t) \/ migrate_locked(t)
    BY <1>1, <1>4, <2>4
       DEF register_control, retain_new, share, view, view_retain, map_locked,
           map_retain, Pin, acquire_read, acquire_write, acquire_exclusive, Grant,
           Refuse, copy, copy_memory, export_descriptor, migrate, migrate_locked,
           Goto, Return, CallTypes
  <2>5. CASE \/ drop_ref(t) \/ finalize_release(t) \/ finalize_erase(t)
             \/ finalize_by_id(t) \/ invalidate_store(t) \/ invalidate_relock(t)
             \/ trim(t) \/ shutdown_snapshot(t) \/ shutdown_check(t) \/ reset_backends(t)
    BY <1>1, <1>4, <2>5, Zenon
       DEF drop_ref, finalize_release, finalize_erase, finalize_by_id,
           invalidate_store, invalidate_relock, trim, shutdown_snapshot,
           shutdown_check, reset_backends, FinalizeReturn, Goto, Return, CallTypes
  <2>6. CASE finalize(t)
    <3>1. FinalizeReturn(t) \/ Goto(t, "finalize_release")
      BY <2>6 DEF finalize
    <3>2. QED
      BY <1>1, <1>4, <3>1 DEF FinalizeReturn, Goto, Return, CallTypes
  <2>7. QED
    BY <2>1, <2>2, <2>3, <2>4, <2>5, <2>6, Zenon DEF Continue
<1>5. QED
  BY <1>3, <1>4 DEF MapsOld
-----------------------------------------------------------------------------
(***************************************************************************)
(* The invariant for every set of operations, and its theorems.            *)
(***************************************************************************)
LifeInv ==
  /\ IInv /\ Locked /\ Blank /\ MemInv /\ Lost
  /\ BorrowedRaw /\ BorrowedFreedOnlyByMigration
  /\ HandlesUsed /\ GensOld /\ MapsOld

\* The invariant holds before anything has happened.
LEMMA InitLife == Init => LifeInv
<1> SUFFICES ASSUME Init PROVE LifeInv
  OBVIOUS
<1>1. IInv
  BY InitIInv, Zenon
<1>2. Locked /\ HandlesUsed /\ MapsOld
  BY ThreadsAssumption
     DEF Init, Locked, LockPC, HandlesUsed, UsingPC, HandleOps, MapsOld
<1>3. Blank
  BY DEF Init, Blank, EarlyPC
<1>4. MemInv
  BY DEF Init, MemInv, StateRange, Finalizing, Bound, Usable, Others, MemSafe, Gens
<1>5. Lost /\ BorrowedRaw /\ BorrowedFreedOnlyByMigration
  BY DEF Init, Lost, BorrowedRaw, BorrowedFreedOnlyByMigration
<1>6. GensOld
  BY DEF Init, GensOld
<1>7. QED
  BY <1>1, <1>2, <1>3, <1>4, <1>5, <1>6 DEF LifeInv

\* Every step keeps it.
LEMMA NextLife == LifeInv /\ [Next]_vars => LifeInv'
<1> SUFFICES ASSUME LifeInv, [Next]_vars PROVE LifeInv'
  OBVIOUS
<1>1. IInv'
  BY NextIInv DEF LifeInv
<1>2. CASE UNCHANGED vars
  <2>1. Locked' /\ HandlesUsed' /\ GensOld' /\ MapsOld'
    BY <1>2, Zenon DEF LifeInv, Locked, HandlesUsed, GensOld, MapsOld, vars, callVars, bindVars
  <2>2. Blank' /\ Lost' /\ BorrowedRaw' /\ BorrowedFreedOnlyByMigration'
    BY <1>2, Zenon
       DEF LifeInv, Blank, Lost, BorrowedRaw, BorrowedFreedOnlyByMigration, vars, bindVars,
           rtVars
  <2>3. MemInv'
    BY <1>2, Zenon DEF LifeInv, MemInv, StateRange, Finalizing, Bound, Others, MemSafe, vars,
                bindVars
  <2>4. QED
    BY <1>1, <2>1, <2>2, <2>3, Zenon DEF LifeInv
<1>3. ASSUME NEW t \in Threads, Start(t) \/ Continue(t)
      PROVE  LifeInv'
  <2>1. Types /\ ArgOK
    BY DEF LifeInv, IInv
  <2>2. QED
    BY Zenon, <1>1, <1>3, <2>1, StepLocked, StepBlank, StepMem, StepLost, StepBorrowedRaw,
       StepBorrowed, StepHandlesUsed, StepGensOld, StepMapsOld DEF LifeInv
<1>4. QED
  BY <1>2, <1>3 DEF Next

\* The invariant of a buffer's life holds throughout.
LEMMA LifeHolds == Spec => []LifeInv
BY InitLife, NextLife, PTL DEF Spec

\* With every operation of the runtime, and for any number of threads, objects
\* and migrations, no backing is freed twice and a buffer that is not finalized
\* is bound to live memory.
THEOREM MemoryFreedOnce == Spec => []FreedOnce
<1>1. LifeInv => FreedOnce
  <2> SUFFICES ASSUME LifeInv PROVE FreedOnce
    OBVIOUS
  <2>1. state # "DECLARED" /\ ~finalized => state \in Usable
    BY DEF LifeInv, MemInv, Finalizing, StateRange
  <2>2. QED
    BY <2>1 DEF LifeInv, MemInv, MemSafe, Bound, FreedOnce
<1>2. QED
  BY <1>1, LifeHolds, PTL

\* The caller's memory of a BORROWED wrap is freed by nothing but migrate.
THEOREM BorrowedIsFreedOnlyByMigration == Spec => []BorrowedFreedOnlyByMigration
<1>1. LifeInv => BorrowedFreedOnlyByMigration
  BY DEF LifeInv
<1>2. QED
  BY <1>1, LifeHolds, PTL

\* The direct assignments of map, the leases, their releases, migrate and
\* finalize to Record::state of a registered buffer are moves of the
\* valid_transition table.
THEOREM StateMovesAreLegal == Spec => LegalMoves
<1>1. LifeInv /\ [Next]_vars => [registry => valid_transition(state, state')]_state
  <2> SUFFICES ASSUME LifeInv, [Next]_vars, registry, state' # state
               PROVE  valid_transition(state, state')
    OBVIOUS
  <2>1. state # "DECLARED"
    BY DEF LifeInv, Blank
  <2>2. PICK t \in Threads : Start(t) \/ Continue(t)
    BY Zenon DEF Next, vars
  <2>3. CASE Steady(t)
    BY <2>3 DEF Steady
  <2>4. CASE Created(t) \/ finalize(t) \/ trim(t)
    BY <2>1, <2>4, Zenon DEF Created, Create, finalize, trim
  <2>5. CASE Swap(t)
    <3>1. state \in Usable /\ state' = "ALLOCATED"
      BY <2>1, <2>5, Zenon DEF Swap, LifeInv, MemInv, StateRange
    <3>2. QED
      BY <3>1 DEF Usable, valid_transition, destinations
  <2>6. CASE finalize_release(t)
    <3>1. state \in Usable \cup {"RELEASED"} /\ state' = "RELEASED"
      BY <2>1, <2>6, Zenon DEF finalize_release, LifeInv, MemInv, StateRange
    <3>2. QED
      BY <3>1 DEF Usable, valid_transition, destinations
  <2>7. QED
    BY <2>2, <2>3, <2>4, <2>5, <2>6, BindingSteps DEF LifeInv, IInv
<1>2. QED
  BY <1>1, LifeHolds, PTL DEF Spec, LegalMoves

\* map_locked maps device memory only through a handle that a migration has
\* made stale since map tested the domain.
THEOREM DeviceMapsAreStale == Spec => DeviceMapIsStale
<1> DEFINE A == map_count' > map_count /\ domain = "DEVICE" =>
                  \E t \in Threads : pc[t] = "map_locked" /\ obj[arg[t]].gen < generation
<1>1. LifeInv /\ [Next]_vars => [A]_map_count
  <2> SUFFICES ASSUME LifeInv, [Next]_vars, map_count' > map_count, domain = "DEVICE"
               PROVE  \E t \in Threads : pc[t] = "map_locked" /\ obj[arg[t]].gen < generation
    OBVIOUS
  <2>1. /\ Types /\ map_count \in Nat /\ ArgOK
        /\ map_count' # map_count
    BY DEF LifeInv, IInv, Types, LeaseTypes
  <2>2. PICK t \in Threads : Start(t) \/ Continue(t)
    BY <2>1, Zenon DEF Next, vars, leaseVars
  <2>3. map_locked(t)
    <3>1. ASSUME NEW o \in Objects, release_map(t, o) PROVE FALSE
      <4>1. map_count' = Less(map_count)
        BY <3>1, Zenon DEF release_map
      <4>2. Less(map_count) <= map_count
        BY <2>1 DEF Less
      <4>3. map_count' \in Int /\ map_count \in Int
        BY <2>1, <4>1 DEF Less
      <4>4. QED
        BY <4>1, <4>2, <4>3
    <3>2. CASE Start(t)
      BY <2>1, <3>1, <3>2, ZenonT(30)
         DEF Start, allocate, wrap_external, import_shared, Create, lookup, invalidate,
             pool_trim, shutdown, begin, release_handle, release_view, release_lease,
             leaseVars
    <3>3. CASE \/ register_control(t) \/ retain_new(t) \/ validate_alive(t) \/ share(t)
               \/ view(t) \/ view_retain(t) \/ map(t) \/ map_retain(t) \/ copy(t)
               \/ acquire_read(t) \/ acquire_write(t) \/ acquire_exclusive(t)
               \/ copy_memory(t) \/ export_descriptor(t) \/ migrate(t) \/ migrate_locked(t)
      BY <2>1, <3>3
         DEF register_control, retain_new, validate_alive, share, view, view_retain, map,
             map_retain, Pin, copy, acquire_read, acquire_write, acquire_exclusive, Grant,
             Refuse, copy_memory, export_descriptor, migrate, migrate_locked, leaseVars
    <3>4. CASE \/ drop_ref(t) \/ finalize(t) \/ finalize_release(t) \/ finalize_erase(t)
               \/ finalize_by_id(t) \/ invalidate_store(t) \/ invalidate_relock(t)
               \/ trim(t) \/ shutdown_snapshot(t) \/ shutdown_check(t) \/ reset_backends(t)
      BY <2>1, <3>4, ZenonT(30)
         DEF drop_ref, finalize, finalize_release, finalize_erase, finalize_by_id,
             invalidate_store, invalidate_relock, trim, shutdown_snapshot,
             shutdown_check, reset_backends, leaseVars
    <3>5. QED
      BY <2>2, <3>2, <3>3, <3>4, Zenon DEF Continue
  <2>4. pc[t] = "map_locked" /\ arg[t] \in Objects
    BY <2>1, <2>3, Zenon DEF map_locked, ArgOK, UsingPC
  <2>5. /\ obj[arg[t]].gen # generation /\ obj[arg[t]].gen <= generation
        /\ obj[arg[t]].gen \in Int /\ generation \in Int
    BY <2>1, <2>4
       DEF LifeInv, MapsOld, GensOld, Types, ObjectTypes, ObjectType, BindTypes, Gens, Segs
  <2>6. QED
    BY <2>4, <2>5
<1>2. QED
  BY <1>1, LifeHolds, PTL DEF Spec, DeviceMapIsStale
=============================================================================
