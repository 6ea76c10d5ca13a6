------------------------ MODULE BufferControlProofs ------------------------
(***************************************************************************)
(* What holds of the control block for every set of operations, threads,   *)
(* objects and domains: its types, that its counters are the leases and    *)
(* maps that exist, that writers exclude, and that the state is backed by  *)
(* the counters.                                                           *)
(***************************************************************************)
EXTENDS BufferControl, FiniteSetTheorems, TLAPS

PC == UsingPC \cup OtherPC
ObjectType == [kind : ObjectKinds, gen : Segs, seg : Segs]

\* TypeOK, by the groups of variables that the actions leave unchanged.
ControlTypes ==
  /\ mtx \in Threads \cup {NoThread}
  /\ refs \in Int
  /\ finalized \in BOOLEAN
  /\ state \in BufferState
LeaseTypes ==
  /\ read_leases \in Nat /\ write_leases \in Nat
  /\ exclusive_leases \in Nat /\ map_count \in Nat
BindTypes ==
  /\ generation \in Gens
  /\ domain \in MemoryDomain
  /\ ownership \in Ownership
  /\ pool_eligible \in BOOLEAN
  /\ backing \in Segs
  /\ mem \in [Gens -> MemStatus]
RuntimeTypes ==
  /\ registry \in BOOLEAN
  /\ closed \in BOOLEAN /\ backends \in BOOLEAN /\ descs \in SUBSET Gens
ObjectTypes == obj \in [Objects -> ObjectType]
CallTypes ==
  /\ pc \in [Threads -> PC]
  /\ op \in [Threads -> Calls]
  /\ arg \in [Threads -> Objects \cup {NoObject}]
  /\ ptr \in [Threads -> Segs]

Types == ControlTypes /\ LeaseTypes /\ BindTypes /\ RuntimeTypes /\ ObjectTypes /\ CallTypes

\* A thread past the start of a call on a handle has the handle.
ArgOK == \A t \in Threads : pc[t] \in UsingPC => arg[t] \in Objects /\ op[t] \in HandleOps

\* The form of the steps that read an address for later use.
ReadAddress(t, next, p) ==
  /\ ptr' = [ptr EXCEPT ![t] = p]
  /\ pc' = [pc EXCEPT ![t] = next]
  /\ UNCHANGED <<op, arg>>

\* The groups together are TypeOK.
LEMMA TypeGroups == TypeOK <=> Types
BY DEF TypeOK, Types, ControlTypes, LeaseTypes, BindTypes, RuntimeTypes, ObjectTypes,
       CallTypes, PC, ObjectType

\* Generations are segments, and 0 is a segment.
LEMMA GenFacts == /\ 1 \in Gens /\ Gens \subseteq Segs /\ 0 \in Segs
                  /\ \A g \in Gens : g < MaxGen => g + 1 \in Gens
BY MaxGenAssumption DEF Gens, Segs

\* Entering, continuing and leaving a call, and reading an address, keep the
\* types of the call; only a call on a handle goes through validate_alive.
LEMMA CallSteps ==
  ASSUME CallTypes, ArgOK, NEW t \in Threads
  PROVE  /\ \A call \in Calls, next \in PC, h \in Objects \cup {NoObject} :
              Enter(t, call, next, h)
                /\ (next \in UsingPC => h \in Objects /\ call \in HandleOps)
              => CallTypes' /\ ArgOK'
         /\ \A next \in PC : Goto(t, next) /\ (next \in UsingPC => pc[t] \in UsingPC)
              => CallTypes' /\ ArgOK'
         /\ \A next \in PC, p \in Segs :
              ReadAddress(t, next, p) /\ pc[t] \in UsingPC => CallTypes' /\ ArgOK'
         /\ Return(t) => CallTypes' /\ ArgOK'
<1>1. ASSUME NEW call \in Calls, NEW next \in PC, NEW h \in Objects \cup {NoObject},
             Enter(t, call, next, h),
             next \in UsingPC => h \in Objects /\ call \in HandleOps
      PROVE  CallTypes' /\ ArgOK'
  BY <1>1 DEF Enter, CallTypes, ArgOK
<1>2. ASSUME NEW next \in PC, Goto(t, next), next \in UsingPC => pc[t] \in UsingPC
      PROVE  CallTypes' /\ ArgOK'
  BY <1>2 DEF Goto, callVars, CallTypes, ArgOK
<1>3. ASSUME NEW next \in PC, NEW p \in Segs, ReadAddress(t, next, p), pc[t] \in UsingPC
      PROVE  CallTypes' /\ ArgOK'
  BY <1>3 DEF ReadAddress, CallTypes, ArgOK
<1>4. ASSUME Return(t)
      PROVE  CallTypes' /\ ArgOK'
  <2>1. "idle" \in PC /\ "idle" \notin UsingPC /\ "none" \in Calls /\ 0 \in Segs
    BY GenFacts DEF PC, OtherPC, UsingPC, HandleOps, Calls
  <2>2. QED
    BY <1>4, <2>1 DEF Return, CallTypes, ArgOK
<1>5. QED
  BY <1>1, <1>2, <1>3, <1>4

\* Handing out and discarding an object keep the types of the objects.
LEMMA ObjectSteps ==
  ASSUME ObjectTypes
  PROVE  /\ \A k \in ObjectKinds, g \in Segs, s \in Segs :
              NewObject(k, g, s) => ObjectTypes'
         /\ \A o \in Objects : Discard(o) => ObjectTypes'
<1>1. ASSUME NEW k \in ObjectKinds, NEW g \in Segs, NEW s \in Segs, NewObject(k, g, s)
      PROVE  ObjectTypes'
  <2>1. [kind |-> k, gen |-> g, seg |-> s] \in ObjectType
    BY DEF ObjectType
  <2>2. QED
    BY <1>1, <2>1 DEF NewObject, ObjectTypes
<1>2. ASSUME NEW o \in Objects, Discard(o)
      PROVE  ObjectTypes'
  <2>1. [kind |-> "none", gen |-> 0, seg |-> 0] \in ObjectType
    BY GenFacts DEF ObjectType, ObjectKinds
  <2>2. QED
    BY <1>2, <2>1 DEF Discard, ObjectTypes
<1>3. QED
  BY <1>1, <1>2

\* What a group of unchanged variables keeps.
LEMMA Unchanged ==
  ASSUME Types
  PROVE  /\ UNCHANGED leaseVars => LeaseTypes'
         /\ UNCHANGED bindVars => BindTypes'
         /\ UNCHANGED <<registry, rtVars>> => RuntimeTypes'
         /\ UNCHANGED obj => ObjectTypes'
         /\ UNCHANGED <<mtx, refs, finalized, state>> => ControlTypes'
BY DEF Types, ControlTypes, LeaseTypes, BindTypes, RuntimeTypes, ObjectTypes,
       leaseVars, bindVars, rtVars

\* The initial state has the types.
LEMMA InitTypes == Init => Types /\ ArgOK
<1> SUFFICES ASSUME Init PROVE Types /\ ArgOK
  OBVIOUS
<1>1. ControlTypes /\ LeaseTypes /\ RuntimeTypes
  <2>1. refs \in Int /\ LeaseTypes
    BY DEF Init, LeaseTypes
  <2>2. state \in BufferState
    BY DEF Init, BufferState
  <2>3. mtx \in Threads \cup {NoThread} /\ finalized \in BOOLEAN
    BY DEF Init
  <2>4. RuntimeTypes
    BY DEF Init, RuntimeTypes
  <2>5. QED
    BY <2>1, <2>2, <2>3, <2>4 DEF ControlTypes
<1>2. BindTypes
  BY GenFacts DEF Init, BindTypes, MemoryDomain, RawDomains, Ownership, MemStatus
<1>3. ObjectTypes
  BY GenFacts DEF Init, ObjectTypes, ObjectType, ObjectKinds
<1>4. CallTypes
  BY GenFacts DEF Init, CallTypes, PC, OtherPC, Calls
<1>5. ArgOK
  BY DEF Init, ArgOK, UsingPC, HandleOps
<1>6. QED
  BY <1>1, <1>2, <1>3, <1>4, <1>5 DEF Types

\* The steps that move a thread along and change nothing else.
OnlyCall == UNCHANGED <<mtx, refs, finalized, leaseVars, state, bindVars, registry,
                        rtVars, obj>>

\* A step that changes the call of thread t alone keeps the types.
LEMMA OnlyCallTypes ==
  ASSUME Types, OnlyCall, CallTypes'
  PROVE  Types'
BY Unchanged DEF Types, OnlyCall

\* Every step keeps the types.
LEMMA StepTypes ==
  ASSUME Types, ArgOK, NEW t \in Threads, Start(t) \/ Continue(t)
  PROVE  Types' /\ ArgOK'
<1> USE DEF PC, retain, LeasedState, UnleasedState
<1>1. CallTypes /\ ObjectTypes /\ BindTypes /\ LeaseTypes /\ ControlTypes /\ RuntimeTypes
  BY DEF Types
<1>2. ASSUME NEW call \in HandleOps, NEW h \in Objects, begin(t, call, h)
      PROVE  Types' /\ ArgOK'
  <2>1. CallTypes' /\ ArgOK'
    BY <1>2, <1>1, CallSteps DEF begin, UsingPC, OtherPC, HandleOps, Calls
  <2>2. QED
    BY <1>2, <2>1, OnlyCallTypes DEF begin, OnlyCall
<1>3. CASE validate_alive(t)
  <2>1. pc[t] \in UsingPC /\ op[t] \in HandleOps
    BY <1>3 DEF validate_alive, ArgOK, UsingPC
  <2>2. CallTypes' /\ ArgOK'
    BY <1>3, <1>1, <2>1, CallSteps DEF validate_alive, UsingPC
  <2>3. QED
    BY <1>3, <2>2, OnlyCallTypes DEF validate_alive, OnlyCall
<1>4. CASE map(t)
  <2>1. CallTypes' /\ ArgOK'
    BY <1>4, <1>1, CallSteps DEF map, UsingPC, OtherPC, HandleOps, Calls
  <2>2. QED
    BY <1>4, <2>1, OnlyCallTypes DEF map, OnlyCall
<1>5. CASE copy_memory(t)
  <2>1. CallTypes' /\ ArgOK'
    BY <1>5, <1>1, CallSteps DEF copy_memory, UsingPC, OtherPC, HandleOps, Calls
  <2>2. QED
    BY <1>5, <2>1, OnlyCallTypes DEF copy_memory, OnlyCall
<1>6. CASE lookup(t)
  <2>1. CallTypes' /\ ArgOK'
    BY <1>6, <1>1, CallSteps DEF lookup, UsingPC, OtherPC, HandleOps, Calls
  <2>2. QED
    BY <1>6, <2>1, OnlyCallTypes DEF lookup, OnlyCall
<1>7. CASE migrate(t)
  <2>1. CallTypes' /\ ArgOK'
    BY <1>7, <1>1, CallSteps DEF migrate, UsingPC, OtherPC, HandleOps, Calls
  <2>2. QED
    BY <1>7, <2>1, OnlyCallTypes DEF migrate, OnlyCall
<1>8. CASE invalidate(t)
  <2>1. CallTypes' /\ ArgOK'
    BY <1>8, <1>1, CallSteps DEF invalidate, UsingPC, OtherPC, HandleOps, Calls
  <2>2. QED
    BY <1>8, <2>1, OnlyCallTypes DEF invalidate, OnlyCall
<1>9. CASE pool_trim(t)
  <2>1. CallTypes' /\ ArgOK'
    BY <1>9, <1>1, CallSteps DEF pool_trim, UsingPC, OtherPC, HandleOps, Calls
  <2>2. QED
    BY <1>9, <2>1, OnlyCallTypes DEF pool_trim, OnlyCall
<1>10. CASE shutdown_snapshot(t)
  <2>1. CallTypes' /\ ArgOK'
    BY <1>10, <1>1, CallSteps DEF shutdown_snapshot, UsingPC, OtherPC, HandleOps, Calls
  <2>2. QED
    BY <1>10, <2>1, OnlyCallTypes DEF shutdown_snapshot, OnlyCall
<1>11. CASE shutdown_check(t)
  <2>1. CallTypes' /\ ArgOK'
    BY <1>11, <1>1, CallSteps DEF shutdown_check, UsingPC, OtherPC, HandleOps, Calls
  <2>2. QED
    BY <1>11, <2>1, OnlyCallTypes DEF shutdown_check, OnlyCall
<1>12. CASE view(t)
  <2>1. \E p \in Segs : ReadAddress(t, "view_retain", p)
    BY <1>12, <1>1, GenFacts DEF view, HostMap, ReadAddress, BindTypes
  <2>2. CallTypes' /\ ArgOK'
    BY <1>12, <1>1, <2>1, CallSteps DEF view, UsingPC, OtherPC, HandleOps, Calls
  <2>3. QED
    BY <1>12, <2>2, OnlyCallTypes DEF view, OnlyCall
<1>13. CASE copy(t)
  <2>1. \E p \in Segs : ReadAddress(t, "copy_memory", p)
    BY <1>13, <1>1, GenFacts DEF copy, ReadAddress, BindTypes
  <2>2. CallTypes' /\ ArgOK'
    BY <1>13, <1>1, <2>1, CallSteps DEF copy, UsingPC, OtherPC, HandleOps, Calls
  <2>3. QED
    BY <1>13, <2>2, OnlyCallTypes DEF copy, OnlyCall
<1>14. ASSUME NEW own \in Ownership, NEW st \in BufferState, NEW d \in MemoryDomain,
             NEW pooled \in BOOLEAN, Create(t, own, st, d, pooled)
      PROVE  Types' /\ ArgOK'
  <2>1. CallTypes' /\ ArgOK'
    BY <1>14, <1>1, CallSteps DEF Create, UsingPC, OtherPC, HandleOps, Calls
  <2>2. BindTypes'
    BY <1>14, <1>1, GenFacts DEF Create, BindTypes, MemStatus
  <2>3. ControlTypes'
    BY <1>14, <1>1 DEF Create, ControlTypes
  <2>4. QED
    BY <1>14, <2>1, <2>2, <2>3, Unchanged DEF Create, Types
<1>15. CASE allocate(t) \/ wrap_external(t) \/ import_shared(t)
  BY <1>15, <1>14, DomainsAssumption
     DEF allocate, wrap_external, import_shared, Ownership, BufferState
<1>16. CASE register_control(t)
  <2>1. CallTypes' /\ ArgOK'
    BY <1>16, <1>1, CallSteps DEF register_control, UsingPC, OtherPC, HandleOps, Calls
  <2>2. RuntimeTypes'
    BY <1>16, <1>1 DEF register_control, RuntimeTypes, rtVars
  <2>3. QED
    BY <1>16, <2>1, <2>2, Unchanged DEF register_control, Types
<1>17. CASE retain_new(t)
  <2>1. CallTypes' /\ ArgOK'
    BY <1>17, <1>1, CallSteps DEF retain_new
  <2>2. generation \in Segs /\ 0 \in Segs
    BY <1>17, <1>1, GenFacts DEF retain_new, ArgOK, UsingPC, HandleOps, BindTypes, CallTypes, ObjectTypes, ObjectType
  <2>3. ObjectTypes'
    BY <1>17, <1>1, <2>2, ObjectSteps DEF retain_new, ObjectKinds
  <2>4. ControlTypes'
    BY <1>17, <1>1 DEF retain_new, ControlTypes
  <2>5. QED
    BY <1>17, <2>1, <2>3, <2>4, Unchanged DEF retain_new, Types
<1>18. CASE share(t)
  <2>1. CallTypes' /\ ArgOK'
    BY <1>18, <1>1, CallSteps DEF share
  <2>2. obj[arg[t]].gen \in Segs /\ 0 \in Segs
    BY <1>18, <1>1, GenFacts DEF share, ArgOK, UsingPC, HandleOps, BindTypes, CallTypes, ObjectTypes, ObjectType
  <2>3. ObjectTypes'
    BY <1>18, <1>1, <2>2, ObjectSteps DEF share, ObjectKinds
  <2>4. ControlTypes'
    BY <1>18, <1>1 DEF share, ControlTypes
  <2>5. QED
    BY <1>18, <2>1, <2>3, <2>4, Unchanged DEF share, Types
<1>19. CASE view_retain(t)
  <2>1. CallTypes' /\ ArgOK'
    BY <1>19, <1>1, CallSteps DEF view_retain, Pin
  <2>2. obj[arg[t]].gen \in Segs /\ ptr[t] \in Segs
    BY <1>19, <1>1, GenFacts DEF view_retain, ArgOK, UsingPC, HandleOps, BindTypes, CallTypes, ObjectTypes, ObjectType
  <2>3. ObjectTypes'
    BY <1>19, <1>1, <2>2, ObjectSteps DEF view_retain, Pin, ObjectKinds
  <2>4. ControlTypes'
    BY <1>19, <1>1 DEF view_retain, Pin, ControlTypes
  <2>5. QED
    BY <1>19, <2>1, <2>3, <2>4, Unchanged DEF view_retain, Pin, Types
<1>20. CASE map_retain(t)
  <2>1. CallTypes' /\ ArgOK'
    BY <1>20, <1>1, CallSteps DEF map_retain, Pin
  <2>2. obj[arg[t]].gen \in Segs /\ ptr[t] \in Segs
    BY <1>20, <1>1, GenFacts DEF map_retain, ArgOK, UsingPC, HandleOps, BindTypes, CallTypes, ObjectTypes, ObjectType
  <2>3. ObjectTypes'
    BY <1>20, <1>1, <2>2, ObjectSteps DEF map_retain, Pin, ObjectKinds
  <2>4. ControlTypes'
    BY <1>20, <1>1 DEF map_retain, Pin, ControlTypes
  <2>5. QED
    BY <1>20, <2>1, <2>3, <2>4, Unchanged DEF map_retain, Pin, Types
<1>21. CASE map_locked(t)
  <2>1. \E p \in Segs : ReadAddress(t, "map_retain", p)
    BY <1>21, <1>1, GenFacts DEF map_locked, ReadAddress, BindTypes
  <2>2. CallTypes' /\ ArgOK'
    BY <1>21, <1>1, <2>1, CallSteps DEF map_locked, UsingPC, OtherPC, HandleOps, Calls
  <2>3. LeaseTypes'
    BY <1>21, <1>1 DEF map_locked, LeaseTypes
  <2>4. ControlTypes'
    BY <1>21, <1>1 DEF map_locked, ControlTypes, BufferState
  <2>5. QED
    BY <1>21, <2>2, <2>3, <2>4, Unchanged DEF map_locked, Types
<1>22. CASE acquire_read(t) /\ Refuse(t)
  <2>1. CallTypes' /\ ArgOK'
    BY <1>22, <1>1, CallSteps DEF Refuse
  <2>2. QED
    BY <1>22, <2>1, OnlyCallTypes DEF Refuse, OnlyCall
<1>23. CASE acquire_read(t) /\ Grant(t, "read")
  <2>1. CallTypes' /\ ArgOK'
    BY <1>23, <1>1, CallSteps DEF Grant
  <2>2. obj[arg[t]].gen \in Segs /\ 0 \in Segs
    BY <1>23, <1>1, GenFacts DEF acquire_read, ArgOK, UsingPC, HandleOps, ObjectTypes, ObjectType
  <2>3. ObjectTypes'
    BY <1>23, <1>1, <2>2, ObjectSteps DEF Grant, ObjectKinds, LeaseKinds
  <2>4. LeaseTypes'
    BY <1>23, <1>1 DEF acquire_read, Refuse, Grant, LeaseTypes, leaseVars
  <2>5. state' \in BufferState
    BY <1>23, <1>1 DEF acquire_read, Refuse, ControlTypes, BufferState
  <2>6. ControlTypes'
    BY <1>23, <1>1, <2>5 DEF Grant, ControlTypes
  <2>7. QED
    BY <1>23, <2>1, <2>3, <2>4, <2>6, Unchanged DEF Grant, Types
<1>24. CASE acquire_write(t) /\ Refuse(t)
  <2>1. CallTypes' /\ ArgOK'
    BY <1>24, <1>1, CallSteps DEF Refuse
  <2>2. QED
    BY <1>24, <2>1, OnlyCallTypes DEF Refuse, OnlyCall
<1>25. CASE acquire_write(t) /\ Grant(t, "write")
  <2>1. CallTypes' /\ ArgOK'
    BY <1>25, <1>1, CallSteps DEF Grant
  <2>2. obj[arg[t]].gen \in Segs /\ 0 \in Segs
    BY <1>25, <1>1, GenFacts DEF acquire_write, ArgOK, UsingPC, HandleOps, ObjectTypes, ObjectType
  <2>3. ObjectTypes'
    BY <1>25, <1>1, <2>2, ObjectSteps DEF Grant, ObjectKinds, LeaseKinds
  <2>4. LeaseTypes'
    BY <1>25, <1>1 DEF acquire_write, Refuse, Grant, LeaseTypes, leaseVars
  <2>5. state' \in BufferState
    BY <1>25, <1>1 DEF acquire_write, Refuse, ControlTypes, BufferState
  <2>6. ControlTypes'
    BY <1>25, <1>1, <2>5 DEF Grant, ControlTypes
  <2>7. QED
    BY <1>25, <2>1, <2>3, <2>4, <2>6, Unchanged DEF Grant, Types
<1>26. CASE acquire_exclusive(t) /\ Refuse(t)
  <2>1. CallTypes' /\ ArgOK'
    BY <1>26, <1>1, CallSteps DEF Refuse
  <2>2. QED
    BY <1>26, <2>1, OnlyCallTypes DEF Refuse, OnlyCall
<1>27. CASE acquire_exclusive(t) /\ Grant(t, "exclusive")
  <2>1. CallTypes' /\ ArgOK'
    BY <1>27, <1>1, CallSteps DEF Grant
  <2>2. obj[arg[t]].gen \in Segs /\ 0 \in Segs
    BY <1>27, <1>1, GenFacts DEF acquire_exclusive, ArgOK, UsingPC, HandleOps, ObjectTypes, ObjectType
  <2>3. ObjectTypes'
    BY <1>27, <1>1, <2>2, ObjectSteps DEF Grant, ObjectKinds, LeaseKinds
  <2>4. LeaseTypes'
    BY <1>27, <1>1 DEF acquire_exclusive, Refuse, Grant, LeaseTypes, leaseVars
  <2>5. state' \in BufferState
    BY <1>27, <1>1 DEF acquire_exclusive, Refuse, ControlTypes, BufferState
  <2>6. ControlTypes'
    BY <1>27, <1>1, <2>5 DEF Grant, ControlTypes
  <2>7. QED
    BY <1>27, <2>1, <2>3, <2>4, <2>6, Unchanged DEF Grant, Types
<1>28. CASE export_descriptor(t)
  <2>1. CallTypes' /\ ArgOK'
    BY <1>28, <1>1, CallSteps DEF export_descriptor
  <2>2. RuntimeTypes'
    BY <1>28, <1>1 DEF export_descriptor, RuntimeTypes, BindTypes
  <2>3. QED
    BY <1>28, <2>1, <2>2, Unchanged DEF export_descriptor, Types
<1>29. CASE migrate_locked(t)
  <2>1. CallTypes' /\ ArgOK'
    BY <1>29, <1>1, CallSteps DEF migrate_locked, UsingPC, OtherPC, HandleOps, Calls
  <2>2. BindTypes'
    <3>1. CASE UNCHANGED bindVars
      BY <3>1, Unchanged
    <3>2. CASE /\ generation < MaxGen
               /\ \E target \in Domains \ {domain} : domain' = target
               /\ generation' = generation + 1
               /\ backing' = generation'
               /\ mem' = [g \in Gens |-> CASE g = generation' -> "live"
                                           [] g = backing -> Freed(mem[g])
                                           [] OTHER -> mem[g]]
               /\ pool_eligible' = FALSE
               /\ UNCHANGED ownership
      <4>1. \A g \in Gens : Freed(mem[g]) \in MemStatus /\ mem[g] \in MemStatus
        BY <1>1 DEF Freed, MemStatus, BindTypes
      <4>2. mem' \in [Gens -> MemStatus]
        BY <3>2, <4>1 DEF MemStatus
      <4>3. generation' \in Gens /\ backing' \in Segs
        BY <1>1, <3>2, GenFacts DEF BindTypes
      <4>4. domain' \in MemoryDomain
        BY <3>2, DomainsAssumption
      <4>5. QED
        BY <1>1, <3>2, <4>2, <4>3, <4>4 DEF BindTypes
    <3>3. QED
      BY <1>29, <3>1, <3>2 DEF migrate_locked
  <2>3. ControlTypes'
    BY <1>29, <1>1 DEF migrate_locked, ControlTypes, BufferState
  <2>4. QED
    BY <1>29, <2>1, <2>2, <2>3, Unchanged DEF migrate_locked, Types
<1>30. ASSUME NEW o \in Objects, release_handle(t, o)
      PROVE  Types' /\ ArgOK'
  <2>1. CallTypes' /\ ArgOK'
    BY <1>30, <1>1, CallSteps DEF release_handle, UsingPC, OtherPC, HandleOps, Calls
  <2>2. ObjectTypes'
    BY <1>30, <1>1, ObjectSteps DEF release_handle
  <2>3. QED
    BY <1>30, <2>1, <2>2, Unchanged DEF release_handle, Types
<1>31. ASSUME NEW o \in Objects, release_view(t, o)
      PROVE  Types' /\ ArgOK'
  <2>1. CallTypes' /\ ArgOK'
    BY <1>31, <1>1, CallSteps DEF release_view, UsingPC, OtherPC, HandleOps, Calls
  <2>2. ObjectTypes'
    BY <1>31, <1>1, ObjectSteps DEF release_view
  <2>3. QED
    BY <1>31, <2>1, <2>2, Unchanged DEF release_view, Types
<1>32. ASSUME NEW o \in Objects, release_lease(t, o)
      PROVE  Types' /\ ArgOK'
  <2>1. CallTypes' /\ ArgOK'
    BY <1>32, <1>1, CallSteps DEF release_lease, UsingPC, OtherPC, HandleOps, Calls
  <2>2. ObjectTypes'
    BY <1>32, <1>1, ObjectSteps DEF release_lease
  <2>3. LeaseTypes'
    BY <1>32, <1>1 DEF release_lease, LeaseTypes, Less
  <2>4. ControlTypes'
    BY <1>32, <1>1 DEF release_lease, ControlTypes, BufferState
  <2>5. QED
    BY <1>32, <2>1, <2>2, <2>3, <2>4, Unchanged DEF release_lease, Types
<1>33. ASSUME NEW o \in Objects, release_map(t, o)
      PROVE  Types' /\ ArgOK'
  <2>1. CallTypes' /\ ArgOK'
    BY <1>33, <1>1, CallSteps DEF release_map, UsingPC, OtherPC, HandleOps, Calls
  <2>2. ObjectTypes'
    BY <1>33, <1>1, ObjectSteps DEF release_map
  <2>3. LeaseTypes'
    BY <1>33, <1>1 DEF release_map, LeaseTypes, Less
  <2>4. ControlTypes'
    BY <1>33, <1>1 DEF release_map, ControlTypes, BufferState
  <2>5. QED
    BY <1>33, <2>1, <2>2, <2>3, <2>4, Unchanged DEF release_map, Types
<1>34. CASE drop_ref(t)
  <2>1. CallTypes' /\ ArgOK'
    BY <1>34, <1>1, CallSteps DEF drop_ref, FinalizeReturn, UsingPC, OtherPC, HandleOps, Calls
  <2>2. ControlTypes'
    BY <1>34, <1>1 DEF drop_ref, ControlTypes
  <2>3. QED
    BY <1>34, <2>1, <2>2, Unchanged DEF drop_ref, Types
<1>35. CASE finalize(t)
  <2>1. CallTypes' /\ ArgOK'
    BY <1>35, <1>1, CallSteps DEF finalize, FinalizeReturn, UsingPC, OtherPC, HandleOps, Calls
  <2>2. ControlTypes'
    BY <1>35, <1>1 DEF finalize, ControlTypes
  <2>3. QED
    BY <1>35, <2>1, <2>2, Unchanged DEF finalize, Types
<1>36. CASE finalize_by_id(t)
  <2>1. CallTypes' /\ ArgOK'
    BY <1>36, <1>1, CallSteps DEF finalize_by_id, FinalizeReturn, UsingPC, OtherPC, HandleOps, Calls
  <2>2. ControlTypes'
    BY <1>36, <1>1 DEF finalize_by_id, ControlTypes
  <2>3. QED
    BY <1>36, <2>1, <2>2, Unchanged DEF finalize_by_id, Types
<1>37. CASE invalidate_store(t)
  <2>1. CallTypes' /\ ArgOK'
    BY <1>37, <1>1, CallSteps DEF invalidate_store, FinalizeReturn, UsingPC, OtherPC, HandleOps, Calls
  <2>2. ControlTypes'
    BY <1>37, <1>1 DEF invalidate_store, ControlTypes
  <2>3. QED
    BY <1>37, <2>1, <2>2, Unchanged DEF invalidate_store, Types
<1>38. CASE invalidate_relock(t)
  <2>1. CallTypes' /\ ArgOK'
    BY <1>38, <1>1, CallSteps DEF invalidate_relock, FinalizeReturn, UsingPC, OtherPC, HandleOps, Calls
  <2>2. ControlTypes'
    BY <1>38, <1>1 DEF invalidate_relock, ControlTypes
  <2>3. QED
    BY <1>38, <2>1, <2>2, Unchanged DEF invalidate_relock, Types
<1>39. CASE finalize_release(t)
  <2>1. CallTypes' /\ ArgOK'
    BY <1>39, <1>1, CallSteps DEF finalize_release, UsingPC, OtherPC, HandleOps, Calls
  <2>2. mem' \in [Gens -> MemStatus]
    BY <1>39, <1>1 DEF finalize_release, LetGo, Freed, MemStatus, BindTypes
  <2>3. backing' \in Segs /\ ownership' \in Ownership
    BY <1>39, <1>1, GenFacts DEF finalize_release, BindTypes, Ownership
  <2>4. BindTypes'
    BY <1>39, <1>1, <2>2, <2>3 DEF finalize_release, BindTypes
  <2>5. ControlTypes'
    BY <1>39, <1>1 DEF finalize_release, ControlTypes, BufferState
  <2>6. QED
    BY <1>39, <2>1, <2>4, <2>5, Unchanged DEF finalize_release, Types
<1>40. CASE finalize_erase(t)
  <2>1. CallTypes' /\ ArgOK'
    BY <1>40, <1>1, CallSteps DEF finalize_erase, FinalizeReturn, UsingPC, OtherPC, HandleOps, Calls
  <2>2. RuntimeTypes'
    BY <1>40, <1>1 DEF finalize_erase, RuntimeTypes, rtVars
  <2>3. ControlTypes'
    BY <1>40, <1>1 DEF finalize_erase, ControlTypes
  <2>4. QED
    BY <1>40, <2>1, <2>2, <2>3, Unchanged DEF finalize_erase, Types
<1>41. CASE trim(t)
  <2>1. CallTypes' /\ ArgOK'
    BY <1>41, <1>1, CallSteps DEF trim, UsingPC, OtherPC, HandleOps, Calls
  <2>2. BindTypes'
    BY <1>41, <1>1 DEF trim, BindTypes, MemStatus
  <2>3. QED
    BY <1>41, <2>1, <2>2, Unchanged DEF trim, Types
<1>42. CASE shutdown(t)
  <2>1. CallTypes' /\ ArgOK'
    BY <1>42, <1>1, CallSteps DEF shutdown, UsingPC, OtherPC, HandleOps, Calls
  <2>2. RuntimeTypes'
    BY <1>42, <1>1 DEF shutdown, RuntimeTypes
  <2>3. QED
    BY <1>42, <2>1, <2>2, Unchanged DEF shutdown, Types
<1>43. CASE reset_backends(t)
  <2>1. CallTypes' /\ ArgOK'
    BY <1>43, <1>1, CallSteps DEF reset_backends, UsingPC, OtherPC, HandleOps, Calls
  <2>2. RuntimeTypes'
    BY <1>43, <1>1 DEF reset_backends, RuntimeTypes
  <2>3. QED
    BY <1>43, <2>1, <2>2, Unchanged DEF reset_backends, Types
<1>44. QED
  BY <1>2, <1>3, <1>4, <1>5, <1>6, <1>7, <1>8, <1>9, <1>10, <1>11, <1>12, <1>13,
     <1>14, <1>15, <1>16, <1>17, <1>18, <1>19, <1>20, <1>21, <1>22, <1>23,
     <1>24, <1>25, <1>26, <1>27, <1>28, <1>29, <1>30, <1>31, <1>32, <1>33,
     <1>34, <1>35, <1>36, <1>37, <1>38, <1>39, <1>40, <1>41, <1>42, <1>43
     DEF Start, Continue, acquire_read, acquire_write, acquire_exclusive
-----------------------------------------------------------------------------
(***************************************************************************)
(* The counters.                                                           *)
(***************************************************************************)

\* Maps that are counted but not yet in the client's hands.
MapsPending == {t \in Threads : pc[t] = "map_retain"}

\* The sets that the counters count are finite.
LEMMA FiniteCounts ==
  /\ \A k : IsFiniteSet(Holding(k)) /\ Cardinality(Holding(k)) \in Nat
  /\ IsFiniteSet(MapsPending) /\ Cardinality(MapsPending) \in Nat
<1>1. ASSUME NEW k PROVE IsFiniteSet(Holding(k)) /\ Cardinality(Holding(k)) \in Nat
  <2>1. Holding(k) \subseteq Objects
    BY DEF Holding
  <2>2. QED
    BY <2>1, ObjectsAssumption, FS_Subset, FS_CardinalityType
<1>2. IsFiniteSet(MapsPending) /\ Cardinality(MapsPending) \in Nat
  <2>1. MapsPending \subseteq Threads
    BY DEF MapsPending
  <2>2. QED
    BY <2>1, ThreadsAssumption, FS_Subset, FS_CardinalityType
<1>3. QED
  BY <1>1, <1>2

\* A new object of kind k is one more of that kind and changes no other.
LEMMA CountNew ==
  ASSUME ObjectTypes, NEW k \in ObjectKinds \ {"none"}, NEW g, NEW s, NewObject(k, g, s)
  PROVE  /\ Cardinality(Holding(k))' = Cardinality(Holding(k)) + 1
         /\ \A j \in ObjectKinds \ {"none", k} : Holding(j)' = Holding(j)
<1>1. PICK o \in Objects : /\ obj[o].kind = "none"
                           /\ obj' = [obj EXCEPT ![o] = [kind |-> k, gen |-> g, seg |-> s]]
  BY DEF NewObject
<1>2. Holding(k)' = Holding(k) \cup {o} /\ o \notin Holding(k)
  BY <1>1 DEF Holding, ObjectTypes
<1>3. Cardinality(Holding(k) \cup {o}) = Cardinality(Holding(k)) + 1
  BY <1>2, FiniteCounts, FS_AddElement
<1>4. ASSUME NEW j \in ObjectKinds \ {"none", k} PROVE Holding(j)' = Holding(j)
  BY <1>1 DEF Holding, ObjectTypes
<1>5. QED
  BY <1>2, <1>3, <1>4

\* A discarded object is one less of its kind.
LEMMA CountDiscard ==
  ASSUME ObjectTypes, NEW o \in Objects, NEW k \in ObjectKinds \ {"none"},
         obj[o].kind = k, Discard(o)
  PROVE  /\ Cardinality(Holding(k))' = Cardinality(Holding(k)) - 1
         /\ Cardinality(Holding(k)) > 0
         /\ \A j \in ObjectKinds \ {"none", k} : Holding(j)' = Holding(j)
<1>1. \A j \in ObjectKinds \ {"none"} : Holding(j)' = Holding(j) \ {o}
  BY DEF Discard, Holding, ObjectTypes
<1>2. o \in Holding(k)
  BY DEF Holding
<1>3. \A j \in ObjectKinds \ {"none", k} : Holding(j)' = Holding(j)
  BY <1>1 DEF Holding
<1>4. IsFiniteSet(Holding(k)) /\ Cardinality(Holding(k)) \in Nat
  BY FiniteCounts
<1>5. Cardinality(Holding(k)) # 0
  BY <1>2, <1>4, FS_EmptySet
<1>6. Cardinality(Holding(k) \ {o}) = Cardinality(Holding(k)) - 1
  BY <1>2, <1>4, FS_RemoveElement
<1>7. QED
  BY <1>1, <1>3, <1>4, <1>5, <1>6

\* Only map_locked and map_retain change the set of pending maps.
LEMMA PendingKept ==
  ASSUME CallTypes, ArgOK, NEW t \in Threads, NEW next,
         pc' = [pc EXCEPT ![t] = next], pc[t] # "map_retain", next # "map_retain"
  PROVE  MapsPending' = MapsPending
BY DEF MapsPending, CallTypes

\* map_locked adds its thread.
LEMMA PendingAdd ==
  ASSUME CallTypes, NEW t \in Threads, map_locked(t)
  PROVE  Cardinality(MapsPending)' = Cardinality(MapsPending) + 1
<1>1. MapsPending' = MapsPending \cup {t} /\ t \notin MapsPending
  BY DEF map_locked, MapsPending, CallTypes
<1>2. QED
  BY <1>1, FiniteCounts, FS_AddElement

\* map_retain removes its thread.
LEMMA PendingRemove ==
  ASSUME CallTypes, NEW t \in Threads, map_retain(t)
  PROVE  Cardinality(MapsPending)' = Cardinality(MapsPending) - 1
<1>1. MapsPending' = MapsPending \ {t} /\ t \in MapsPending
  BY DEF map_retain, Pin, Return, MapsPending, CallTypes
<1>2. QED
  BY <1>1, FiniteCounts, FS_RemoveElement

Counts ==
  /\ read_leases = Cardinality(Holding("read"))
  /\ write_leases = Cardinality(Holding("write"))
  /\ exclusive_leases = Cardinality(Holding("exclusive"))
  /\ map_count = Cardinality(Holding("map")) + Cardinality(MapsPending)

\* Every step keeps the counters exact.
LEMMA StepCounts ==
  ASSUME Types, ArgOK, Counts, NEW t \in Threads, Start(t) \/ Continue(t)
  PROVE  Counts'
<1> USE DEF ObjectKinds, LeaseKinds
<1>1. CallTypes /\ ObjectTypes /\ LeaseTypes
  BY DEF Types
<1>2. ASSUME UNCHANGED <<leaseVars, obj>>, MapsPending' = MapsPending
      PROVE  Counts'
  BY <1>2 DEF Counts, Holding, leaseVars
<1>3. ASSUME NEW k \in {"handle", "view"}, NEW g, NEW s, NewObject(k, g, s),
             UNCHANGED leaseVars, MapsPending' = MapsPending
      PROVE  Counts'
  BY <1>1, <1>3, CountNew DEF Counts, leaseVars
<1>4. ASSUME NEW o \in Objects, obj[o].kind \in {"handle", "view"}, Discard(o),
             UNCHANGED leaseVars, MapsPending' = MapsPending
      PROVE  Counts'
  BY <1>1, <1>4, CountDiscard DEF Counts, leaseVars
<1>5. CASE allocate(t) \/ wrap_external(t) \/ import_shared(t)
  <2>1. MapsPending' = MapsPending
    BY <1>5, <1>1, PendingKept DEF allocate, wrap_external, import_shared, Create, Enter
  <2>2. QED
    BY <1>5, <1>2, <2>1 DEF allocate, wrap_external, import_shared, Create
<1>6. CASE register_control(t)
  <2>1. MapsPending' = MapsPending
    BY <1>6, <1>1, PendingKept DEF register_control, Goto, Return, Enter
  <2>2. QED
    BY <1>6, <1>2, <2>1 DEF register_control
<1>7. CASE copy(t)
  <2>1. MapsPending' = MapsPending
    BY <1>7, <1>1, PendingKept DEF copy, Goto, Return, Enter
  <2>2. QED
    BY <1>7, <1>2, <2>1 DEF copy
<1>8. CASE copy_memory(t)
  <2>1. MapsPending' = MapsPending
    BY <1>8, <1>1, PendingKept DEF copy_memory, Goto, Return, Enter
  <2>2. QED
    BY <1>8, <1>2, <2>1 DEF copy_memory
<1>9. CASE view(t)
  <2>1. MapsPending' = MapsPending
    BY <1>9, <1>1, PendingKept DEF view, Goto, Return, Enter
  <2>2. QED
    BY <1>9, <1>2, <2>1 DEF view
<1>10. CASE map(t)
  <2>1. MapsPending' = MapsPending
    BY <1>10, <1>1, PendingKept DEF map, Goto, Return, Enter
  <2>2. QED
    BY <1>10, <1>2, <2>1 DEF map
<1>11. CASE export_descriptor(t)
  <2>1. MapsPending' = MapsPending
    BY <1>11, <1>1, PendingKept DEF export_descriptor, Goto, Return, Enter
  <2>2. QED
    BY <1>11, <1>2, <2>1 DEF export_descriptor
<1>12. CASE lookup(t)
  <2>1. MapsPending' = MapsPending
    BY <1>12, <1>1, PendingKept DEF lookup, Goto, Return, Enter
  <2>2. QED
    BY <1>12, <1>2, <2>1 DEF lookup
<1>13. CASE migrate(t)
  <2>1. MapsPending' = MapsPending
    BY <1>13, <1>1, PendingKept DEF migrate, Goto, Return, Enter
  <2>2. QED
    BY <1>13, <1>2, <2>1 DEF migrate
<1>14. CASE migrate_locked(t)
  <2>1. MapsPending' = MapsPending
    BY <1>14, <1>1, PendingKept DEF migrate_locked, Goto, Return, Enter
  <2>2. QED
    BY <1>14, <1>2, <2>1 DEF migrate_locked
<1>15. CASE drop_ref(t)
  <2>1. MapsPending' = MapsPending
    BY <1>15, <1>1, PendingKept DEF drop_ref, Goto, Return, Enter, FinalizeReturn
  <2>2. QED
    BY <1>15, <1>2, <2>1 DEF drop_ref
<1>16. CASE finalize(t)
  <2>1. MapsPending' = MapsPending
    BY <1>16, <1>1, PendingKept DEF finalize, Goto, Return, Enter, FinalizeReturn
  <2>2. QED
    BY <1>16, <1>2, <2>1 DEF finalize
<1>17. CASE finalize_release(t)
  <2>1. MapsPending' = MapsPending
    BY <1>17, <1>1, PendingKept DEF finalize_release, Goto, Return, Enter, FinalizeReturn
  <2>2. QED
    BY <1>17, <1>2, <2>1 DEF finalize_release
<1>18. CASE finalize_erase(t)
  <2>1. MapsPending' = MapsPending
    BY <1>18, <1>1, PendingKept DEF finalize_erase, Goto, Return, Enter, FinalizeReturn
  <2>2. QED
    BY <1>18, <1>2, <2>1 DEF finalize_erase
<1>19. CASE invalidate(t)
  <2>1. MapsPending' = MapsPending
    BY <1>19, <1>1, PendingKept DEF invalidate, Goto, Return, Enter
  <2>2. QED
    BY <1>19, <1>2, <2>1 DEF invalidate
<1>20. CASE finalize_by_id(t)
  <2>1. MapsPending' = MapsPending
    BY <1>20, <1>1, PendingKept DEF finalize_by_id, Goto, Return, Enter
  <2>2. QED
    BY <1>20, <1>2, <2>1 DEF finalize_by_id
<1>21. CASE invalidate_store(t)
  <2>1. MapsPending' = MapsPending
    BY <1>21, <1>1, PendingKept DEF invalidate_store, Goto, Return, Enter
  <2>2. QED
    BY <1>21, <1>2, <2>1 DEF invalidate_store
<1>22. CASE invalidate_relock(t)
  <2>1. MapsPending' = MapsPending
    BY <1>22, <1>1, PendingKept DEF invalidate_relock, Goto, Return, Enter
  <2>2. QED
    BY <1>22, <1>2, <2>1 DEF invalidate_relock
<1>23. CASE pool_trim(t)
  <2>1. MapsPending' = MapsPending
    BY <1>23, <1>1, PendingKept DEF pool_trim, Goto, Return, Enter
  <2>2. QED
    BY <1>23, <1>2, <2>1 DEF pool_trim
<1>24. CASE trim(t)
  <2>1. MapsPending' = MapsPending
    BY <1>24, <1>1, PendingKept DEF trim, Goto, Return, Enter
  <2>2. QED
    BY <1>24, <1>2, <2>1 DEF trim
<1>25. CASE shutdown(t)
  <2>1. MapsPending' = MapsPending
    BY <1>25, <1>1, PendingKept DEF shutdown, Goto, Return, Enter
  <2>2. QED
    BY <1>25, <1>2, <2>1 DEF shutdown
<1>26. CASE shutdown_snapshot(t)
  <2>1. MapsPending' = MapsPending
    BY <1>26, <1>1, PendingKept DEF shutdown_snapshot, Goto, Return, Enter
  <2>2. QED
    BY <1>26, <1>2, <2>1 DEF shutdown_snapshot
<1>27. CASE shutdown_check(t)
  <2>1. MapsPending' = MapsPending
    BY <1>27, <1>1, PendingKept DEF shutdown_check, Goto, Return, Enter
  <2>2. QED
    BY <1>27, <1>2, <2>1 DEF shutdown_check
<1>28. CASE reset_backends(t)
  <2>1. MapsPending' = MapsPending
    BY <1>28, <1>1, PendingKept DEF reset_backends, Goto, Return, Enter
  <2>2. QED
    BY <1>28, <1>2, <2>1 DEF reset_backends
<1>29. ASSUME NEW call \in HandleOps, NEW h \in Objects, begin(t, call, h)
      PROVE  Counts'
  <2>1. MapsPending' = MapsPending
    BY <1>29, <1>1, PendingKept DEF begin, Enter
  <2>2. QED
    BY <1>29, <1>2, <2>1 DEF begin
<1>30. CASE validate_alive(t)
  <2>1. op[t] # "map_retain"
    BY <1>30 DEF validate_alive, ArgOK, UsingPC, HandleOps
  <2>2. MapsPending' = MapsPending
    BY <1>30, <1>1, <2>1, PendingKept DEF validate_alive, Goto, Return
  <2>3. QED
    BY <1>30, <1>2, <2>2 DEF validate_alive
<1>31. CASE retain_new(t)
  <2>1. MapsPending' = MapsPending
    BY <1>31, <1>1, PendingKept DEF retain_new, Return
  <2>2. QED
    BY <1>31, <1>3, <2>1 DEF retain_new
<1>32. CASE share(t)
  <2>1. MapsPending' = MapsPending
    BY <1>32, <1>1, PendingKept DEF share, Return
  <2>2. QED
    BY <1>32, <1>3, <2>1 DEF share
<1>33. CASE view_retain(t)
  <2>1. MapsPending' = MapsPending
    BY <1>33, <1>1, PendingKept DEF view_retain, Pin, Return
  <2>2. QED
    BY <1>33, <1>3, <2>1 DEF view_retain, Pin
<1>34. ASSUME NEW o \in Objects, release_handle(t, o)
      PROVE  Counts'
  <2>1. MapsPending' = MapsPending
    BY <1>34, <1>1, PendingKept DEF release_handle, Enter
  <2>2. QED
    BY <1>34, <1>4, <2>1 DEF release_handle
<1>35. ASSUME NEW o \in Objects, release_view(t, o)
      PROVE  Counts'
  <2>1. MapsPending' = MapsPending
    BY <1>35, <1>1, PendingKept DEF release_view, Enter
  <2>2. QED
    BY <1>35, <1>4, <2>1 DEF release_view
<1>36. CASE map_locked(t)
  <2>1. Cardinality(MapsPending)' = Cardinality(MapsPending) + 1
    BY <1>36, <1>1, PendingAdd
  <2>2. \A k : Holding(k)' = Holding(k)
    BY <1>36 DEF map_locked, Holding
  <2>3. QED
    BY <1>36, <1>1, <2>1, <2>2, FiniteCounts DEF map_locked, Counts
<1>37. CASE map_retain(t)
  <2>1. Cardinality(MapsPending)' = Cardinality(MapsPending) - 1
    BY <1>37, <1>1, PendingRemove
  <2>2. NewObject("map", obj[arg[t]].gen, ptr[t]) /\ UNCHANGED leaseVars
    BY <1>37 DEF map_retain, Pin
  <2>3. Cardinality(Holding("map"))' = Cardinality(Holding("map")) + 1
    BY <1>1, <2>2, CountNew
  <2>4. \A k \in LeaseKinds : Holding(k)' = Holding(k)
    BY <1>1, <2>2, CountNew
  <2>5. QED
    BY <2>1, <2>2, <2>3, <2>4, FiniteCounts DEF Counts, leaseVars
<1>38. CASE acquire_read(t)
  <2>1. MapsPending' = MapsPending
    BY <1>38, <1>1, PendingKept DEF acquire_read, Grant, Refuse, Return
  <2>2. CASE Refuse(t)
    BY <1>2, <2>1, <2>2 DEF Refuse
  <2>3. CASE Grant(t, "read") /\ read_leases' = read_leases + 1
              /\ UNCHANGED <<write_leases, exclusive_leases>>
    <3>1. NewObject("read", obj[arg[t]].gen, 0) /\ UNCHANGED map_count
      BY <2>3 DEF Grant
    <3>2. Cardinality(Holding("read"))' = Cardinality(Holding("read")) + 1
      BY <1>1, <3>1, CountNew
    <3>3. \A j \in {"write", "exclusive", "map"} : Holding(j)' = Holding(j)
      BY <1>1, <3>1, CountNew
    <3>4. QED
      BY <2>1, <2>3, <3>1, <3>2, <3>3 DEF Counts
  <2>4. QED
    BY <1>38, <2>2, <2>3 DEF acquire_read
<1>39. CASE acquire_write(t)
  <2>1. MapsPending' = MapsPending
    BY <1>39, <1>1, PendingKept DEF acquire_write, Grant, Refuse, Return
  <2>2. CASE Refuse(t)
    BY <1>2, <2>1, <2>2 DEF Refuse
  <2>3. CASE Grant(t, "write") /\ write_leases' = write_leases + 1
              /\ UNCHANGED <<read_leases, exclusive_leases>>
    <3>1. NewObject("write", obj[arg[t]].gen, 0) /\ UNCHANGED map_count
      BY <2>3 DEF Grant
    <3>2. Cardinality(Holding("write"))' = Cardinality(Holding("write")) + 1
      BY <1>1, <3>1, CountNew
    <3>3. \A j \in {"read", "exclusive", "map"} : Holding(j)' = Holding(j)
      BY <1>1, <3>1, CountNew
    <3>4. QED
      BY <2>1, <2>3, <3>1, <3>2, <3>3 DEF Counts
  <2>4. QED
    BY <1>39, <2>2, <2>3 DEF acquire_write
<1>40. CASE acquire_exclusive(t)
  <2>1. MapsPending' = MapsPending
    BY <1>40, <1>1, PendingKept DEF acquire_exclusive, Grant, Refuse, Return
  <2>2. CASE Refuse(t)
    BY <1>2, <2>1, <2>2 DEF Refuse
  <2>3. CASE Grant(t, "exclusive") /\ exclusive_leases' = exclusive_leases + 1
              /\ UNCHANGED <<read_leases, write_leases>>
    <3>1. NewObject("exclusive", obj[arg[t]].gen, 0) /\ UNCHANGED map_count
      BY <2>3 DEF Grant
    <3>2. Cardinality(Holding("exclusive"))' = Cardinality(Holding("exclusive")) + 1
      BY <1>1, <3>1, CountNew
    <3>3. \A j \in {"read", "write", "map"} : Holding(j)' = Holding(j)
      BY <1>1, <3>1, CountNew
    <3>4. QED
      BY <2>1, <2>3, <3>1, <3>2, <3>3 DEF Counts
  <2>4. QED
    BY <1>40, <2>2, <2>3 DEF acquire_exclusive
<1>41. ASSUME NEW o \in Objects, release_lease(t, o)
      PROVE  Counts'
  <2>1. MapsPending' = MapsPending
    BY <1>41, <1>1, PendingKept DEF release_lease, Enter
  <2>2. PICK k \in LeaseKinds : obj[o].kind = k
    BY <1>41 DEF release_lease
  <2>3. /\ Cardinality(Holding(k))' = Cardinality(Holding(k)) - 1
        /\ Cardinality(Holding(k)) > 0
        /\ \A j \in ObjectKinds \ {"none", k} : Holding(j)' = Holding(j)
    BY <1>41, <1>1, <2>2, CountDiscard DEF release_lease
  <2>4. UNCHANGED map_count
    BY <1>41 DEF release_lease
  <2>5. CASE k = "read"
    BY <1>41, <1>1, <2>1, <2>2, <2>3, <2>4, <2>5 DEF release_lease, Less, Counts
  <2>6. CASE k = "write"
    BY <1>41, <1>1, <2>1, <2>2, <2>3, <2>4, <2>6 DEF release_lease, Less, Counts
  <2>7. CASE k = "exclusive"
    BY <1>41, <1>1, <2>1, <2>2, <2>3, <2>4, <2>7 DEF release_lease, Less, Counts
  <2>8. QED
    BY <2>5, <2>6, <2>7
<1>42. ASSUME NEW o \in Objects, release_map(t, o)
      PROVE  Counts'
  <2>1. MapsPending' = MapsPending
    BY <1>42, <1>1, PendingKept DEF release_map, Enter
  <2>2. /\ Cardinality(Holding("map"))' = Cardinality(Holding("map")) - 1
        /\ Cardinality(Holding("map")) > 0
        /\ \A j \in LeaseKinds : Holding(j)' = Holding(j)
    BY <1>42, <1>1, CountDiscard DEF release_map
  <2>3. map_count' = Less(map_count) /\ UNCHANGED <<read_leases, write_leases, exclusive_leases>>
    BY <1>42 DEF release_map
  <2>4. /\ map_count = Cardinality(Holding("map")) + Cardinality(MapsPending)
        /\ Cardinality(Holding("map")) \in Nat /\ Cardinality(MapsPending) \in Nat
    BY FiniteCounts DEF Counts
  <2>5. map_count' = Cardinality(Holding("map"))' + Cardinality(MapsPending)'
    BY <2>1, <2>2, <2>3, <2>4 DEF Less
  <2>6. QED
    BY <2>2, <2>3, <2>5 DEF Counts
<1>43. QED
  BY <1>5, <1>6, <1>7, <1>8, <1>9, <1>10, <1>11, <1>12, <1>13, <1>14, <1>15,
     <1>16, <1>17, <1>18, <1>19, <1>20, <1>21, <1>22, <1>23, <1>24, <1>25,
     <1>26, <1>27, <1>28, <1>29, <1>30, <1>31, <1>32, <1>33, <1>34, <1>35,
     <1>36, <1>37, <1>38, <1>39, <1>40, <1>41, <1>42 DEF Start, Continue

\* A zero counter means that no such object exists.
LEMMA ZeroCount ==
  ASSUME NEW k, Cardinality(Holding(k)) = 0, NEW o \in Objects
  PROVE  obj[o].kind # k
<1>1. Holding(k) = {}
  BY FiniteCounts, FS_EmptySet
<1>2. QED
  BY <1>1 DEF Holding

\* Every step keeps write and exclusive leases alone: a lease is granted only
\* while the counters of the leases it conflicts with are zero.
LEMMA StepExclusion ==
  ASSUME Types, Counts, LeaseExclusion, NEW t \in Threads, Start(t) \/ Continue(t)
  PROVE  LeaseExclusion'
<1>1. ObjectTypes /\ LeaseTypes
  BY DEF Types
<1>2. CASE UNCHANGED obj
  BY <1>2 DEF LeaseExclusion
<1>3. ASSUME NEW o \in Objects, Discard(o) PROVE LeaseExclusion'
  BY <1>1, <1>3 DEF Discard, LeaseExclusion, ObjectTypes, LeaseKinds
<1>4. ASSUME NEW k \in {"handle", "view", "map"}, NEW g, NEW s, NewObject(k, g, s)
      PROVE  LeaseExclusion'
  BY <1>1, <1>4 DEF NewObject, LeaseExclusion, ObjectTypes, LeaseKinds
<1>5. NoWriter => \A o \in Objects : obj[o].kind \notin {"write", "exclusive"}
  BY ZeroCount DEF NoWriter, Counts
<1>6. NoLease => \A o \in Objects : obj[o].kind \notin LeaseKinds
  BY ZeroCount DEF NoLease, NoWriter, Counts, LeaseKinds
<1>7. ASSUME NEW g, NEW s, NewObject("read", g, s), NoWriter
      PROVE  LeaseExclusion'
  BY <1>1, <1>5, <1>7 DEF NewObject, LeaseExclusion, ObjectTypes
<1>8. ASSUME NEW k \in {"write", "exclusive"}, NEW g, NEW s, NewObject(k, g, s), NoLease
      PROVE  LeaseExclusion'
  BY <1>1, <1>6, <1>8 DEF NewObject, LeaseExclusion, ObjectTypes, LeaseKinds
<1>9. CASE acquire_read(t)
  BY <1>2, <1>7, <1>9 DEF acquire_read, Grant, Refuse
<1>10. CASE acquire_write(t) \/ acquire_exclusive(t)
  BY <1>2, <1>8, <1>10 DEF acquire_write, acquire_exclusive, Grant, Refuse
<1>11. CASE retain_new(t) \/ share(t) \/ view_retain(t) \/ map_retain(t)
  BY <1>4, <1>11 DEF retain_new, share, view_retain, map_retain, Pin
<1>12. ASSUME NEW o \in Objects,
              \/ release_handle(t, o) \/ release_view(t, o)
              \/ release_lease(t, o) \/ release_map(t, o)
       PROVE  LeaseExclusion'
  BY <1>3, <1>12 DEF release_handle, release_view, release_lease, release_map
<1>13. CASE \E o \in Objects, call \in HandleOps : begin(t, call, o)
  BY <1>2, <1>13 DEF begin
<1>14. CASE \/ allocate(t) \/ wrap_external(t) \/ import_shared(t) \/ lookup(t)
            \/ invalidate(t) \/ pool_trim(t) \/ shutdown(t)
  BY <1>2, <1>14 DEF allocate, wrap_external, import_shared, Create, lookup,
                     invalidate, pool_trim, shutdown
<1>15. CASE \/ register_control(t) \/ validate_alive(t) \/ view(t) \/ map(t)
            \/ map_locked(t) \/ copy(t) \/ copy_memory(t) \/ export_descriptor(t)
            \/ migrate(t) \/ migrate_locked(t)
  BY <1>2, <1>15 DEF register_control, validate_alive, view, map, map_locked, copy,
                     copy_memory, export_descriptor, migrate, migrate_locked
<1>16. CASE \/ drop_ref(t) \/ finalize(t) \/ finalize_release(t) \/ finalize_erase(t)
            \/ finalize_by_id(t) \/ invalidate_store(t) \/ invalidate_relock(t)
            \/ trim(t) \/ shutdown_snapshot(t) \/ shutdown_check(t) \/ reset_backends(t)
  BY <1>2, <1>16 DEF drop_ref, finalize, finalize_release, finalize_erase,
                     finalize_by_id, invalidate_store, invalidate_relock, trim,
                     shutdown_snapshot, shutdown_check, reset_backends
<1>17. QED
  BY <1>9, <1>10, <1>11, <1>12, <1>13, <1>14, <1>15, <1>16 DEF Start, Continue

\* Every step keeps MAPPED and IN_USE backed by a positive counter.
LEMMA StepBacked ==
  ASSUME Types, StateBacked, NEW t \in Threads, Start(t) \/ Continue(t)
  PROVE  StateBacked'
<1> USE DEF NoLease, NoWriter, LeasedState, UnleasedState
<1>1. LeaseTypes
  BY DEF Types
<1>2. CASE UNCHANGED <<leaseVars, state>>
  BY <1>2 DEF StateBacked, leaseVars
<1>3. CASE state' \in {"ALLOCATED", "IMPORTED", "RELEASED"}
  BY <1>3 DEF StateBacked
<1>4. CASE map_locked(t)
  BY <1>1, <1>4 DEF map_locked, StateBacked, LeaseTypes
<1>5. CASE acquire_read(t)
  <2>1. CASE NoWriter
    <3>1. /\ read_leases' = read_leases + 1 /\ UNCHANGED map_count
          /\ state' \in {"IN_USE", state}
      BY <1>5, <2>1 DEF acquire_read, Grant, Refuse
    <3>2. QED
      BY <1>1, <3>1 DEF StateBacked, LeaseTypes
  <2>2. CASE ~NoWriter
    BY <1>2, <1>5, <2>2 DEF acquire_read, Refuse
  <2>3. QED
    BY <2>1, <2>2
<1>6. CASE acquire_write(t)
  BY <1>1, <1>2, <1>6 DEF acquire_write, Grant, Refuse, StateBacked, LeaseTypes
<1>7. CASE acquire_exclusive(t)
  BY <1>1, <1>2, <1>7 DEF acquire_exclusive, Grant, Refuse, StateBacked, LeaseTypes
<1>8. ASSUME NEW o \in Objects, release_lease(t, o) PROVE StateBacked'
  BY <1>1, <1>8 DEF release_lease, StateBacked, LeaseTypes
<1>9. ASSUME NEW o \in Objects, release_map(t, o) PROVE StateBacked'
  BY <1>1, <1>9 DEF release_map, StateBacked, LeaseTypes, Less
<1>10. CASE allocate(t) \/ wrap_external(t) \/ import_shared(t)
  BY <1>3, <1>10 DEF allocate, wrap_external, import_shared, Create
<1>11. CASE migrate_locked(t)
  BY <1>2, <1>3, <1>11 DEF migrate_locked
<1>12. CASE finalize_release(t)
  BY <1>3, <1>12 DEF finalize_release
<1>13. CASE \E o \in Objects : \/ \E call \in HandleOps : begin(t, call, o)
                               \/ release_handle(t, o) \/ release_view(t, o)
  BY <1>2, <1>13 DEF begin, release_handle, release_view
<1>14. CASE lookup(t) \/ invalidate(t) \/ pool_trim(t) \/ shutdown(t)
  BY <1>2, <1>14 DEF lookup, invalidate, pool_trim, shutdown
<1>15. CASE \/ register_control(t) \/ retain_new(t) \/ validate_alive(t) \/ share(t)
            \/ view(t) \/ view_retain(t) \/ map(t) \/ map_retain(t) \/ copy(t)
            \/ copy_memory(t) \/ export_descriptor(t) \/ migrate(t)
  BY <1>2, <1>15 DEF register_control, retain_new, validate_alive, share, view,
                     view_retain, map, map_retain, Pin, copy, copy_memory,
                     export_descriptor, migrate
<1>16. CASE \/ drop_ref(t) \/ finalize(t) \/ finalize_erase(t)
            \/ finalize_by_id(t) \/ invalidate_store(t) \/ invalidate_relock(t)
            \/ trim(t) \/ shutdown_snapshot(t) \/ shutdown_check(t) \/ reset_backends(t)
  BY <1>2, <1>16 DEF drop_ref, finalize, finalize_erase, finalize_by_id,
                     invalidate_store, invalidate_relock, trim, shutdown_snapshot,
                     shutdown_check, reset_backends
<1>17. QED
  BY <1>4, <1>5, <1>6, <1>7, <1>8, <1>9, <1>10, <1>11, <1>12, <1>13, <1>14, <1>15,
     <1>16 DEF Start, Continue
-----------------------------------------------------------------------------
(***************************************************************************)
(* The inductive invariant and the theorems.                               *)
(***************************************************************************)
IInv == Types /\ ArgOK /\ Counts /\ LeaseExclusion /\ StateBacked

\* The invariant holds initially: no object exists and every counter is zero.
LEMMA InitIInv == Init => IInv
<1> SUFFICES ASSUME Init PROVE IInv
  OBVIOUS
<1>1. Types /\ ArgOK
  BY InitTypes
<1>2. Counts
  <2>1. /\ Holding("read") = {} /\ Holding("write") = {} /\ Holding("exclusive") = {}
        /\ Holding("map") = {} /\ MapsPending = {}
    BY DEF Init, Holding, MapsPending
  <2>2. Cardinality({}) = 0
    BY FS_EmptySet
  <2>3. QED
    BY <2>1, <2>2 DEF Init, Counts
<1>3. LeaseExclusion
  BY DEF Init, LeaseExclusion
<1>4. StateBacked
  BY DEF Init, StateBacked
<1>5. QED
  BY <1>1, <1>2, <1>3, <1>4 DEF IInv

\* Every step keeps the invariant.
LEMMA NextIInv == IInv /\ [Next]_vars => IInv'
<1> SUFFICES ASSUME IInv, [Next]_vars PROVE IInv'
  OBVIOUS
<1>1. CASE UNCHANGED vars
  <2>1. Types'
    BY <1>1, Unchanged DEF IInv, Types, CallTypes, vars, callVars
  <2>2. ArgOK' /\ LeaseExclusion' /\ StateBacked'
    BY <1>1 DEF IInv, ArgOK, LeaseExclusion, StateBacked, NoLease, NoWriter, vars,
                callVars, leaseVars
  <2>3. Counts'
    BY <1>1 DEF IInv, Counts, Holding, MapsPending, vars, leaseVars
  <2>4. QED
    BY <2>1, <2>2, <2>3 DEF IInv
<1>2. ASSUME NEW t \in Threads, Start(t) \/ Continue(t)
      PROVE  IInv'
  BY <1>2, StepTypes, StepCounts, StepExclusion, StepBacked DEF IInv
<1>3. QED
  BY <1>1, <1>2 DEF Next

\* Type correctness of the control block, the objects and the calls.
THEOREM TypeCorrect == Spec => []TypeOK
<1>1. IInv => TypeOK
  BY TypeGroups DEF IInv
<1>2. QED
  BY <1>1, InitIInv, NextIInv, PTL DEF Spec

\* The lease counters and map_count that BufferHandle and the releases keep
\* under Control::mtx are exactly the leases and maps that exist.
THEOREM CountersAreExact == Spec => []CountersExact
<1>1. IInv => CountersExact
  BY DEF IInv, Counts, CountersExact, MapsPending
<1>2. QED
  BY <1>1, InitIInv, NextIInv, PTL DEF Spec

\* A write or exclusive lease is never granted beside another lease, for any
\* number of threads and objects and with every operation of the runtime.
THEOREM LeasesExclude == Spec => []LeaseExclusion
<1>1. IInv => LeaseExclusion
  BY DEF IInv
<1>2. QED
  BY <1>1, InitIInv, NextIInv, PTL DEF Spec

\* The state never says MAPPED or IN_USE without a map or a lease behind it.
THEOREM StateIsBacked == Spec => []StateBacked
<1>1. IInv => StateBacked
  BY DEF IInv
<1>2. QED
  BY <1>1, InitIInv, NextIInv, PTL DEF Spec
=============================================================================
