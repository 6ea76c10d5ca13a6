--------------------------- MODULE SegmentsProofs ---------------------------
(***************************************************************************)
(* Proofs about Segments, for any set of processes, threads and sizes.     *)
(*                                                                         *)
(* Every step of the specification is of one of five kinds (StepKinds): a  *)
(* thread moves on with its backing (Moves), a thread returns its backing  *)
(* (Hands), free, export_handle, restart.  The invariants are shown for    *)
(* the kinds:                                                              *)
(*   TypeInv     what the fields of every backing hold at every step;      *)
(*   MapInv      a mapped file is as it was when it was mapped;            *)
(*   TicketInv   no number of a counter is given out twice in a run;       *)
(*   WantInv     an import has the segment it was asked for;               *)
(*   PastInv     whoever creates a path anew is not the run that made the  *)
(*               contents a descriptor stands for;                         *)
(*   HandlesInv  the open handles are those that backings hold.            *)
(***************************************************************************)
EXTENDS Segments, Sums

\* The backings whose key, object, wanted and holds are in these sets.
Backings(K, O, W, H) ==
  [owner : Processes, kind : Kinds \cap {"shared", "file"}, size : Sizes, key : K,
   object : O, length : Nat, holds : H, wanted : W, serial : Nat]

\* A backing with the fields that the backends give it.
IsBacking(b) == b \in Backings({b.key}, {b.object}, {b.wanted}, {b.holds})

\* The segment that a name stands for, and the contents of a path.
SegmentOf(name) == [maker |-> <<name[1], name[2]>>, number |-> name[4]]
ContentsOf(path) == [maker |-> disk[path].maker, number |-> disk[path].created]

StepsOf(kind) ==
  IF kind = "shared" THEN {"name", "create_section", "map_view"}
  ELSE {"create_file", "set_end", "map_file", "file_size", "map_view"}

\* What a backing of a kind holds before a step.
HoldsAt(kind, step) ==
  (IF kind = "file" /\ step # "create_file" THEN {"file"} ELSE {})
  \cup (IF step = "map_view" THEN {"map"} ELSE {})

KeyOK(b) ==
  IF b.kind = "shared" THEN b.object = SegmentOf(b.key) ELSE b.key \in Paths

\* A thread t that makes b, before a step.
CurOK(t, step, b) ==
  IF step = "idle" THEN b = NoBacking
  ELSE /\ IsBacking(b)
       /\ b.owner = process[t]
       /\ step \in StepsOf(b.kind)
       /\ b.holds = HoldsAt(b.kind, step)
       /\ step = "name" => b.object = [maker |-> b.object.maker, number |-> 0]
       /\ step # "name" => KeyOK(b)
       /\ step \in {"name", "create_section", "create_file", "set_end"} =>
            b.wanted = {} /\ b.object.maker = <<process[t], runs[process[t]]>>

LiveOK(b) ==
  /\ IsBacking(b) /\ KeyOK(b)
  /\ b.holds = HoldsAt(b.kind, "map_view") \cup {"view"}
  /\ b.serial # 0

DescriptorOK(d) ==
  /\ d.kind \in Kinds \cap {"shared", "file"} /\ d.size \in Sizes
  /\ IF d.kind = "shared" THEN d.object = SegmentOf(d.key) ELSE d.key \in Paths

CountersOK ==
  /\ runs \in [Processes -> 1..(MaxRestarts + 1)]
  /\ counter \in [Processes -> 0..(2 * MaxCount)]
  /\ files \in [Processes -> 0..MaxCount]
  /\ handles \in [Processes -> Int]

Makers == {<<>>} \cup (Processes \X Nat)

DiskOK ==
  disk \in [Paths -> [length : Sizes \cup {0}, created : Nat, maker : Makers]]

ThreadsOK ==
  /\ pc = [t \in Threads |-> pc[t]] /\ cur = [t \in Threads |-> cur[t]]
  /\ \A t \in Threads : CurOK(t, pc[t], cur[t])

TypeInv ==
  /\ CountersOK /\ DiskOK /\ ThreadsOK
  /\ IsFiniteSet(live) /\ \A b \in live : LiveOK(b)
  /\ \A d \in descriptors : DescriptorOK(d)

\* Thread t goes on to a step with a backing.
Sets(t, step, b) ==
  /\ pc' = [pc EXCEPT ![t] = step]
  /\ cur' = [cur EXCEPT ![t] = b]

\* What the fields of a backing are.
LEMMA BackingFields ==
  ASSUME NEW b, IsBacking(b)
  PROVE  /\ b.owner \in Processes /\ b.kind \in Kinds /\ b.kind \in {"shared", "file"}
         /\ b.size \in Sizes /\ b.size \in Nat /\ b.length \in Nat /\ b.serial \in Nat
BY SegmentsAssumption DEF IsBacking, Backings

HasFields(c, ow, ki, si, ke, ob, le, ho, wa, se) ==
  /\ c.owner = ow /\ c.kind = ki /\ c.size = si /\ c.key = ke /\ c.object = ob
  /\ c.length = le /\ c.holds = ho /\ c.wanted = wa /\ c.serial = se

\* The backing b, changed by a call.
OpenedAs(b, o, n, what) ==
  [[b EXCEPT !.object = o, !.length = n] EXCEPT !.holds = @ \cup {what}]
OpenedNew(b, n, what) == [[b EXCEPT !.length = n] EXCEPT !.holds = @ \cup {what}]
OpenedFile(b, what) == [b EXCEPT !.holds = @ \cup {what}]
Named(b, key, n) == [b EXCEPT !.key = key, !.object.number = n]
Viewed(b, n) == [b EXCEPT !.holds = @ \cup {"view"}, !.serial = n]

-----------------------------------------------------------------------------
(***************************************************************************)
(* What a step of thread t does, when it goes on to step q with the        *)
(* backing c.                                                              *)
(***************************************************************************)
Quiet == UNCHANGED <<counter, files, disk>>
Keeps(c, b) == c.key = b.key /\ c.kind = b.kind /\ c.wanted = b.wanted

GivesUp(t, q, c) == pc[t] # "idle" /\ q = "idle" /\ Quiet

Begins(t, q, c) ==
  /\ pc[t] = "idle" /\ q = "name"
  /\ counter' = [counter EXCEPT ![process[t]] = @ + 1] /\ counter[process[t]] < 2 * MaxCount
  /\ UNCHANGED <<files, disk>>

Numbers(t, q, c) ==
  /\ pc[t] = "name" /\ q = "create_section"
  /\ c.kind = "shared" /\ c.wanted = {} /\ c.object.number = counter[process[t]]
  /\ counter' = [counter EXCEPT ![process[t]] = @ + 1] /\ counter[process[t]] < 2 * MaxCount
  /\ UNCHANGED <<files, disk>>

Creates(t, q, c) ==
  /\ pc[t] = "create_section" /\ q = "map_view"
  /\ Keeps(c, cur[t]) /\ c.kind = "shared" /\ c.object = cur[t].object
  /\ Quiet

Imports(t, q, c) ==
  /\ pc[t] = "idle" /\ q = "map_view"
  /\ c.kind = "shared" /\ c.wanted = {c.object}
  /\ Quiet

BeginsFile(t, q, c) ==
  /\ pc[t] = "idle" /\ q = "create_file"
  /\ c.kind = "file" /\ c.wanted = {} /\ c.key = files[process[t]]
  /\ files' = [files EXCEPT ![process[t]] = @ + 1] /\ files[process[t]] < MaxCount
  /\ UNCHANGED <<counter, disk>>

CreatesFile(t, q, c) ==
  /\ pc[t] = "create_file" /\ q = "set_end"
  /\ Keeps(c, cur[t]) /\ c.kind = "file"
  /\ ~Mapped(c.key)
  /\ disk' = [disk EXCEPT ![c.key] = [length |-> 0, created |-> disk[c.key].created + 1,
                                      maker |-> <<process[t], runs[process[t]]>>]]
  /\ UNCHANGED <<counter, files>>

Extends(t, q, c) ==
  /\ pc[t] = "set_end" /\ q = "map_file"
  /\ c = cur[t] /\ c.kind = "file"
  /\ ~Mapped(c.key) \/ c.size >= disk[c.key].length
  /\ disk' = [disk EXCEPT ![c.key].length = c.size]
  /\ UNCHANGED <<counter, files>>

Maps(t, q, c) ==
  /\ pc[t] = "map_file" /\ q = "map_view"
  /\ Keeps(c, cur[t]) /\ c.kind = "file"
  /\ c.object = ContentsOf(c.key) /\ c.length = disk[c.key].length
  /\ Quiet

ImportsFile(t, q, c) ==
  /\ pc[t] = "idle" /\ q = "file_size"
  /\ c.kind = "file" /\ disk[c.key].created > 0
  /\ \E d \in descriptors : d.kind = "file" /\ c.key = d.key /\ c.wanted = {d.object}
  /\ Quiet

Measures(t, q, c) ==
  /\ pc[t] = "file_size" /\ q = "map_file"
  /\ c = cur[t] /\ c.kind = "file"
  /\ Quiet

Moves(t, q, c) ==
  /\ Sets(t, q, c) /\ CurOK(t, q, c)
  /\ handles' = [handles EXCEPT ![process[t]] =
                   @ + Cardinality(c.holds) - Cardinality(cur[t].holds)]
  /\ UNCHANGED <<runs, live, descriptors>>
  /\ \/ GivesUp(t, q, c) \/ Begins(t, q, c) \/ Numbers(t, q, c) \/ Creates(t, q, c)
     \/ Imports(t, q, c) \/ BeginsFile(t, q, c) \/ CreatesFile(t, q, c)
     \/ Extends(t, q, c) \/ Maps(t, q, c) \/ ImportsFile(t, q, c) \/ Measures(t, q, c)

\* The handles of a backing are counted.
LEMMA HoldsFinite ==
  ASSUME NEW h \in SUBSET {"file", "map", "view"}
  PROVE  IsFiniteSet(h) /\ Cardinality(h) \in Nat
<1>1. IsFiniteSet({"file", "map", "view"})
  <2>1. {"file", "map", "view"} = (({} \cup {"file"}) \cup {"map"}) \cup {"view"}
    OBVIOUS
  <2>2. IsFiniteSet({} \cup {"file"})
    BY FS_EmptySet, FS_AddElement
  <2>3. IsFiniteSet(({} \cup {"file"}) \cup {"map"})
    BY <2>2, FS_AddElement
  <2>4. QED
    BY <2>1, <2>3, FS_AddElement
<1>2. QED
  BY <1>1, FS_Subset, FS_CardinalityType, Zenon

\* Opening adds one.
LEMMA HoldsOpened ==
  ASSUME NEW h \in SUBSET {"file", "map", "view"}, NEW what, what \notin h
  PROVE  Cardinality(h \cup {what}) = Cardinality(h) + 1
BY HoldsFinite, FS_AddElement

\* What an operation has opened.
LEMMA CurHolds ==
  ASSUME NEW t, NEW q, NEW c, CurOK(t, q, c)
  PROVE  c.holds \in SUBSET {"file", "map", "view"}
<1>1. CASE q = "idle"
  <2>1. c = NoBacking
    BY <1>1, Zenon DEF CurOK
  <2>2. QED
    BY <2>1 DEF NoBacking
<1>2. CASE q # "idle"
  <2>1. c.holds = HoldsAt(c.kind, q)
    BY <1>2, Zenon DEF CurOK
  <2>2. HoldsAt(c.kind, q) \in SUBSET {"file", "map", "view"}
    BY DEF HoldsAt
  <2>3. QED
    BY <2>1, <2>2, Zenon
<1>3. QED
  BY <1>1, <1>2, Zenon

\* A thread at a step that is not idle has a backing.
LEMMA AtStep ==
  ASSUME ThreadsOK, NEW t \in Threads
  PROVE  /\ CurOK(t, pc[t], cur[t])
         /\ cur[t].holds \in SUBSET {"file", "map", "view"}
<1>1. CurOK(t, pc[t], cur[t])
  BY Zenon DEF ThreadsOK
<1>2. QED
  BY <1>1, CurHolds, Zenon

\* When MapViewOfFile fails, allocate and import_handle close what they have
\* opened; when it succeeds they store it.
LEMMA ViewHandles ==
  ASSUME NEW b, IsBacking(b), b.holds = HoldsAt(b.kind, "map_view")
  PROVE  view_failed(b) = b.holds /\ Stored(b) = b.holds \cup {"view"}
<1>1. CASE b.kind = "shared"
  <2>1. b.holds = {"map"}
    BY <1>1 DEF HoldsAt
  <2>2. view_failed(b) = {"map"} /\ Stored(b) = {"map", "view"}
    BY <1>1 DEF view_failed, no_section_view, no_imported_section_view, Stored,
                allocate_shared_stores, import_shared_stores
  <2>3. QED
    BY <2>1, <2>2
<1>2. CASE b.kind = "file"
  <2>1. b.holds = {"file", "map"}
    BY <1>2 DEF HoldsAt
  <2>2. view_failed(b) = {"map", "file"} /\ Stored(b) = {"file", "map", "view"}
    BY <1>2 DEF view_failed, no_view, no_imported_view, Stored,
                allocate_file_stores, import_file_stores
  <2>3. QED
    BY <2>1, <2>2
<1>3. QED
  BY <1>1, <1>2, BackingFields, Zenon

\* The destructor closes everything that the state holds.
LEMMA AllDestroyed ==
  ASSUME NEW b, LiveOK(b)
  PROVE  Destroyed(b) = b.holds
BY DEF LiveOK, HoldsAt, Destroyed, SharedState_closes, FileState_closes

\* Thread t returns the backing c.
Hands(t, c) ==
  /\ pc[t] = "map_view" /\ cur[t].size <= cur[t].length
  /\ Sets(t, "idle", NoBacking)
  /\ LiveOK(c) /\ c \notin live
  /\ Keeps(c, cur[t]) /\ c.object = cur[t].object /\ c.owner = process[t]
  /\ c.size = cur[t].size /\ c.length = cur[t].length
  /\ c.holds = cur[t].holds \cup {"view"} /\ "view" \notin cur[t].holds
  /\ live' = live \cup {c}
  /\ handles' = [handles EXCEPT ![process[t]] = @ + 1]
  /\ UNCHANGED <<runs, counter, files, disk, descriptors>>

\* Every step is one of five kinds.
LEMMA StepKinds ==
  ASSUME TypeInv, Next
  PROVE  \/ \E t \in Threads : \E q, c : Moves(t, q, c)
         \/ \E t \in Threads : \E c : Hands(t, c)
         \/ \E t \in Threads, b \in live : free(t, b)
         \/ \E t \in Threads, b \in live, size \in Sizes : export_handle(t, b, size)
         \/ \E p \in Processes : restart(p)
\* A backing, as a member of a set of records,
<1>BackingIn.
      ASSUME NEW b, IsBacking(b), NEW K, NEW O, NEW W, NEW H,
             b.key \in K, b.object \in O, b.wanted \in W, b.holds \in H
      PROVE  b \in Backings(K, O, W, H)
  BY <1>BackingIn DEF Backings, IsBacking

\* and back.
<1>InBackings.
      ASSUME NEW K, NEW O, NEW W, NEW H, NEW b \in Backings(K, O, W, H)
      PROVE  IsBacking(b)
  BY <1>InBackings DEF Backings, IsBacking

\* A section or a mapping of the file is opened: object and length are known.
<1>OpenedAsFields.
      ASSUME NEW b, IsBacking(b), NEW o, NEW n \in Nat, NEW what, NEW c,
             c = OpenedAs(b, o, n, what)
      PROVE  IsBacking(c) /\ HasFields(c, b.owner, b.kind, b.size, b.key, o, n,
                                          b.holds \cup {what}, b.wanted, b.serial)
  <2> USE <1>OpenedAsFields
  <2> DEFINE S == Backings({b.key}, {b.object, o}, {b.wanted}, {b.holds, b.holds \cup {what}})
  <2>1. b \in S
    BY <1>BackingIn
  <2>2. /\ c \in S
        /\ c.object = o /\ c.length = n /\ c.holds = b.holds \cup {what}
        /\ c.owner = b.owner /\ c.kind = b.kind /\ c.size = b.size /\ c.key = b.key
        /\ c.wanted = b.wanted /\ c.serial = b.serial
    BY <2>1, Zenon DEF Backings, OpenedAs, OpenedNew, OpenedFile, Named, Viewed
  <2>3. IsBacking(c)
    BY <2>2, <1>InBackings
  <2>4. QED
    BY <2>2, <2>3 DEF HasFields

\* A new section: the length alone.
<1>OpenedNewFields.
      ASSUME NEW b, IsBacking(b), NEW n \in Nat, NEW what, NEW c, c = OpenedNew(b, n, what)
      PROVE  IsBacking(c) /\ HasFields(c, b.owner, b.kind, b.size, b.key, b.object, n,
                                          b.holds \cup {what}, b.wanted, b.serial)
  <2> USE <1>OpenedNewFields
  <2> DEFINE S == Backings({b.key}, {b.object}, {b.wanted}, {b.holds, b.holds \cup {what}})
  <2>1. b \in S
    BY <1>BackingIn
  <2>2. /\ c \in S
        /\ c.object = b.object /\ c.length = n /\ c.holds = b.holds \cup {what}
        /\ c.owner = b.owner /\ c.kind = b.kind /\ c.size = b.size /\ c.key = b.key
        /\ c.wanted = b.wanted /\ c.serial = b.serial
    BY <2>1, Zenon DEF Backings, OpenedAs, OpenedNew, OpenedFile, Named, Viewed
  <2>3. IsBacking(c)
    BY <2>2, <1>InBackings
  <2>4. QED
    BY <2>2, <2>3 DEF HasFields

\* The file is opened.
<1>OpenedFileFields.
      ASSUME NEW b, IsBacking(b), NEW what, NEW c, c = OpenedFile(b, what)
      PROVE  IsBacking(c) /\ HasFields(c, b.owner, b.kind, b.size, b.key, b.object, b.length,
                                          b.holds \cup {what}, b.wanted, b.serial)
  <2> USE <1>OpenedFileFields
  <2> DEFINE S == Backings({b.key}, {b.object}, {b.wanted}, {b.holds, b.holds \cup {what}})
  <2>1. b \in S
    BY <1>BackingIn
  <2>2. /\ c \in S
        /\ c.object = b.object /\ c.length = b.length /\ c.holds = b.holds \cup {what}
        /\ c.owner = b.owner /\ c.kind = b.kind /\ c.size = b.size /\ c.key = b.key
        /\ c.wanted = b.wanted /\ c.serial = b.serial
    BY <2>1 DEF Backings, OpenedAs, OpenedNew, OpenedFile, Named, Viewed
  <2>3. IsBacking(c)
    BY <2>2, <1>InBackings
  <2>4. QED
    BY <2>2, <2>3 DEF HasFields

\* The name is complete.
<1>NamedFields.
      ASSUME NEW b, IsBacking(b), NEW m, b.object = [maker |-> m, number |-> 0],
             NEW key, NEW n, NEW c, c = Named(b, key, n)
      PROVE  IsBacking(c) /\ HasFields(c, b.owner, b.kind, b.size, key,
                                          [maker |-> m, number |-> n], b.length,
                                          b.holds, b.wanted, b.serial)
  <2> USE <1>NamedFields
  <2> DEFINE S == Backings({b.key, key}, [maker : {m}, number : {0, n}], {b.wanted}, {b.holds})
  <2>0. b.object \in [maker : {m}, number : {0, n}]
    OBVIOUS
  <2>1. b \in S
    BY <2>0 DEF Backings, IsBacking
  <2>2. /\ c \in S
        /\ c.object = [b.object EXCEPT !.number = n] /\ c.length = b.length
        /\ c.holds = b.holds
        /\ c.owner = b.owner /\ c.kind = b.kind /\ c.size = b.size /\ c.key = key
        /\ c.wanted = b.wanted /\ c.serial = b.serial
    BY <2>1, Zenon DEF Backings, OpenedAs, OpenedNew, OpenedFile, Named, Viewed
  <2>3. IsBacking(c)
    BY <2>2, <1>InBackings
  <2>4. QED
    BY <2>2, <2>3 DEF HasFields

\* The view is mapped, and the backing returned.
<1>ViewedFields.
      ASSUME NEW b, IsBacking(b), NEW n \in Nat, NEW c, c = Viewed(b, n)
      PROVE  IsBacking(c) /\ HasFields(c, b.owner, b.kind, b.size, b.key, b.object, b.length,
                                          b.holds \cup {"view"}, b.wanted, n)
  <2> USE <1>ViewedFields
  <2> DEFINE S == Backings({b.key}, {b.object}, {b.wanted}, {b.holds, b.holds \cup {"view"}})
  <2>1. b \in S
    BY <1>BackingIn
  <2>2. /\ c \in S
        /\ c.object = b.object /\ c.length = b.length
        /\ c.holds = b.holds \cup {"view"}
        /\ c.owner = b.owner /\ c.kind = b.kind /\ c.size = b.size /\ c.key = b.key
        /\ c.wanted = b.wanted /\ c.serial = n
    BY <2>1, Zenon DEF Backings, OpenedAs, OpenedNew, OpenedFile, Named, Viewed
  <2>3. IsBacking(c)
    BY <2>2, <1>InBackings
  <2>4. QED
    BY <2>2, <2>3 DEF HasFields

\* A backing that an operation starts with.
<1>NewBackingFields.
      ASSUME NEW t \in Threads, NEW kind \in Kinds \cap {"shared", "file"},
             NEW size \in Sizes, NEW key, NEW wanted, NEW b,
             b = NewBacking(t, kind, size, key, wanted)
      PROVE  /\ IsBacking(b)
             /\ HasFields(b, process[t], kind, size, key,
                          [maker |-> <<process[t], runs[process[t]]>>, number |-> 0],
                          0, {}, wanted, 0)
  BY <1>NewBackingFields, SegmentsAssumption DEF NewBacking, IsBacking, Backings, HasFields

\* An error path that closes what the operation has opened.
<1>FailMoves.
      ASSUME TypeInv, NEW t \in Threads, pc[t] # "idle",
             NEW closed, closed = cur[t].holds, Fail(t, closed)
      PROVE  \E q, c : Moves(t, q, c)
  <2> USE <1>FailMoves
  <2>1. Sets(t, "idle", NoBacking) /\ CurOK(t, "idle", NoBacking)
    BY DEF Fail, Sets, Goto, CurOK
  <2>2. Cardinality(NoBacking.holds) = 0
    BY FS_EmptySet DEF NoBacking
  <2>3. handles' = [handles EXCEPT ![process[t]] =
                     @ + Cardinality(NoBacking.holds) - Cardinality(cur[t].holds)]
    <3>1. Cardinality(cur[t].holds) \in Nat /\ handles[process[t]] \in Int
      BY AtStep, HoldsFinite, SegmentsAssumption DEF TypeInv, CountersOK
    <3>2. handles[process[t]] + 0 - Cardinality(cur[t].holds) =
            handles[process[t]] - Cardinality(cur[t].holds)
      BY <3>1
    <3>3. handles' = [handles EXCEPT ![process[t]] = @ - Cardinality(cur[t].holds)]
      BY DEF Fail
    <3>4. QED
      BY <2>2, <3>2, <3>3, Zenon
  <2>4. UNCHANGED <<runs, live, descriptors>> /\ GivesUp(t, "idle", NoBacking)
    BY DEF Fail, GivesUp, Quiet
  <2>5. Moves(t, "idle", NoBacking)
    BY <2>1, <2>3, <2>4 DEF Moves
  <2>6. QED
    BY <2>5, Zenon

\* A step that opens nothing leaves the handles.
<1>SameHandles.
      ASSUME TypeInv, NEW t \in Threads, NEW c, handles' = handles,
             c.holds = cur[t].holds
      PROVE  handles' = [handles EXCEPT ![process[t]] =
                           @ + Cardinality(c.holds) - Cardinality(cur[t].holds)]
  <2> USE <1>SameHandles
  <2>1. Cardinality(cur[t].holds) \in Nat /\ handles[process[t]] \in Int
    BY AtStep, HoldsFinite, SegmentsAssumption DEF TypeInv, CountersOK
  <2>2. handles[process[t]] + Cardinality(c.holds) - Cardinality(cur[t].holds)
          = handles[process[t]]
    BY <2>1
  <2>3. handles = [handles EXCEPT ![process[t]] = handles[process[t]]]
    BY SegmentsAssumption DEF TypeInv, CountersOK
  <2>4. QED
    BY <2>2, <2>3

\* A step that opens what the backing did not hold.
<1>OneHandle.
      ASSUME TypeInv, NEW t \in Threads, NEW c, NEW what, what \notin cur[t].holds,
             handles' = [handles EXCEPT ![process[t]] = @ + 1],
             c.holds = cur[t].holds \cup {what}
      PROVE  handles' = [handles EXCEPT ![process[t]] =
                           @ + Cardinality(c.holds) - Cardinality(cur[t].holds)]
  <2> USE <1>OneHandle
  <2>1. Cardinality(cur[t].holds) \in Nat /\ handles[process[t]] \in Int
    BY AtStep, HoldsFinite, SegmentsAssumption DEF TypeInv, CountersOK
  <2>2. Cardinality(c.holds) = Cardinality(cur[t].holds) + 1
    BY AtStep, HoldsOpened DEF TypeInv
  <2>3. handles[process[t]] + Cardinality(c.holds) - Cardinality(cur[t].holds)
          = handles[process[t]] + 1
    BY <2>1, <2>2
  <2>4. QED
    BY <2>3, Zenon

\* Each action of a thread is a Moves: SharedMemoryDomain::allocate,
<1>AllocateSharedMoves.
      ASSUME TypeInv, NEW t \in Threads, NEW size \in Sizes, allocate_shared(t, size)
      PROVE  \E q, c : Moves(t, q, c)
  <2> USE <1>AllocateSharedMoves
  <2> DEFINE c == NewBacking(t, "shared", size, <<counter[process[t]]>>, {})
  <2>1. /\ IsBacking(c)
        /\ c.object = [maker |-> <<process[t], runs[process[t]]>>, number |-> 0]
        /\ c.holds = {} /\ c.owner = process[t] /\ c.kind = "shared" /\ c.wanted = {}
    BY <1>NewBackingFields DEF allocate_shared, HasFields
  <2>2. Sets(t, "name", c)
    BY DEF allocate_shared, Sets, Goto
  <2>3. Begins(t, "name", c) /\ UNCHANGED <<runs, live, descriptors, handles>>
    BY DEF allocate_shared, Begins, At
  <2>4. cur[t] = NoBacking
    BY AtStep, Zenon DEF allocate_shared, At, TypeInv, CurOK
  <2> HIDE DEF c
  <2>5. CurOK(t, "name", c)
    BY <2>1 DEF CurOK, StepsOf, HoldsAt
  <2>6. c.holds = cur[t].holds
    BY <2>1, <2>4 DEF NoBacking
  <2>7. handles' = [handles EXCEPT ![process[t]] =
                      @ + Cardinality(c.holds) - Cardinality(cur[t].holds)]
    BY <2>3, <2>6, <1>SameHandles
  <2>8. Moves(t, "name", c)
    BY <2>2, <2>3, <2>5, <2>7, Zenon DEF Moves
  <2>9. QED
    BY <2>8, Zenon

\* make_unique_name,
<1>NameMoves.
      ASSUME TypeInv, NEW t \in Threads, make_unique_name(t)
      PROVE  \E q, c : Moves(t, q, c)
  <2> USE <1>NameMoves
  <2> DEFINE p == process[t]
  <2>0. PICK b, key, c, m :
          /\ b = cur[t] /\ key = Name(p, b.key[1], counter[p]) /\ m = <<p, runs[p]>>
          /\ c = Named(b, key, counter[p])
    BY Zenon
  <2>1. CurOK(t, "name", b) /\ pc[t] = "name"
    BY <2>0, AtStep, Zenon DEF make_unique_name, At, TypeInv
  <2>2. /\ IsBacking(b) /\ b.owner = p /\ b.kind = "shared" /\ b.holds = {} /\ b.wanted = {}
        /\ b.object = [maker |-> m, number |-> 0]
    BY <2>0, <2>1, BackingFields DEF CurOK, StepsOf, HoldsAt
  <2>3. /\ IsBacking(c)
        /\ c.object = [maker |-> m, number |-> counter[p]]
        /\ c.holds = b.holds /\ c.owner = b.owner /\ c.kind = b.kind
        /\ c.key = key /\ c.wanted = b.wanted
    <3>1. IsBacking(c) /\ HasFields(c, b.owner, b.kind, b.size, key,
                                    [maker |-> m, number |-> counter[p]], b.length,
                                    b.holds, b.wanted, b.serial)
      BY <2>0, <2>2, <1>NamedFields, Zenon
    <3>2. QED
      BY <3>1, Zenon DEF HasFields
  <2>4. Sets(t, "create_section", c)
    <3>1. cur' = [cur EXCEPT ![t] = c]
      BY <2>0, Zenon DEF make_unique_name, TypeInv, ThreadsOK, Named
    <3>2. QED
      BY <3>1, Zenon DEF make_unique_name, Sets, Goto
  <2>5. UNCHANGED <<runs, live, descriptors, handles>>
    BY DEF make_unique_name
  <2>6. Numbers(t, "create_section", c)
    BY <2>1, <2>2, <2>3 DEF make_unique_name, Numbers
  <2>7. c.object = SegmentOf(c.key)
    <3>1. key[1] = p /\ key[2] = runs[p] /\ key[4] = counter[p]
      BY <2>0 DEF Name
    <3>2. SegmentOf(key) = [maker |-> m, number |-> counter[p]]
      BY <2>0, <3>1, Zenon DEF SegmentOf
    <3>3. QED
      BY <2>3, <3>2, Zenon
  <2>8. CurOK(t, "create_section", c)
    BY <2>0, <2>2, <2>3, <2>7 DEF CurOK, StepsOf, HoldsAt, KeyOK
  <2>9. handles' = [handles EXCEPT ![process[t]] =
                      @ + Cardinality(c.holds) - Cardinality(cur[t].holds)]
    BY <2>0, <2>3, <2>5, <1>SameHandles
  <2>10. Moves(t, "create_section", c)
    BY <2>4, <2>5, <2>6, <2>8, <2>9, Zenon DEF Moves
  <2>11. QED
    BY <2>10, Zenon

\* A section that exists is a mapped backing of that name: its length is known,
\* and it is the segment of the name.
<1>SectionOf.
      ASSUME TypeInv, NEW name, NEW x \in Sections(name)
      PROVE  x.length \in Nat /\ x.object = SegmentOf(name)
  <2> USE <1>SectionOf
  <2>1. x \in Open /\ x.kind = "shared" /\ "map" \in x.holds /\ x.key = name
    BY DEF Sections
  <2>2. CASE x \in live
    BY <2>1, <2>2, BackingFields DEF TypeInv, LiveOK, KeyOK
  <2>3. CASE \E t \in Threads : x = cur[t]
    <3>1. PICK t \in Threads : x = cur[t]
      BY <2>3
    <3>2. CurOK(t, pc[t], x)
      BY <3>1, AtStep, Zenon DEF TypeInv
    <3>3. pc[t] # "idle" /\ pc[t] # "name"
      BY <2>1, <3>2 DEF CurOK, NoBacking, HoldsAt
    <3>4. IsBacking(x) /\ KeyOK(x)
      BY <3>2, <3>3, Zenon DEF CurOK
    <3>5. QED
      BY <2>1, <3>4, BackingFields DEF KeyOK
  <2>4. QED
    BY <2>1, <2>2, <2>3 DEF Open

\* CreateFileMapping of a name: nobody else has it,
<1>CreateSectionMoves.
      ASSUME TypeInv, NEW t \in Threads, create_section(t)
      PROVE  \E q, c : Moves(t, q, c)
  <2> USE <1>CreateSectionMoves
  <2>0. PICK b : b = cur[t]
    OBVIOUS
  <2>1. CurOK(t, "create_section", b) /\ pc[t] = "create_section"
    BY <2>0, AtStep, Zenon DEF create_section, At, TypeInv
  <2>2. /\ IsBacking(b) /\ b.owner = process[t] /\ b.kind = "shared" /\ b.holds = {}
        /\ b.wanted = {} /\ b.object = SegmentOf(b.key) /\ b.size \in Nat
    BY <2>1, BackingFields DEF CurOK, StepsOf, HoldsAt, KeyOK
  <2>3. CASE Fail(t, no_section)
    <3>1. no_section = cur[t].holds
      BY <2>0, <2>2 DEF no_section
    <3>2. QED
      BY <2>1, <2>3, <3>1, <1>FailMoves, Zenon
  <2>4. ASSUME NEW c, IsBacking(c), c.object = b.object, c.holds = b.holds \cup {"map"},
               c.owner = b.owner, c.kind = b.kind, c.key = b.key, c.wanted = b.wanted,
               cur' = [cur EXCEPT ![t] = c],
               handles' = [handles EXCEPT ![process[t]] = @ + 1],
               Goto(t, "map_view"),
               UNCHANGED <<runs, counter, files, disk, live, descriptors>>
        PROVE  \E q, d : Moves(t, q, d)
    <3>1. Sets(t, "map_view", c)
      BY <2>4 DEF Sets, Goto
    <3>2. CurOK(t, "map_view", c)
      BY <2>2, <2>4 DEF CurOK, StepsOf, HoldsAt, KeyOK
    <3>3. Creates(t, "map_view", c)
      BY <2>0, <2>1, <2>2, <2>4 DEF Creates, Keeps, Quiet
    <3>4. "map" \notin cur[t].holds /\ c.holds = cur[t].holds \cup {"map"}
      BY <2>0, <2>2, <2>4
    <3>5. handles' = [handles EXCEPT ![process[t]] =
                        @ + Cardinality(c.holds) - Cardinality(cur[t].holds)]
      BY <2>4, <3>4, <1>OneHandle, Zenon
    <3>6. Moves(t, "map_view", c)
      BY <2>4, <3>1, <3>2, <3>3, <3>5, Zenon DEF Moves
    <3>7. QED
      BY <3>6, Zenon
  <2>5. CASE /\ Opens(t, "map", [b EXCEPT !.length = b.size % DwordLimit])
             /\ Goto(t, "map_view")
             /\ UNCHANGED <<runs, counter, files, disk, live, descriptors>>
    <3>1. PICK n : n = b.size % DwordLimit
      OBVIOUS
    <3>2. n \in Nat
      BY <2>2, <3>1, SegmentsAssumption
    <3>3. PICK c : c = OpenedNew(b, n, "map")
      OBVIOUS
    <3>4. /\ IsBacking(c) /\ c.object = b.object /\ c.holds = b.holds \cup {"map"}
          /\ c.owner = b.owner /\ c.kind = b.kind /\ c.key = b.key /\ c.wanted = b.wanted
      <4>1. IsBacking(c) /\ HasFields(c, b.owner, b.kind, b.size, b.key, b.object, n,
                                      b.holds \cup {"map"}, b.wanted, b.serial)
        BY <2>2, <3>2, <3>3, <1>OpenedNewFields, Zenon
      <4>2. QED
        BY <4>1, Zenon DEF HasFields
    <3>5. cur' = [cur EXCEPT ![t] = c] /\ handles' = [handles EXCEPT ![process[t]] = @ + 1]
      BY <2>5, <3>1, <3>3, Zenon DEF Opens, OpenedAs, OpenedNew
    <3>6. QED
      BY <2>4, <2>5, <3>4, <3>5, Zenon
  <2>6. ASSUME NEW x \in Sections(b.key),
               Opens(t, "map", [b EXCEPT !.object = x.object, !.length = x.length]),
               Goto(t, "map_view"),
               UNCHANGED <<runs, counter, files, disk, live, descriptors>>
        PROVE  \E q, c : Moves(t, q, c)
    <3>1. PICK n, o : n = x.length /\ o = x.object
      OBVIOUS
    <3>2. n \in Nat /\ o = b.object
      BY <2>2, <3>1, <1>SectionOf, Zenon
    <3>3. PICK c : c = OpenedAs(b, o, n, "map")
      OBVIOUS
    <3>4. /\ IsBacking(c) /\ c.object = o /\ c.holds = b.holds \cup {"map"}
          /\ c.owner = b.owner /\ c.kind = b.kind /\ c.key = b.key /\ c.wanted = b.wanted
      <4>1. IsBacking(c) /\ HasFields(c, b.owner, b.kind, b.size, b.key, o, n,
                                      b.holds \cup {"map"}, b.wanted, b.serial)
        BY <2>2, <3>2, <3>3, <1>OpenedAsFields, Zenon
      <4>2. QED
        BY <4>1, Zenon DEF HasFields
    <3>5. cur' = [cur EXCEPT ![t] = c] /\ handles' = [handles EXCEPT ![process[t]] = @ + 1]
      BY <2>6, <3>1, <3>3, Zenon DEF Opens, OpenedAs, OpenedNew
    <3>6. QED
      BY <2>4, <2>6, <3>2, <3>4, <3>5, Zenon
  <2>7. QED
    BY <2>0, <2>3, <2>5, <2>6, Zenon DEF create_section

\* import_handle of a name,
<1>ImportSharedMoves.
      ASSUME TypeInv, NEW t \in Threads, NEW d \in descriptors, import_shared(t, d)
      PROVE  \E q, c : Moves(t, q, c)
  <2> USE <1>ImportSharedMoves
  <2>1. /\ pc[t] = "idle" /\ cur[t] = NoBacking /\ d.kind = "shared"
        /\ d.kind \in Kinds \cap {"shared", "file"} /\ d.size \in Sizes
        /\ d.object = SegmentOf(d.key)
    BY AtStep, Zenon DEF import_shared, At, TypeInv, CurOK, DescriptorOK
  <2>2. PICK b : b = NewBacking(t, "shared", d.size, d.key, {d.object})
    OBVIOUS
  <2>3. PICK x \in Sections(d.key) :
          Opens(t, "map", [b EXCEPT !.object = x.object, !.length = x.length])
    BY <2>2, Zenon DEF import_shared
  <2>4. PICK n, o : n = x.length /\ o = x.object
    OBVIOUS
  <2>5. n \in Nat /\ o = d.object
    BY <2>1, <2>4, <1>SectionOf, Zenon
  <2>6. /\ IsBacking(b) /\ b.holds = {} /\ b.owner = process[t] /\ b.kind = "shared"
        /\ b.key = d.key /\ b.wanted = {d.object}
    <3>1. PICK size : size = d.size
      OBVIOUS
    <3>2. "shared" \in Kinds \cap {"shared", "file"} /\ size \in Sizes
      BY <2>1, <3>1, Zenon
    <3>3. IsBacking(b) /\ HasFields(b, process[t], "shared", size, d.key,
                        [maker |-> <<process[t], runs[process[t]]>>, number |-> 0],
                        0, {}, {d.object}, 0)
      BY <2>2, <3>1, <3>2, <1>NewBackingFields, Zenon
    <3>4. QED
      BY <3>3, Zenon DEF HasFields
  <2>7. PICK c : c = OpenedAs(b, o, n, "map")
    OBVIOUS
  <2>8. /\ IsBacking(c) /\ c.object = o /\ c.holds = b.holds \cup {"map"}
        /\ c.owner = b.owner /\ c.kind = b.kind /\ c.key = b.key /\ c.wanted = b.wanted
    <3>1. IsBacking(c) /\ HasFields(c, b.owner, b.kind, b.size, b.key, o, n,
                                    b.holds \cup {"map"}, b.wanted, b.serial)
      BY <2>5, <2>6, <2>7, <1>OpenedAsFields, Zenon
    <3>2. QED
      BY <3>1, Zenon DEF HasFields
  <2>9. cur' = [cur EXCEPT ![t] = c] /\ handles' = [handles EXCEPT ![process[t]] = @ + 1]
    BY <2>3, <2>4, <2>7, Zenon DEF Opens, OpenedAs
  <2>10. Sets(t, "map_view", c)
    BY <2>9 DEF Sets, Goto, import_shared
  <2>11. CurOK(t, "map_view", c)
    BY <2>1, <2>5, <2>6, <2>8 DEF CurOK, StepsOf, HoldsAt, KeyOK
  <2>12. Imports(t, "map_view", c) /\ UNCHANGED <<runs, live, descriptors>>
    BY <2>1, <2>5, <2>6, <2>8 DEF Imports, Quiet, import_shared
  <2>13. "map" \notin cur[t].holds /\ c.holds = cur[t].holds \cup {"map"}
    BY <2>1, <2>6, <2>8 DEF NoBacking
  <2>14. handles' = [handles EXCEPT ![process[t]] =
                      @ + Cardinality(c.holds) - Cardinality(cur[t].holds)]
    BY <2>9, <2>13, <1>OneHandle, Zenon
  <2>15. Moves(t, "map_view", c)
    BY <2>10, <2>11, <2>12, <2>14, Zenon DEF Moves
  <2>16. QED
    BY <2>15, Zenon

\* FileBackedDomain::allocate,
<1>AllocateFileMoves.
      ASSUME TypeInv, NEW t \in Threads, NEW size \in Sizes, allocate_file(t, size)
      PROVE  \E q, c : Moves(t, q, c)
  <2> USE <1>AllocateFileMoves
  <2>1. PICK c : c = NewBacking(t, "file", size, files[process[t]], {})
    OBVIOUS
  <2>2. /\ IsBacking(c)
        /\ c.object = [maker |-> <<process[t], runs[process[t]]>>, number |-> 0]
        /\ c.holds = {} /\ c.owner = process[t] /\ c.kind = "file" /\ c.wanted = {}
        /\ c.key = files[process[t]]
    BY <2>1, <1>NewBackingFields DEF allocate_file, HasFields
  <2>3. Sets(t, "create_file", c)
    BY <2>1 DEF allocate_file, Sets, Goto, file_counter
  <2>4. BeginsFile(t, "create_file", c) /\ UNCHANGED <<runs, live, descriptors, handles>>
    BY <2>2 DEF allocate_file, BeginsFile, At
  <2>5. cur[t] = NoBacking
    BY AtStep, Zenon DEF allocate_file, At, TypeInv, CurOK
  <2>6. c.key \in Paths
    BY <2>2, <2>4, SegmentsAssumption DEF BeginsFile, Paths, TypeInv, CountersOK
  <2>7. CurOK(t, "create_file", c)
    BY <2>2, <2>6 DEF CurOK, StepsOf, HoldsAt, KeyOK
  <2>8. c.holds = cur[t].holds
    BY <2>2, <2>5 DEF NoBacking
  <2>9. handles' = [handles EXCEPT ![process[t]] =
                      @ + Cardinality(c.holds) - Cardinality(cur[t].holds)]
    BY <2>4, <2>8, <1>SameHandles
  <2>10. Moves(t, "create_file", c)
    BY <2>3, <2>4, <2>7, <2>9, Zenon DEF Moves
  <2>11. QED
    BY <2>10, Zenon

\* CreateFile with CREATE_ALWAYS,
<1>CreateFileMoves.
      ASSUME TypeInv, NEW t \in Threads, create_file(t)
      PROVE  \E q, c : Moves(t, q, c)
  <2> USE <1>CreateFileMoves
  <2>0. PICK b : b = cur[t]
    OBVIOUS
  <2>1. CurOK(t, "create_file", b) /\ pc[t] = "create_file"
    BY <2>0, AtStep, Zenon DEF create_file, At, TypeInv
  <2>2. /\ IsBacking(b) /\ b.owner = process[t] /\ b.kind = "file" /\ b.holds = {}
        /\ b.wanted = {} /\ b.key \in Paths
        /\ b.object.maker = <<process[t], runs[process[t]]>>
    BY <2>1, BackingFields DEF CurOK, StepsOf, HoldsAt, KeyOK
  <2>3. CASE Fail(t, no_file)
    <3>1. no_file = cur[t].holds
      BY <2>0, <2>2 DEF no_file
    <3>2. QED
      BY <2>1, <2>3, <3>1, <1>FailMoves, Zenon
  <2>4. CASE ~(Fail(t, no_file))
    <3>1. PICK c : c = OpenedFile(b, "file")
      OBVIOUS
    <3>2. /\ IsBacking(c) /\ c.object = b.object /\ c.holds = b.holds \cup {"file"}
          /\ c.owner = b.owner /\ c.kind = b.kind /\ c.key = b.key /\ c.wanted = b.wanted
      <4>1. IsBacking(c) /\ HasFields(c, b.owner, b.kind, b.size, b.key, b.object, b.length,
                                      b.holds \cup {"file"}, b.wanted, b.serial)
        BY <2>2, <3>1, <1>OpenedFileFields, Zenon
      <4>2. QED
        BY <4>1, Zenon DEF HasFields
    <3>3. /\ cur' = [cur EXCEPT ![t] = c] /\ handles' = [handles EXCEPT ![process[t]] = @ + 1]
          /\ Goto(t, "set_end") /\ ~Mapped(b.key)
          /\ disk' = [disk EXCEPT ![b.key] = [length |-> 0, created |-> disk[b.key].created + 1,
                                              maker |-> b.object.maker]]
          /\ UNCHANGED <<runs, counter, files, live, descriptors>>
      BY <2>0, <2>4, <3>1 DEF create_file, Opens, OpenedFile
    <3>4. Sets(t, "set_end", c)
      BY <3>3 DEF Sets, Goto
    <3>5. CurOK(t, "set_end", c)
      BY <2>2, <3>2 DEF CurOK, StepsOf, HoldsAt, KeyOK
    <3>6. CreatesFile(t, "set_end", c)
      <4>1. Keeps(c, cur[t])
        BY <2>0, <3>2 DEF Keeps
      <4>2. QED
        BY <2>1, <2>2, <3>2, <3>3, <4>1, Zenon DEF CreatesFile
    <3>7. "file" \notin cur[t].holds /\ c.holds = cur[t].holds \cup {"file"}
      BY <2>0, <2>2, <3>2
    <3>8. handles' = [handles EXCEPT ![process[t]] =
                        @ + Cardinality(c.holds) - Cardinality(cur[t].holds)]
      BY <3>3, <3>7, <1>OneHandle, Zenon
    <3>9. Moves(t, "set_end", c)
      BY <3>3, <3>4, <3>5, <3>6, <3>8, Zenon DEF Moves
    <3>10. QED
      BY <3>9, Zenon
  <2>5. QED
    BY <2>3, <2>4

\* SetEndOfFile,
<1>SetEndMoves.
      ASSUME TypeInv, NEW t \in Threads, set_end(t)
      PROVE  \E q, c : Moves(t, q, c)
  <2> USE <1>SetEndMoves
  <2>0. PICK b : b = cur[t]
    OBVIOUS
  <2>1. CurOK(t, "set_end", b) /\ pc[t] = "set_end"
    BY <2>0, AtStep, Zenon DEF set_end, At, TypeInv
  <2>2. /\ IsBacking(b) /\ b.owner = process[t] /\ b.kind = "file" /\ b.holds = {"file"}
        /\ KeyOK(b)
    BY <2>1, BackingFields DEF CurOK, StepsOf, HoldsAt
  <2>3. CASE Fail(t, no_seek) \/ Fail(t, no_end)
    <3>1. no_seek = cur[t].holds /\ no_end = cur[t].holds
      BY <2>0, <2>2 DEF no_seek, no_end
    <3>2. QED
      BY <2>1, <2>3, <3>1, <1>FailMoves, Zenon
  <2>4. CASE ~(Fail(t, no_seek) \/ Fail(t, no_end))
    <3>1. /\ ~Mapped(b.key) \/ b.size >= disk[b.key].length
          /\ disk' = [disk EXCEPT ![b.key].length = b.size]
          /\ Goto(t, "map_file")
          /\ UNCHANGED <<runs, counter, files, cur, live, handles, descriptors>>
      BY <2>0, <2>4 DEF set_end
    <3>2. Sets(t, "map_file", b)
      BY <2>0, <3>1, Zenon DEF Sets, Goto, TypeInv, ThreadsOK
    <3>3. CurOK(t, "map_file", b)
      BY <2>2 DEF CurOK, StepsOf, HoldsAt
    <3>4. Extends(t, "map_file", b)
      BY <2>0, <2>1, <2>2, <3>1, Zenon DEF Extends
    <3>5. handles' = [handles EXCEPT ![process[t]] =
                        @ + Cardinality(b.holds) - Cardinality(cur[t].holds)]
      BY <2>0, <3>1, <1>SameHandles
    <3>6. Moves(t, "map_file", b)
      BY <3>1, <3>2, <3>3, <3>4, <3>5, Zenon DEF Moves
    <3>7. QED
      BY <3>6, Zenon
  <2>5. QED
    BY <2>3, <2>4

\* CreateFileMapping of a file,
<1>MapFileMoves.
      ASSUME TypeInv, NEW t \in Threads, map_file(t)
      PROVE  \E q, c : Moves(t, q, c)
  <2> USE <1>MapFileMoves
  <2>0. PICK b : b = cur[t]
    OBVIOUS
  <2>1. CurOK(t, "map_file", b) /\ pc[t] = "map_file"
    BY <2>0, AtStep, Zenon DEF map_file, At, TypeInv
  <2>2. /\ IsBacking(b) /\ b.owner = process[t] /\ b.kind = "file" /\ b.holds = {"file"}
        /\ b.key \in Paths
    BY <2>1, BackingFields DEF CurOK, StepsOf, HoldsAt, KeyOK
  <2>3. CASE Fail(t, no_mapping) \/ Fail(t, no_imported_mapping)
    <3>1. no_mapping = cur[t].holds /\ no_imported_mapping = cur[t].holds
      BY <2>0, <2>2 DEF no_mapping, no_imported_mapping
    <3>2. QED
      BY <2>1, <2>3, <3>1, <1>FailMoves, Zenon
  <2>4. CASE ~(Fail(t, no_mapping) \/ Fail(t, no_imported_mapping))
    <3>1. PICK n, o : n = disk[b.key].length /\ o = ContentsOf(b.key)
      OBVIOUS
    <3>2. n \in Nat
      <4>1. n \in Sizes \cup {0}
        BY <2>2, <3>1 DEF TypeInv, DiskOK
      <4>2. QED
        BY <4>1, SegmentsAssumption
    <3>3. PICK c : c = OpenedAs(b, o, n, "map")
      OBVIOUS
    <3>4. /\ IsBacking(c) /\ c.object = o /\ c.holds = b.holds \cup {"map"} /\ c.length = n
          /\ c.owner = b.owner /\ c.kind = b.kind /\ c.key = b.key /\ c.wanted = b.wanted
      <4>1. IsBacking(c) /\ HasFields(c, b.owner, b.kind, b.size, b.key, o, n,
                                      b.holds \cup {"map"}, b.wanted, b.serial)
        BY <2>2, <3>2, <3>3, <1>OpenedAsFields, Zenon
      <4>2. QED
        BY <4>1, Zenon DEF HasFields
    <3>5. /\ Opens(t, "map", [b EXCEPT !.length = disk[b.key].length,
                                       !.object = [maker |-> disk[b.key].maker,
                                                   number |-> disk[b.key].created]])
          /\ Goto(t, "map_view")
          /\ UNCHANGED <<runs, counter, files, disk, live, descriptors>>
      BY <2>0, <2>4, Zenon DEF map_file
    <3>6. [b EXCEPT !.length = n, !.object = o] = [b EXCEPT !.object = o, !.length = n]
      BY <2>2, Zenon DEF IsBacking, Backings
    <3>7. cur' = [cur EXCEPT ![t] = c] /\ handles' = [handles EXCEPT ![process[t]] = @ + 1]
      BY <3>1, <3>3, <3>5, <3>6, Zenon DEF Opens, OpenedAs, ContentsOf
    <3>8. Sets(t, "map_view", c)
      BY <3>5, <3>7 DEF Sets, Goto
    <3>9. CurOK(t, "map_view", c)
      BY <2>2, <3>4 DEF CurOK, StepsOf, HoldsAt, KeyOK
    <3>10. Maps(t, "map_view", c)
      <4>1. Keeps(c, cur[t]) /\ Quiet
        BY <2>0, <3>4, <3>5 DEF Keeps, Quiet
      <4>2. QED
        BY <2>1, <2>2, <3>1, <3>4, <4>1, Zenon DEF Maps
    <3>11. "map" \notin cur[t].holds /\ c.holds = cur[t].holds \cup {"map"}
      BY <2>0, <2>2, <3>4
    <3>12. handles' = [handles EXCEPT ![process[t]] =
                        @ + Cardinality(c.holds) - Cardinality(cur[t].holds)]
      BY <3>7, <3>11, <1>OneHandle, Zenon
    <3>13. Moves(t, "map_view", c)
      BY <3>5, <3>8, <3>9, <3>10, <3>12, Zenon DEF Moves
    <3>14. QED
      BY <3>13, Zenon
  <2>5. QED
    BY <2>3, <2>4

\* import_handle of a path,
<1>ImportFileMoves.
      ASSUME TypeInv, NEW t \in Threads, NEW d \in descriptors, import_file(t, d)
      PROVE  \E q, c : Moves(t, q, c)
  <2> USE <1>ImportFileMoves
  <2>1. /\ pc[t] = "idle" /\ cur[t] = NoBacking /\ d.kind = "file"
        /\ d.kind \in Kinds \cap {"shared", "file"} /\ d.size \in Sizes /\ d.key \in Paths
    BY AtStep, Zenon DEF import_file, At, TypeInv, CurOK, DescriptorOK
  <2>2. PICK b, size : size = d.size /\ b = NewBacking(t, "file", size, d.key, {d.object})
    OBVIOUS
  <2>3. /\ IsBacking(b) /\ b.holds = {} /\ b.owner = process[t] /\ b.kind = "file"
        /\ b.key = d.key /\ b.wanted = {d.object}
    <3>1. "file" \in Kinds \cap {"shared", "file"} /\ size \in Sizes
      BY <2>1, <2>2, Zenon
    <3>2. IsBacking(b) /\ HasFields(b, process[t], "file", size, d.key,
                        [maker |-> <<process[t], runs[process[t]]>>, number |-> 0],
                        0, {}, {d.object}, 0)
      BY <2>2, <3>1, <1>NewBackingFields, Zenon
    <3>3. QED
      BY <3>2, Zenon DEF HasFields
  <2>4. PICK c : c = OpenedFile(b, "file")
    OBVIOUS
  <2>5. /\ IsBacking(c) /\ c.holds = b.holds \cup {"file"}
        /\ c.owner = b.owner /\ c.kind = b.kind /\ c.key = b.key /\ c.wanted = b.wanted
    <3>1. IsBacking(c) /\ HasFields(c, b.owner, b.kind, b.size, b.key, b.object, b.length,
                                    b.holds \cup {"file"}, b.wanted, b.serial)
      BY <2>3, <2>4, <1>OpenedFileFields, Zenon
    <3>2. QED
      BY <3>1, Zenon DEF HasFields
  <2>6. /\ cur' = [cur EXCEPT ![t] = c] /\ handles' = [handles EXCEPT ![process[t]] = @ + 1]
        /\ Goto(t, "file_size") /\ disk[d.key].created > 0
        /\ UNCHANGED <<runs, counter, files, disk, live, descriptors>>
    BY <2>2, <2>4, Zenon DEF import_file, Opens, OpenedFile
  <2>7. Sets(t, "file_size", c)
    BY <2>6 DEF Sets, Goto
  <2>8. CurOK(t, "file_size", c)
    BY <2>1, <2>3, <2>5 DEF CurOK, StepsOf, HoldsAt, KeyOK
  <2>9. ImportsFile(t, "file_size", c)
    BY <2>1, <2>3, <2>5, <2>6 DEF ImportsFile, Quiet
  <2>10. "file" \notin cur[t].holds /\ c.holds = cur[t].holds \cup {"file"}
    BY <2>1, <2>3, <2>5 DEF NoBacking
  <2>11. handles' = [handles EXCEPT ![process[t]] =
                      @ + Cardinality(c.holds) - Cardinality(cur[t].holds)]
    BY <2>6, <2>10, <1>OneHandle, Zenon
  <2>12. Moves(t, "file_size", c)
    BY <2>6, <2>7, <2>8, <2>9, <2>11, Zenon DEF Moves
  <2>13. QED
    BY <2>12, Zenon

\* GetFileSizeEx.
<1>FileSizeMoves.
      ASSUME TypeInv, NEW t \in Threads, file_size(t)
      PROVE  \E q, c : Moves(t, q, c)
  <2> USE <1>FileSizeMoves
  <2>0. PICK b : b = cur[t]
    OBVIOUS
  <2>1. CurOK(t, "file_size", b) /\ pc[t] = "file_size"
    BY <2>0, AtStep, Zenon DEF file_size, At, TypeInv
  <2>2. /\ IsBacking(b) /\ b.owner = process[t] /\ b.kind = "file" /\ b.holds = {"file"}
        /\ KeyOK(b)
    BY <2>1, BackingFields DEF CurOK, StepsOf, HoldsAt
  <2>3. CASE Fail(t, no_size) \/ Fail(t, too_small)
    <3>1. no_size = cur[t].holds /\ too_small = cur[t].holds
      BY <2>0, <2>2 DEF no_size, too_small
    <3>2. QED
      BY <2>1, <2>3, <3>1, <1>FailMoves, Zenon
  <2>4. CASE ~(Fail(t, no_size) \/ Fail(t, too_small))
    <3>1. /\ Goto(t, "map_file")
          /\ UNCHANGED <<runs, counter, files, disk, cur, live, handles, descriptors>>
      BY <2>0, <2>4 DEF file_size
    <3>2. Sets(t, "map_file", b)
      BY <2>0, <3>1, Zenon DEF Sets, Goto, TypeInv, ThreadsOK
    <3>3. CurOK(t, "map_file", b)
      BY <2>2 DEF CurOK, StepsOf, HoldsAt
    <3>4. Measures(t, "map_file", b)
      BY <2>0, <2>1, <2>2, <3>1 DEF Measures, Quiet
    <3>5. handles' = [handles EXCEPT ![process[t]] =
                        @ + Cardinality(b.holds) - Cardinality(cur[t].holds)]
      BY <2>0, <3>1, <1>SameHandles
    <3>6. Moves(t, "map_file", b)
      BY <3>1, <3>2, <3>3, <3>4, <3>5, Zenon DEF Moves
    <3>7. QED
      BY <3>6, Zenon
  <2>5. QED
    BY <2>3, <2>4

\* Some number is not in use.
<1>FreshSerial.
      ASSUME NEW S, IsFiniteSet(S), NEW used, used = {b.serial : b \in S}
      PROVE  \E n \in 1..(Cardinality(used) + 1) : n \notin used
  <2> USE <1>FreshSerial
  <2>1. IsFiniteSet(used)
    <3> DEFINE f == [b \in S |-> b.serial]
    <3>1. f \in Surjection(S, used)
      BY DEF Surjection
    <3>2. QED
      BY <3>1, FS_Surjection, Zenon
  <2>2. PICK k : k = Cardinality(used)
    BY Zenon
  <2>3. k \in Nat
    BY <2>1, <2>2, FS_CardinalityType
  <2>4. IsFiniteSet(1..(k + 1)) /\ Cardinality(1..(k + 1)) = k + 1
    BY <2>3, FS_Interval
  <2>5. SUFFICES ASSUME 1..(k + 1) \subseteq used PROVE FALSE
    BY <2>2, Zenon
  <2>6. Cardinality(1..(k + 1)) <= Cardinality(used)
    BY <2>1, <2>5, FS_Subset, Zenon
  <2>7. QED
    BY <2>2, <2>3, <2>4, <2>6

\* MapViewOfFile succeeds: the backing is returned.
<1>ReturnsHands.
      ASSUME TypeInv, NEW t \in Threads, pc[t] = "map_view",
             cur[t].size <= cur[t].length, Returns(t)
      PROVE  \E c : Hands(t, c)
  <2> USE <1>ReturnsHands
  <2>0. PICK b, used :
          b = cur[t] /\ used = {x.serial : x \in {y \in live : y.owner = process[t]}}
    BY Zenon
  <2>1. PICK n : n = CHOOSE m \in 1..(Cardinality(used) + 1) : m \notin used
    OBVIOUS
  <2>2. IsFiniteSet({y \in live : y.owner = process[t]})
    BY FS_Subset DEF TypeInv
  <2>3. n \in 1..(Cardinality(used) + 1) /\ n \notin used
    BY <2>0, <2>1, <2>2, <1>FreshSerial, Zenon
  <2>4. n \in Nat /\ n # 0
    BY <2>3
  <2>5. CurOK(t, "map_view", b)
    BY <2>0, AtStep, Zenon DEF TypeInv
  <2>6. IsBacking(b) /\ b.owner = process[t] /\ KeyOK(b) /\ b.holds = HoldsAt(b.kind, "map_view")
    BY <2>5, Zenon DEF CurOK
  <2>7. PICK c : c = Viewed(b, n)
    OBVIOUS
  <2>8. IsBacking(c) /\ HasFields(c, b.owner, b.kind, b.size, b.key, b.object, b.length,
                                  b.holds \cup {"view"}, b.wanted, n)
    BY <2>4, <2>6, <2>7, <1>ViewedFields, Zenon
  <2>9. /\ c.owner = b.owner /\ c.kind = b.kind /\ c.size = b.size /\ c.key = b.key
        /\ c.object = b.object /\ c.length = b.length /\ c.holds = b.holds \cup {"view"}
        /\ c.wanted = b.wanted /\ c.serial = n
    BY <2>8, Zenon DEF HasFields
  <2>10. KeyOK(c)
    BY <2>6, <2>9 DEF KeyOK
  <2>11. LiveOK(c)
    BY <2>4, <2>6, <2>8, <2>9, <2>10, Zenon DEF LiveOK
  <2>12. c \notin live
    BY <2>0, <2>3, <2>6, <2>9
  <2>13. live' = live \cup {c} /\ handles' = [handles EXCEPT ![process[t]] = @ + 1]
    <3>1. Stored(b) = b.holds \cup {"view"}
      BY <2>6, ViewHandles, Zenon
    <3>2. c = [b EXCEPT !.holds = Stored(b), !.serial = n]
      BY <2>7, <3>1, Zenon DEF Viewed
    <3>3. QED
      BY <2>0, <2>1, <3>2, Zenon DEF Returns
  <2>14. Sets(t, "idle", NoBacking) /\ UNCHANGED <<runs, counter, files, disk, descriptors>>
    BY Zenon DEF Returns, Sets
  <2>15. Keeps(c, cur[t])
    BY <2>0, <2>9 DEF Keeps
  <2>16. "view" \notin b.holds
    BY <2>6 DEF HoldsAt
  <2>17. Hands(t, c)
    BY <2>0, <2>6, <2>9, <2>11, <2>12, <2>13, <2>14, <2>15, <2>16, Zenon DEF Hands
  <2>18. QED
    BY <2>17, Zenon

<1>1. ASSUME NEW t \in Threads, map_view(t)
      PROVE  (\E c : Hands(t, c)) \/ (\E q, c : Moves(t, q, c))
  <2>1. pc[t] = "map_view"
    BY <1>1 DEF map_view, At
  <2>2. "map_view" # "idle"
    OBVIOUS
  <2>3. view_failed(cur[t]) = cur[t].holds
    <3>1. CurOK(t, "map_view", cur[t])
      BY <2>1, AtStep, Zenon DEF TypeInv
    <3>2. QED
      BY <2>2, <3>1, ViewHandles, Zenon DEF CurOK
  <2>4. QED
    BY <1>1, <2>1, <2>2, <2>3, <1>ReturnsHands, <1>FailMoves, Zenon DEF map_view
<1>2. ASSUME NEW t \in Threads, NEW size \in Sizes,
             allocate_shared(t, size) \/ allocate_file(t, size)
      PROVE  \E q, c : Moves(t, q, c)
  BY <1>2, <1>AllocateSharedMoves, <1>AllocateFileMoves, Zenon
<1>3. ASSUME NEW t \in Threads, NEW d \in descriptors, import_shared(t, d) \/ import_file(t, d)
      PROVE  \E q, c : Moves(t, q, c)
  BY <1>3, <1>ImportSharedMoves, <1>ImportFileMoves, Zenon
<1>4. ASSUME NEW t \in Threads,
             \/ make_unique_name(t) \/ create_section(t) \/ create_file(t)
             \/ set_end(t) \/ map_file(t) \/ file_size(t)
      PROVE  \E q, c : Moves(t, q, c)
  BY <1>4, <1>NameMoves, <1>CreateSectionMoves, <1>CreateFileMoves, <1>SetEndMoves, <1>MapFileMoves,
     <1>FileSizeMoves, Zenon
<1>5. QED
  BY <1>1, <1>2, <1>3, <1>4, Zenon DEF Next
-----------------------------------------------------------------------------
(***************************************************************************)
(* Types.                                                                  *)
(***************************************************************************)
\* The types hold at the start,
LEMMA InitTypes == Init => TypeInv
<1> SUFFICES ASSUME Init PROVE TypeInv
  OBVIOUS
<1>1. CountersOK
  BY SegmentsAssumption DEF Init, CountersOK
<1>2. DiskOK
  BY DEF Init, DiskOK, Makers
<1>3. ThreadsOK
  BY DEF Init, ThreadsOK, CurOK
<1>4. IsFiniteSet(live) /\ live = {} /\ descriptors = {}
  BY FS_EmptySet DEF Init
<1>5. QED
  BY <1>1, <1>2, <1>3, <1>4 DEF TypeInv

\* every step keeps them,
LEMMA NextTypes == TypeInv /\ [Next]_vars => TypeInv'
\* The threads are as they must be after a step of one of them.
<1>SetsThread.
      ASSUME ThreadsOK, runs' = runs, NEW t \in Threads, NEW step, NEW b,
             Sets(t, step, b), CurOK(t, step, b)
      PROVE  ThreadsOK'
  <2> USE <1>SetsThread
  <2>1. ASSUME NEW u \in Threads PROVE CurOK(u, pc[u], cur[u])'
    <3>1. CASE u = t
      <4>1. pc'[u] = step /\ cur'[u] = b
        BY <3>1 DEF Sets, ThreadsOK
      <4>2. QED
        BY <3>1, <4>1 DEF CurOK
    <3>2. CASE u # t
      <4>1. pc'[u] = pc[u] /\ cur'[u] = cur[u]
        BY <3>2, Zenon DEF Sets, ThreadsOK
      <4>2. CurOK(u, pc[u], cur[u])
        BY DEF ThreadsOK
      <4>3. QED
        BY <4>1, <4>2 DEF CurOK
    <3>3. QED
      BY <3>1, <3>2
  <2>2. pc' = [u \in Threads |-> pc'[u]] /\ cur' = [u \in Threads |-> cur'[u]]
    BY Zenon DEF Sets, ThreadsOK
  <2>3. QED
    BY <2>1, <2>2, Zenon DEF ThreadsOK

\* What a backing or a descriptor must be does not depend on the state.
<1>MovesTypes.
      ASSUME TypeInv, NEW t \in Threads, NEW q, NEW c, Moves(t, q, c)
      PROVE  TypeInv'
  <2> USE <1>MovesTypes
  <2>1. ThreadsOK'
    BY <1>SetsThread, Zenon DEF Moves, TypeInv
  <2>2. /\ IsFiniteSet(live') /\ (\A b \in live : LiveOK(b))'
        /\ (\A d \in descriptors : DescriptorOK(d))'
    BY Zenon DEF Moves, TypeInv, LiveOK, DescriptorOK
  <2>3. process[t] \in Processes
    BY SegmentsAssumption
  <2>4. handles' \in [Processes -> Int]
    <3>1. Cardinality(cur[t].holds) \in Nat /\ Cardinality(c.holds) \in Nat
      <4>1. c.holds \in SUBSET {"file", "map", "view"}
        BY DEF Moves, CurOK, HoldsAt, NoBacking
      <4>2. QED
        BY <4>1, AtStep, HoldsFinite DEF TypeInv
    <3>2. PICK n : n = handles[process[t]] + Cardinality(c.holds) - Cardinality(cur[t].holds)
      OBVIOUS
    <3>3. n \in Int
      BY <2>3, <3>1, <3>2 DEF TypeInv, CountersOK
    <3>4. handles' = [handles EXCEPT ![process[t]] = n]
      BY <3>2, Zenon DEF Moves
    <3>5. QED
      BY <3>3, <3>4, Zenon DEF TypeInv, CountersOK
  <2>5. counter' \in [Processes -> 0..(2 * MaxCount)] /\ files' \in [Processes -> 0..MaxCount]
    <3>1. counter' = counter \/ /\ counter' = [counter EXCEPT ![process[t]] = @ + 1]
                                /\ counter[process[t]] < 2 * MaxCount
      BY Zenon DEF Moves, GivesUp, Begins, Numbers, Creates, Imports, BeginsFile, CreatesFile,
             Extends, Maps, ImportsFile, Measures, Quiet
    <3>2. files' = files \/ /\ files' = [files EXCEPT ![process[t]] = @ + 1]
                            /\ files[process[t]] < MaxCount
      BY Zenon DEF Moves, GivesUp, Begins, Numbers, Creates, Imports, BeginsFile, CreatesFile,
             Extends, Maps, ImportsFile, Measures, Quiet
    <3>3. QED
      BY <2>3, <3>1, <3>2, SegmentsAssumption DEF TypeInv, CountersOK
  <2>6. DiskOK'
    <3>1. CASE disk' = disk
      BY <3>1 DEF TypeInv, DiskOK
    <3>2. CASE CreatesFile(t, q, c)
      <4>1. c.key \in Paths
        BY <3>2, Zenon DEF Moves, CreatesFile, CurOK, KeyOK
      <4>2. <<process[t], runs[process[t]]>> \in Makers
        BY <2>3, SegmentsAssumption DEF Makers, TypeInv, CountersOK
      <4>3. PICK f : f = [length |-> 0, created |-> disk[c.key].created + 1,
                          maker |-> <<process[t], runs[process[t]]>>]
        BY Zenon
      <4>4. f \in [length : Sizes \cup {0}, created : Nat, maker : Makers]
        BY <4>1, <4>2, <4>3 DEF TypeInv, DiskOK
      <4>5. disk' = [disk EXCEPT ![c.key] = f]
        BY <3>2, <4>3, Zenon DEF CreatesFile
      <4>6. QED
        BY <4>4, <4>5, Zenon DEF TypeInv, DiskOK
    <3>3. CASE Extends(t, q, c)
      <4>1. c.key \in Paths /\ c.size \in Sizes
        BY <3>3, BackingFields DEF Moves, Extends, CurOK, KeyOK
      <4>2. disk' = [disk EXCEPT ![c.key].length = c.size]
        BY <3>3, Zenon DEF Extends
      <4>3. QED
        BY <4>1, <4>2 DEF TypeInv, DiskOK
    <3>4. QED
      BY <3>1, <3>2, <3>3, Zenon DEF Moves, GivesUp, Begins, Numbers, Creates, Imports,
             BeginsFile, Maps, ImportsFile, Measures, Quiet
  <2>7. CountersOK'
    BY <2>4, <2>5 DEF Moves, TypeInv, CountersOK
  <2>8. QED
    BY <2>1, <2>2, <2>6, <2>7, Zenon DEF TypeInv

\* A backing that is returned has all the handles of its kind.
<1>HandsTypes.
      ASSUME TypeInv, NEW t \in Threads, NEW c, Hands(t, c)
      PROVE  TypeInv'
  <2> USE <1>HandsTypes
  <2>1. ThreadsOK'
    <3>1. CurOK(t, "idle", NoBacking)
      BY DEF CurOK
    <3>2. QED
      BY <3>1, <1>SetsThread, Zenon DEF Hands, TypeInv
  <2>2. IsFiniteSet(live')
    BY FS_AddElement DEF Hands, TypeInv
  <2>3. (\A b \in live : LiveOK(b))' /\ (\A d \in descriptors : DescriptorOK(d))'
    BY DEF Hands, TypeInv, LiveOK, DescriptorOK
  <2>4. CountersOK' /\ DiskOK'
    BY SegmentsAssumption DEF Hands, TypeInv, CountersOK, DiskOK
  <2>5. QED
    BY <2>1, <2>2, <2>3, <2>4, Zenon DEF TypeInv

\* free takes a backing away.
<1>FreeTypes.
      ASSUME TypeInv, NEW t \in Threads, NEW b \in live, free(t, b)
      PROVE  TypeInv'
  <2> USE <1>FreeTypes
  <2>1. ThreadsOK' /\ DiskOK'
    BY DEF free, TypeInv, ThreadsOK, CurOK, DiskOK
  <2>2. IsFiniteSet(live')
    BY FS_RemoveElement DEF free, TypeInv
  <2>3. (\A x \in live : LiveOK(x))' /\ (\A d \in descriptors : DescriptorOK(d))'
    BY DEF free, TypeInv, LiveOK, DescriptorOK
  <2>4. CountersOK'
    <3>1. b.holds \in SUBSET {"file", "map", "view"}
      BY DEF TypeInv, LiveOK, HoldsAt
    <3>2. Cardinality(b.holds) \in Nat
      BY <3>1, HoldsFinite
    <3>3. Destroyed(b) = b.holds
      BY AllDestroyed DEF TypeInv
    <3>4. QED
      BY <3>2, <3>3, SegmentsAssumption DEF free, TypeInv, CountersOK
  <2>5. QED
    BY <2>1, <2>2, <2>3, <2>4, Zenon DEF TypeInv

\* A descriptor names a segment or a path.
<1>ExportTypes.
      ASSUME TypeInv, NEW t \in Threads, NEW b \in live, NEW size \in Sizes,
             export_handle(t, b, size)
      PROVE  TypeInv'
  <2> USE <1>ExportTypes
  <2>1. ThreadsOK' /\ DiskOK' /\ CountersOK'
    BY DEF export_handle, TypeInv, ThreadsOK, CurOK, DiskOK, CountersOK
  <2>2. IsFiniteSet(live') /\ (\A x \in live : LiveOK(x))'
    BY Zenon DEF export_handle, TypeInv, LiveOK
  <2>3. PICK d : d = [kind |-> b.kind, key |-> b.key, size |-> size, object |-> b.object]
    BY Zenon
  <2>4. DescriptorOK(d)
    BY <2>3, BackingFields DEF TypeInv, LiveOK, KeyOK, DescriptorOK
  <2>5. descriptors' = descriptors \cup {d}
    BY <2>3 DEF export_handle
  <2>6. \A e \in descriptors' : DescriptorOK(e)
    BY <2>4, <2>5 DEF TypeInv
  <2>7. (\A e \in descriptors : DescriptorOK(e))'
    BY <2>6 DEF DescriptorOK
  <2>8. QED
    BY <2>1, <2>2, <2>7, Zenon DEF TypeInv

\* A restart is within its bound, and leaves no thread in an operation.
<1>RestartTypes.
      ASSUME TypeInv, NEW p \in Processes, restart(p)
      PROVE  TypeInv'
  <2> USE <1>RestartTypes
  <2>1. runs[p] < MaxRestarts + 1
    <3>1. PICK f : f = [r \in Processes |-> runs[r] - 1]
      BY Zenon
    <3>2. /\ \A r \in Processes : runs[r] \in 1..(MaxRestarts + 1)
          /\ SumFunction(f) < MaxRestarts
      BY <3>1, Zenon DEF TypeInv, CountersOK, restart
    <3>3. /\ DOMAIN f = Processes /\ f[p] = runs[p] - 1
          /\ \A r \in Processes : f[r] \in Nat
      BY <3>1, <3>2, SegmentsAssumption
    <3>4. SumFunctionOnSet(f, Processes) \in Nat /\ f[p] <= SumFunctionOnSet(f, Processes)
      BY <3>3, SumNat, SegmentsAssumption
    <3>5. SumFunctionOnSet(f, Processes) < MaxRestarts
      BY <3>2, <3>3 DEF SumFunction
    <3>6. QED
      BY <3>2, <3>3, <3>4, <3>5, SegmentsAssumption
  <2>2. CountersOK'
    <3>1. runs' \in [Processes -> 1..(MaxRestarts + 1)]
      BY <2>1, SegmentsAssumption DEF restart, TypeInv, CountersOK
    <3>2. QED
      BY <3>1, SegmentsAssumption DEF restart, TypeInv, CountersOK
  <2>3. ThreadsOK'
    <3>1. ASSUME NEW u \in Threads PROVE CurOK(u, pc[u], cur[u])'
      <4>1. CASE process[u] = p
        <5>1. pc'[u] = "idle" /\ cur'[u] = NoBacking
          BY <4>1 DEF restart
        <5>2. QED
          BY <5>1 DEF CurOK, NoBacking
      <4>2. CASE process[u] # p
        <5>1. pc'[u] = pc[u] /\ cur'[u] = cur[u]
          BY <4>2 DEF restart
        <5>2. runs'[process[u]] = runs[process[u]]
          BY <4>2, SegmentsAssumption DEF restart, TypeInv, CountersOK
        <5>3. CurOK(u, pc[u], cur[u])
          BY DEF TypeInv, ThreadsOK
        <5>4. QED
          BY <5>1, <5>2, <5>3, Zenon DEF CurOK, IsBacking, KeyOK, NoBacking
      <4>3. QED
        BY <4>1, <4>2
    <3>2. pc' = [u \in Threads |-> pc'[u]] /\ cur' = [u \in Threads |-> cur'[u]]
      BY DEF restart
    <3>3. QED
      BY <3>1, <3>2, Zenon DEF ThreadsOK
  <2>4. DiskOK'
    BY DEF restart, TypeInv, DiskOK
  <2>5. IsFiniteSet(live')
    BY FS_Subset DEF restart, TypeInv
  <2>6. (\A b \in live : LiveOK(b))' /\ (\A d \in descriptors : DescriptorOK(d))'
    BY DEF restart, TypeInv, LiveOK, DescriptorOK
  <2>7. QED
    BY <2>2, <2>3, <2>4, <2>5, <2>6, Zenon DEF TypeInv

<1> SUFFICES ASSUME TypeInv, [Next]_vars PROVE TypeInv'
  OBVIOUS
<1>1. CASE Next
  BY <1>1, StepKinds, <1>MovesTypes, <1>HandsTypes, <1>FreeTypes, <1>ExportTypes,
     <1>RestartTypes, Zenon
<1>2. CASE UNCHANGED vars
  BY <1>2, Zenon DEF vars, TypeInv, CountersOK, DiskOK, ThreadsOK, CurOK, LiveOK,
                     DescriptorOK, KeyOK, IsBacking
<1>3. QED
  BY <1>1, <1>2

\* and so they hold always.
LEMMA TypeInvariant == Spec => []TypeInv
BY InitTypes, NextTypes, PTL DEF Spec

\* The counters of each process stay within their bounds, a file is as long as
\* some request or empty, and what allocate and import_handle have returned has
\* every handle of its kind, whichever calls failed and whenever processes end.
THEOREM TypesHold == Spec => []TypeOK
<1>1. TypeInv => TypeOK
  <2> SUFFICES ASSUME TypeInv PROVE TypeOK
    OBVIOUS
  <2>1. ASSUME NEW b \in live
        PROVE  /\ b \in [owner : Processes, kind : Kinds, size : Sizes, key : {b.key},
                         object : {b.object}, length : Nat, wanted : {b.wanted},
                         holds : SUBSET {"file", "map", "view"}, serial : Nat \ {0}]
               /\ b.holds = {"map", "view"} \cup (IF b.kind = "file" THEN {"file"} ELSE {})
    <3>1. IsBacking(b) /\ b.holds = HoldsAt(b.kind, "map_view") \cup {"view"} /\ b.serial # 0
      BY Zenon DEF TypeInv, LiveOK
    <3>2. b.holds = {"map", "view"} \cup (IF b.kind = "file" THEN {"file"} ELSE {})
      BY <3>1 DEF HoldsAt
    <3>3. b.holds \in SUBSET {"file", "map", "view"}
      BY <3>2
    <3>4. QED
      BY <3>1, <3>2, <3>3 DEF IsBacking, Backings
  <2>2. ASSUME NEW t \in Threads PROVE cur[t].kind = "none" <=> pc[t] = "idle"
    <3>1. CurOK(t, pc[t], cur[t])
      BY DEF TypeInv, ThreadsOK
    <3>2. CASE pc[t] = "idle"
      BY <3>1, <3>2 DEF CurOK, NoBacking
    <3>3. CASE pc[t] # "idle"
      <4>1. IsBacking(cur[t])
        BY <3>1, <3>3 DEF CurOK
      <4>2. QED
        BY <3>3, <4>1, BackingFields
    <3>4. QED
      BY <3>2, <3>3
  <2>3. \A n \in Paths : disk[n].length \in Sizes \cup {0}
    BY DEF TypeInv, DiskOK
  <2>4. QED
    BY <2>1, <2>2, <2>3, Zenon DEF TypeOK, TypeInv, CountersOK
<1>2. QED
  BY <1>1, TypeInvariant, PTL
-----------------------------------------------------------------------------
(***************************************************************************)
(* Mapped files.                                                           *)
(***************************************************************************)
\* The file is as it was when it was mapped.
Intact(b) ==
  b.kind = "file" => b.length <= disk[b.key].length /\ b.object = ContentsOf(b.key)

MapInv ==
  /\ \A b \in live : Intact(b) /\ b.size <= b.length
  /\ \A t \in Threads : pc[t] = "map_view" => Intact(cur[t])

\* Mapped files stay as they are in every step.
LEMMA NextMap == TypeInv /\ TypeInv' /\ MapInv /\ [Next]_vars => MapInv'
\* The length of a file.
<1>LengthNat.
      ASSUME NEW f \in [Paths -> [length : Sizes \cup {0}, created : Nat, maker : Makers]],
             NEW k \in Paths
      PROVE  f[k].length \in Nat
  <2> USE <1>LengthNat
  <2>1. PICK n : n = f[k].length
    OBVIOUS
  <2>2. n \in Sizes \cup {0}
    BY <2>1
  <2>3. Sizes \subseteq Nat
    BY SegmentsAssumption
  <2>4. QED
    BY <2>1, <2>2, <2>3

\* A step of a thread leaves the contents of a mapped file, and cuts nothing off.
<1>MappedStays.
      ASSUME TypeInv, NEW t \in Threads, NEW q, NEW c, Moves(t, q, c),
             NEW k \in Paths, Mapped(k)
      PROVE  ContentsOf(k)' = ContentsOf(k) /\ disk[k].length <= disk'[k].length
  <2> USE <1>MappedStays
  <2>0. disk[k].length \in Nat
    BY <1>LengthNat, Zenon DEF TypeInv, DiskOK
  <2>1. CASE disk' = disk
    BY <2>0, <2>1 DEF ContentsOf
  <2>2. CASE CreatesFile(t, q, c)
    <3>1. k # c.key
      BY <2>2 DEF CreatesFile
    <3>2. disk'[k] = disk[k]
      BY <2>2, <3>1 DEF CreatesFile, TypeInv, DiskOK
    <3>3. QED
      BY <2>0, <3>2 DEF ContentsOf
  <2>3. CASE Extends(t, q, c)
    <3>1. CASE k # c.key
      <4>1. disk'[k] = disk[k]
        BY <2>3, <3>1 DEF Extends, TypeInv, DiskOK
      <4>2. QED
        BY <2>0, <4>1 DEF ContentsOf
    <3>2. CASE k = c.key
      <4>1. c.size >= disk[k].length
        BY <2>3, <3>2 DEF Extends
      <4>2. /\ disk'[k].length = c.size /\ disk'[k].maker = disk[k].maker
            /\ disk'[k].created = disk[k].created
        BY <2>3, <3>2 DEF Extends, TypeInv, DiskOK
      <4>3. c.size \in Nat
        BY <2>3, BackingFields DEF Moves, Extends, CurOK
      <4>4. QED
        BY <2>0, <4>1, <4>2, <4>3 DEF ContentsOf
    <3>3. QED
      BY <3>1, <3>2
  <2>4. QED
    BY <2>1, <2>2, <2>3, Zenon DEF Moves, GivesUp, Begins, Numbers, Creates, Imports,
           BeginsFile, Maps, ImportsFile, Measures, Quiet

\* A file backing that is in use, or about to be viewed, is mapped.
<1>IsMapped.
      ASSUME TypeInv, NEW b, b.kind = "file",
             b \in live \/ \E t \in Threads : b = cur[t] /\ pc[t] = "map_view"
      PROVE  Mapped(b.key) /\ b.key \in Paths /\ IsBacking(b)
  <2> USE <1>IsMapped
  <2>1. CASE b \in live
    <3>1. LiveOK(b)
      BY <2>1 DEF TypeInv
    <3>2. "map" \in b.holds /\ b.key \in Paths /\ IsBacking(b)
      BY <3>1 DEF LiveOK, HoldsAt, KeyOK
    <3>3. QED
      BY <2>1, <3>2 DEF Mapped, Open
  <2>2. CASE \E t \in Threads : b = cur[t] /\ pc[t] = "map_view"
    <3>1. PICK t \in Threads : b = cur[t] /\ pc[t] = "map_view"
      BY <2>2
    <3>2. CurOK(t, "map_view", b)
      BY <3>1, AtStep, Zenon DEF TypeInv
    <3>3. "map" \in b.holds /\ b.key \in Paths /\ IsBacking(b)
      BY <3>2 DEF CurOK, HoldsAt, KeyOK
    <3>4. QED
      BY <3>1, <3>3 DEF Mapped, Open
  <2>3. QED
    BY <2>1, <2>2

\* An intact backing stays intact.
<1>IntactStays.
      ASSUME TypeInv, TypeInv', NEW t \in Threads, NEW q, NEW c, Moves(t, q, c), NEW b, Intact(b),
             b \in live \/ \E u \in Threads : b = cur[u] /\ pc[u] = "map_view"
      PROVE  Intact(b)'
  <2> USE <1>IntactStays
  <2>1. CASE b.kind # "file"
    BY <2>1 DEF Intact
  <2>2. CASE b.kind = "file"
    <3>1. Mapped(b.key) /\ b.key \in Paths /\ IsBacking(b)
      BY <2>2, <1>IsMapped
    <3>2. ContentsOf(b.key)' = ContentsOf(b.key) /\ disk[b.key].length <= disk'[b.key].length
      BY <3>1, <1>MappedStays
    <3>3. b.length <= disk[b.key].length /\ b.object = ContentsOf(b.key)
      BY <2>2 DEF Intact
    <3>4. b.length \in Nat /\ disk[b.key].length \in Nat /\ disk'[b.key].length \in Nat
      <4>1. disk[b.key].length \in Nat /\ disk'[b.key].length \in Nat
        BY <3>1, <1>LengthNat, Zenon DEF TypeInv, DiskOK
      <4>2. QED
        BY <3>1, <4>1, BackingFields, Zenon
    <3>5. b.length <= disk'[b.key].length
      BY <3>2, <3>3, <3>4
    <3>6. ContentsOf(b.key)' = b.object
      BY <3>2, <3>3, Zenon
    <3>7. QED
      BY <3>5, <3>6 DEF Intact, ContentsOf
  <2>3. QED
    BY <2>1, <2>2

\* Only CREATE_ALWAYS and SetEndOfFile change a file, and a mapped one refuses both.
<1>MovesMap.
      ASSUME TypeInv, TypeInv', MapInv, NEW t \in Threads, NEW q, NEW c, Moves(t, q, c)
      PROVE  MapInv'
  <2> USE <1>MovesMap
  <2>1. ASSUME NEW b \in live' PROVE Intact(b)' /\ b.size <= b.length
    <3>1. b \in live
      BY DEF Moves
    <3>2. QED
      BY <3>1, <1>IntactStays, Zenon DEF MapInv
  <2>2. ASSUME NEW u \in Threads, pc'[u] = "map_view" PROVE Intact(cur[u])'
    <3>1. CASE u # t
      <4>1. pc[u] = "map_view" /\ cur'[u] = cur[u]
        BY <2>2, <3>1 DEF Moves, Sets, TypeInv, ThreadsOK
      <4>2. PICK b : b = cur[u]
        OBVIOUS
      <4>3. Intact(b)'
        BY <4>1, <4>2, <1>IntactStays, Zenon DEF MapInv
      <4>4. QED
        BY <4>1, <4>2, <4>3, Zenon DEF Intact
    <3>2. CASE u = t
      <4>1. q = "map_view" /\ cur'[t] = c
        BY <2>2, <3>2 DEF Moves, Sets, TypeInv, ThreadsOK
      <4>2. c.kind = "shared" \/ Maps(t, q, c)
        BY <4>1 DEF Moves, GivesUp, Begins, Numbers, Creates, Imports, BeginsFile, CreatesFile,
               Extends, ImportsFile, Measures
      <4>3. CASE c.kind = "shared"
        BY <3>2, <4>1, <4>3 DEF Intact
      <4>4. CASE Maps(t, q, c)
        <5>1. /\ c.object = ContentsOf(c.key) /\ c.length = disk[c.key].length /\ disk' = disk
              /\ c.kind = "file" /\ IsBacking(c)
          BY <4>1, <4>4, Zenon DEF Maps, Quiet, Moves, CurOK
        <5>2. c.length <= disk'[c.key].length
          BY <5>1, BackingFields
        <5>3. QED
          BY <3>2, <4>1, <5>1, <5>2, Zenon DEF Intact, ContentsOf
      <4>5. QED
        BY <4>2, <4>3, <4>4
    <3>3. QED
      BY <3>1, <3>2
  <2>3. QED
    BY <2>1, <2>2, Zenon DEF MapInv

\* What is returned was mapped.
<1>HandsMap.
      ASSUME TypeInv, MapInv, NEW t \in Threads, NEW c, Hands(t, c)
      PROVE  MapInv'
  <2> USE <1>HandsMap
  <2>1. disk' = disk /\ live' = live \cup {c}
    BY DEF Hands
  <2>2. ASSUME NEW u \in Threads, pc'[u] = "map_view"
        PROVE  pc[u] = "map_view" /\ cur'[u] = cur[u]
    BY <2>2 DEF Hands, Sets, TypeInv, ThreadsOK
  <2>3. Intact(c) /\ c.size <= c.length
    <3>1. Intact(cur[t])
      BY Zenon DEF MapInv, Hands
    <3>2. QED
      BY <3>1, Zenon DEF Hands, Keeps, Intact
  <2>4. \A b \in live' : Intact(b) /\ b.size <= b.length
    BY <2>1, <2>3, Zenon DEF MapInv
  <2>5. \A u \in Threads : pc'[u] = "map_view" => Intact(cur'[u])
    BY <2>2, Zenon DEF MapInv
  <2>6. QED
    BY <2>1, <2>4, <2>5, Zenon DEF MapInv, Intact, ContentsOf

\* A step that touches no file and takes backings away only.
<1>LessMap.
      ASSUME MapInv, disk' = disk, live' \subseteq live,
             \A t \in Threads : pc'[t] = "map_view" => pc[t] = "map_view" /\ cur'[t] = cur[t]
      PROVE  MapInv'
  <2> USE <1>LessMap
  <2>1. \A b \in live' : Intact(b) /\ b.size <= b.length
    BY Zenon DEF MapInv
  <2>2. \A t \in Threads : pc'[t] = "map_view" => Intact(cur'[t])
    BY Zenon DEF MapInv
  <2>3. QED
    BY <2>1, <2>2, Zenon DEF MapInv, Intact, ContentsOf

<1> SUFFICES ASSUME TypeInv, TypeInv', MapInv, [Next]_vars PROVE MapInv'
  OBVIOUS
<1>1. CASE Next
  <2>1. ASSUME NEW t \in Threads, NEW b \in live, free(t, b) PROVE MapInv'
    <3>1. disk' = disk /\ live' \subseteq live /\ pc' = pc /\ cur' = cur
      BY <2>1 DEF free
    <3>2. QED
      BY <3>1, <1>LessMap, Zenon
  <2>2. ASSUME NEW t \in Threads, NEW b \in live, NEW size \in Sizes, export_handle(t, b, size)
        PROVE  MapInv'
    <3>1. disk' = disk /\ live' \subseteq live /\ pc' = pc /\ cur' = cur
      BY <2>2 DEF export_handle
    <3>2. QED
      BY <3>1, <1>LessMap, Zenon
  <2>3. ASSUME NEW p \in Processes, restart(p) PROVE MapInv'
    <3>1. disk' = disk /\ live' \subseteq live
      BY <2>3 DEF restart
    <3>2. ASSUME NEW t \in Threads, pc'[t] = "map_view"
          PROVE  pc[t] = "map_view" /\ cur'[t] = cur[t]
      BY <2>3, <3>2 DEF restart
    <3>3. QED
      BY <3>1, <3>2, <1>LessMap, Zenon
  <2>4. QED
    BY <1>1, <2>1, <2>2, <2>3, StepKinds, <1>MovesMap, <1>HandsMap, Zenon
<1>2. CASE UNCHANGED vars
  <2>1. disk' = disk /\ live' \subseteq live /\ pc' = pc /\ cur' = cur
    BY <1>2 DEF vars
  <2>2. QED
    BY <2>1, <1>LessMap, Zenon
<1>3. QED
  BY <1>1, <1>2

\* The committed bytes of every backing are there: a section is as long as the
\* backing, whatever the 32-bit length came out as, and a mapped file is neither
\* created anew nor cut by other threads, processes and restarts.
THEOREM CommittedIsBacked == Spec => []CommittedBacked
<1>1. Init => MapInv
  BY DEF Init, MapInv
<1>2. MapInv => CommittedBacked
  BY Zenon DEF MapInv, Intact, ContentsOf, CommittedBacked
<1>3. QED
  BY <1>1, <1>2, TypeInvariant, NextMap, PTL DEF Spec
-----------------------------------------------------------------------------
(***************************************************************************)
(* Names and paths: the numbers that a process gives to what it makes.     *)
(***************************************************************************)
Ticket(b) == IF b.kind = "shared" THEN b.object.number ELSE b.key
Issued(b) == IF b.kind = "shared" THEN counter[b.owner] ELSE files[b.owner]
Same(b, c) == b.owner = c.owner /\ b.kind = c.kind /\ Ticket(b) = Ticket(c)

\* The number was given out in this run of the process.
Given(b) ==
  /\ Ticket(b) \in 0..(Issued(b) - 1)
  /\ b.kind = "shared" => b.object.maker = <<b.owner, runs[b.owner]>>

Made == {b \in live : b.wanted = {}}
Making == {t \in Threads : pc[t] \notin {"idle", "name"} /\ cur[t].wanted = {}}

\* No number is given out twice.
TicketInv ==
  /\ \A b \in Made : Given(b)
  /\ \A t \in Making : Given(cur[t])
  /\ \A b \in Made, c \in Made : Same(b, c) => b = c
  /\ \A b \in Made, t \in Making : ~Same(b, cur[t])
  /\ \A t \in Making, u \in Making : Same(cur[t], cur[u]) => t = u

\* The counters never fall in a step of a thread.
LEMMA MovesCounters ==
  ASSUME TypeInv, NEW t \in Threads, NEW q, NEW c, Moves(t, q, c), NEW p \in Processes
  PROVE  counter[p] <= counter'[p] /\ files[p] <= files'[p] /\ runs'[p] = runs[p]
<1>1. counter' = counter \/ counter' = [counter EXCEPT ![process[t]] = @ + 1]
  BY Zenon DEF Moves, GivesUp, Begins, Numbers, Creates, Imports, BeginsFile, CreatesFile,
         Extends, Maps, ImportsFile, Measures, Quiet
<1>2. files' = files \/ files' = [files EXCEPT ![process[t]] = @ + 1]
  BY Zenon DEF Moves, GivesUp, Begins, Numbers, Creates, Imports, BeginsFile, CreatesFile,
         Extends, Maps, ImportsFile, Measures, Quiet
<1>3. counter[p] \in 0..(2 * MaxCount) /\ files[p] \in 0..MaxCount
  BY DEF TypeInv, CountersOK
<1>4. counter[p] \in Nat /\ files[p] \in Nat
  BY <1>3, SegmentsAssumption
<1>5. counter[p] <= counter'[p]
  BY <1>1, <1>4 DEF TypeInv, CountersOK
<1>6. files[p] <= files'[p]
  BY <1>2, <1>4 DEF TypeInv, CountersOK
<1>7. QED
  BY <1>5, <1>6 DEF Moves

\* No step gives a number out twice,
LEMMA NextTickets == TypeInv /\ TypeInv' /\ TicketInv /\ [Next]_vars => TicketInv'
\* The counters of a process.
<1>IssuedNat.
      ASSUME CountersOK, NEW b, b.owner \in Processes
      PROVE  Issued(b) \in Nat
  <2> USE <1>IssuedNat
  <2>1. counter[b.owner] \in 0..(2 * MaxCount) /\ files[b.owner] \in 0..MaxCount
    BY DEF CountersOK
  <2>2. counter[b.owner] \in Nat /\ files[b.owner] \in Nat
    BY <2>1, SegmentsAssumption
  <2>3. QED
    BY <2>2 DEF Issued

\* The counters of a run only grow, so a number that was given out remains so.
<1>GivenStays.
      ASSUME TypeInv, TypeInv', NEW b, b.owner \in Processes, Given(b),
             counter[b.owner] <= counter'[b.owner], files[b.owner] <= files'[b.owner],
             runs'[b.owner] = runs[b.owner]
      PROVE  Given(b)'
  <2> USE <1>GivenStays
  <2>1. Issued(b) <= Issued(b)'
    BY DEF Issued
  <2>2. Issued(b) \in Nat /\ Issued(b)' \in Nat
    <3>1. counter[b.owner] \in 0..(2 * MaxCount) /\ files[b.owner] \in 0..MaxCount
      BY DEF TypeInv, CountersOK
    <3>2. counter'[b.owner] \in 0..(2 * MaxCount) /\ files'[b.owner] \in 0..MaxCount
      BY DEF TypeInv, CountersOK
    <3>3. QED
      BY <3>1, <3>2, SegmentsAssumption DEF Issued
  <2>3. PICK n, m, k : n = Ticket(b) /\ m = Issued(b) /\ k = Issued(b)'
    OBVIOUS
  <2>4. n \in 0..(m - 1)
    BY <2>3, Zenon DEF Given
  <2>5. n \in 0..(k - 1)
    BY <2>1, <2>2, <2>3, <2>4
  <2>6. Ticket(b)' = n
    BY <2>3 DEF Ticket
  <2>7. b.kind = "shared" => b.object.maker = <<b.owner, runs'[b.owner]>>
    BY Zenon DEF Given
  <2>8. QED
    BY <2>3, <2>5, <2>6, <2>7, Zenon DEF Given

\* Threads that make something have a backing of their own process.
<1>MakingOwner.
      ASSUME TypeInv, NEW t \in Threads, pc[t] # "idle"
      PROVE  IsBacking(cur[t]) /\ cur[t].owner = process[t] /\ process[t] \in Processes
  <2> USE <1>MakingOwner
  <2>1. CurOK(t, pc[t], cur[t])
    BY DEF TypeInv, ThreadsOK
  <2>2. QED
    BY <2>1, SegmentsAssumption DEF CurOK

\* A backing belongs to a process.
<1>MadeOwner. ASSUME TypeInv, NEW b \in live PROVE b.owner \in Processes
  BY <1>MadeOwner, BackingFields DEF TypeInv, LiveOK

\* What a step of t does to the numbers: t makes nothing after it, or goes on
\* with the number it has, or takes the next one.
<1>MovesTicket.
      ASSUME TypeInv, NEW t \in Threads, NEW q, NEW c, Moves(t, q, c)
      PROVE  \/ q \in {"idle", "name"} \/ c.wanted # {}
             \/ /\ pc[t] \notin {"idle", "name"} /\ cur[t].wanted = {}
                /\ Same(c, cur[t]) /\ (c.kind = "shared" => c.object = cur[t].object)
             \/ /\ Ticket(c) = Issued(c) /\ Issued(c)' = Issued(c) + 1
                /\ c.kind = "shared" => c.object.maker = <<c.owner, runs[c.owner]>>
  <2> USE <1>MovesTicket
  <2>0. CASE q = "idle"
    BY <2>0
  <2>1. CASE q # "idle"
    <3>1. IsBacking(c) /\ c.owner = process[t] /\ process[t] \in Processes
      BY <2>1, SegmentsAssumption, Zenon DEF Moves, CurOK
    <3>2. CASE GivesUp(t, q, c) \/ Begins(t, q, c)
      BY <3>2 DEF GivesUp, Begins
    <3>3. CASE Imports(t, q, c) \/ ImportsFile(t, q, c)
      BY <3>3 DEF Imports, ImportsFile
    <3>4. CASE Numbers(t, q, c)
      <4>1. /\ Ticket(c) = counter[c.owner] /\ Issued(c) = counter[c.owner]
            /\ Issued(c)' = counter'[c.owner]
        BY <3>1, <3>4 DEF Numbers, Ticket, Issued
      <4>2. counter'[c.owner] = counter[c.owner] + 1
        BY <3>1, <3>4 DEF Numbers, TypeInv, CountersOK
      <4>3. c.object.maker = <<c.owner, runs[c.owner]>>
        BY <3>1, <3>4, Zenon DEF Numbers, Moves, CurOK
      <4>4. QED
        BY <4>1, <4>2, <4>3, Zenon
    <3>5. CASE BeginsFile(t, q, c)
      <4>1. Ticket(c) = files[c.owner] /\ Issued(c) = files[c.owner] /\ Issued(c)' = files'[c.owner]
        BY <3>1, <3>5 DEF BeginsFile, Ticket, Issued
      <4>2. files'[c.owner] = files[c.owner] + 1
        BY <3>1, <3>5 DEF BeginsFile, TypeInv, CountersOK
      <4>3. c.kind # "shared"
        BY <3>5 DEF BeginsFile
      <4>4. QED
        BY <4>1, <4>2, <4>3, Zenon
    <3>6. CASE \/ Creates(t, q, c) \/ CreatesFile(t, q, c) \/ Extends(t, q, c)
               \/ Maps(t, q, c) \/ Measures(t, q, c)
      <4>1. pc[t] \notin {"idle", "name"} /\ Keeps(c, cur[t])
            /\ (c.kind = "shared" => c.object = cur[t].object)
        BY <3>6 DEF Creates, CreatesFile, Extends, Maps, Measures, Keeps
      <4>2. cur[t].owner = c.owner
        BY <3>1, <4>1, <1>MakingOwner
      <4>3. Same(c, cur[t])
        BY <4>1, <4>2, Zenon DEF Same, Keeps, Ticket
      <4>4. QED
        BY <4>1, <4>3, Zenon DEF Keeps
    <3>7. QED
      BY <3>2, <3>3, <3>4, <3>5, <3>6, Zenon DEF Moves
  <2>2. QED
    BY <2>0, <2>1

\* Having the same number is an equivalence.
<1>SameAlso.
      ASSUME NEW a, NEW b, NEW c, NEW d, Same(a, b), Same(c, d), Same(a, c)
      PROVE  Same(b, d)
  BY <1>SameAlso, Zenon DEF Same

\* It is symmetric
<1>SameFlip. ASSUME NEW a, NEW b, Same(a, b) PROVE Same(b, a)
  BY <1>SameFlip, Zenon DEF Same

\* and reflexive.
<1>SameSelf. ASSUME NEW a PROVE Same(a, a)
  BY <1>SameSelf, Zenon DEF Same

\* A step that gives out no number.
<1>FewerTickets.
      ASSUME TicketInv, Made' \subseteq Made, Making' \subseteq Making,
             \A u \in Making' : Same(cur'[u], cur[u]),
             \A b \in Made' : Given(b)', \A u \in Making' : Given(cur[u])'
      PROVE  TicketInv'
  <2> USE <1>FewerTickets
  <2>1. \A b \in Made', c \in Made' : Same(b, c) => b = c
    BY Zenon DEF TicketInv
  <2>2. ASSUME NEW b \in Made', NEW u \in Making', Same(b, cur'[u]) PROVE FALSE
    <3>1. Same(b, cur[u])
      BY <2>2, <1>SameAlso, <1>SameSelf, Zenon
    <3>2. QED
      BY <3>1, Zenon DEF TicketInv
  <2>3. ASSUME NEW u \in Making', NEW v \in Making', Same(cur'[u], cur'[v]) PROVE u = v
    <3>1. Same(cur[u], cur[v])
      BY <2>3, <1>SameAlso, Zenon
    <3>2. QED
      BY <3>1, Zenon DEF TicketInv
  <2>4. (\A b \in Made, c \in Made : Same(b, c) => b = c)'
    BY <2>1, Zenon DEF Same, Ticket
  <2>5. (\A b \in Made, u \in Making : ~Same(b, cur[u]))'
    BY <2>2, Zenon DEF Same, Ticket
  <2>6. (\A u \in Making, v \in Making : Same(cur[u], cur[v]) => u = v)'
    BY <2>3, Zenon DEF Same, Ticket
  <2>7. QED
    BY <2>4, <2>5, <2>6, Zenon DEF TicketInv

\* Given, of a backing that keeps its number.
<1>GivenSame.
      ASSUME NEW b, NEW c, Given(b), Same(c, b), c.kind = "shared" => c.object = b.object
      PROVE  Given(c)
  BY <1>GivenSame, Zenon DEF Given, Same, Ticket, Issued

\* The next number is nobody's.
<1>FreshTicket.
      ASSUME TypeInv, NEW b, b.owner \in Processes, Given(b), NEW c, Ticket(c) = Issued(c)
      PROVE  ~Same(b, c)
  <2> USE <1>FreshTicket
  <2>1. SUFFICES ASSUME Same(b, c) PROVE FALSE
    OBVIOUS
  <2>2. Issued(b) = Issued(c) /\ Ticket(b) = Ticket(c)
    BY <2>1, Zenon DEF Same, Issued
  <2>3. Issued(b) \in Nat
    BY <1>IssuedNat DEF TypeInv
  <2>4. Ticket(b) \in 0..(Issued(b) - 1)
    BY Zenon DEF Given
  <2>5. QED
    BY <2>2, <2>3, <2>4

\* A step of a thread gives no number out twice.
<1>MovesTickets.
      ASSUME TypeInv, TypeInv', TicketInv, NEW t \in Threads, NEW q, NEW c, Moves(t, q, c)
      PROVE  TicketInv'
  <2> USE <1>MovesTickets
  <2>1. Made' = Made
    BY DEF Made, Moves
  <2>2. ASSUME NEW u \in Threads, u # t PROVE pc'[u] = pc[u] /\ cur'[u] = cur[u]
    BY <2>2, Zenon DEF Moves, Sets, TypeInv, ThreadsOK
  <2>3. pc'[t] = q /\ cur'[t] = c
    BY DEF Moves, Sets, TypeInv, ThreadsOK
  <2>4. ASSUME NEW b, b.owner \in Processes, Given(b) PROVE Given(b)'
    BY <2>4, <1>GivenStays, MovesCounters, Zenon
  <2>5. \A b \in Made' : Given(b)'
    <3>1. SUFFICES ASSUME NEW b \in Made PROVE Given(b)'
      BY <2>1, Zenon
    <3>2. b.owner \in Processes
      BY <1>MadeOwner DEF Made
    <3>3. Given(b)
      BY Zenon DEF TicketInv
    <3>4. QED
      BY <2>4, <3>2, <3>3, Zenon
  <2>6. ASSUME NEW u \in Making', u # t
        PROVE  u \in Making /\ cur'[u] = cur[u] /\ Same(cur'[u], cur[u]) /\ Given(cur[u])'
    <3>1. u \in Making /\ cur'[u] = cur[u]
      BY <2>2, <2>6 DEF Making
    <3>2. cur[u].owner \in Processes
      BY <3>1, <1>MakingOwner DEF Making
    <3>3. PICK b : b = cur[u]
      OBVIOUS
    <3>4. Given(b)'
      BY <2>4, <3>1, <3>2, <3>3, Zenon DEF TicketInv
    <3>5. Given(cur[u])'
      BY <3>1, <3>3, <3>4, Zenon DEF Given, Ticket, Issued
    <3>6. QED
      BY <3>1, <3>5, <1>SameSelf, Zenon
  <2>7. CASE t \notin Making'
    <3>1. \A u \in Making' : u \in Making /\ Same(cur'[u], cur[u]) /\ Given(cur[u])'
      BY <2>6, <2>7, Zenon
    <3>2. QED
      BY <2>1, <2>5, <3>1, <1>FewerTickets, Zenon
  <2>8. CASE t \in Making' /\ t \in Making /\ Same(c, cur[t])
             /\ (c.kind = "shared" => c.object = cur[t].object)
    <3>1. cur[t].owner \in Processes
      BY <2>8, <1>MakingOwner DEF Making
    <3>2. PICK b : b = cur[t]
      OBVIOUS
    <3>3. Given(b)'
      BY <2>4, <2>8, <3>1, <3>2, Zenon DEF TicketInv
    <3>4. Given(c)'
      BY <2>8, <3>2, <3>3, Zenon DEF Given, Same, Ticket, Issued
    <3>5. Given(cur[t])'
      BY <2>3, <3>4, Zenon DEF Given, Ticket, Issued
    <3>6. \A u \in Making' : u \in Making /\ Same(cur'[u], cur[u]) /\ Given(cur[u])'
      BY <2>3, <2>6, <2>8, <3>5, Zenon
    <3>7. QED
      BY <2>1, <2>5, <3>6, <1>FewerTickets, Zenon
  <2>9. CASE t \in Making' /\ Ticket(c) = Issued(c) /\ Issued(c)' = Issued(c) + 1
             /\ (c.kind = "shared" => c.object.maker = <<c.owner, runs[c.owner]>>)
    <3>1. c.owner \in Processes
      <4>1. q # "idle"
        BY <2>3, <2>9 DEF Making
      <4>2. IsBacking(c)
        BY <4>1, Zenon DEF Moves, CurOK
      <4>3. QED
        BY <4>2, BackingFields
    <3>2. Issued(c) \in Nat
      BY <3>1, <1>IssuedNat DEF TypeInv
    <3>3. Given(c)'
      <4>1. Ticket(c)' = Ticket(c)
        BY DEF Ticket
      <4>2. Ticket(c)' \in 0..(Issued(c)' - 1)
        BY <2>9, <3>2, <4>1
      <4>3. runs' = runs
        BY Zenon DEF Moves
      <4>4. QED
        BY <2>9, <4>2, <4>3, Zenon DEF Given
    <3>4. Given(cur[t])'
      BY <2>3, <3>3, Zenon DEF Given, Ticket, Issued
    <3>5. \A u \in Making' : Given(cur[u])'
      BY <2>6, <3>4, Zenon
    <3>6. ASSUME NEW b \in Made PROVE ~Same(b, c)
      <4>1. b.owner \in Processes /\ Given(b)
        BY <1>MadeOwner, Zenon DEF Made, TicketInv
      <4>2. QED
        BY <2>9, <4>1, <1>FreshTicket, Zenon
    <3>7. ASSUME NEW u \in Making', u # t PROVE ~Same(cur'[u], c)
      <4>1. u \in Making /\ cur'[u] = cur[u]
        BY <2>6, <3>7, Zenon
      <4>2. cur[u].owner \in Processes /\ Given(cur[u])
        BY <4>1, <1>MakingOwner, Zenon DEF Making, TicketInv
      <4>3. QED
        BY <2>9, <4>1, <4>2, <1>FreshTicket, Zenon
    <3>8. (\A b \in Made, d \in Made : Same(b, d) => b = d)'
      BY <2>1, Zenon DEF TicketInv, Same, Ticket
    <3>9. \A b \in Made', u \in Making' : ~Same(b, cur'[u])
      BY <2>1, <2>3, <2>6, <3>6, Zenon DEF TicketInv
    <3>10. \A u \in Making', v \in Making' : Same(cur'[u], cur'[v]) => u = v
      BY <2>3, <2>6, <3>7, <1>SameFlip, Zenon DEF TicketInv
    <3>11. (\A b \in Made, u \in Making : ~Same(b, cur[u]))'
      BY <3>9, Zenon DEF Same, Ticket
    <3>12. (\A u \in Making, v \in Making : Same(cur[u], cur[v]) => u = v)'
      BY <3>10, Zenon DEF Same, Ticket
    <3>13. QED
      BY <2>5, <3>5, <3>8, <3>11, <3>12, Zenon DEF TicketInv
  <2>10. t \in Making' => q \notin {"idle", "name"} /\ c.wanted = {}
    BY <2>3, Zenon DEF Making
  <2>11. pc[t] \notin {"idle", "name"} /\ cur[t].wanted = {} => t \in Making
    BY Zenon DEF Making
  <2>12. QED
    BY <2>7, <2>8, <2>9, <2>10, <2>11, <1>MovesTicket, Zenon

\* The backing that is returned keeps the number it was made with.
<1>HandsTickets.
      ASSUME TypeInv, TypeInv', TicketInv, NEW t \in Threads, NEW c, Hands(t, c)
      PROVE  TicketInv'
  <2> USE <1>HandsTickets
  <2>1. live' = live \cup {c} /\ runs' = runs /\ counter' = counter /\ files' = files
    BY DEF Hands
  <2>2. ASSUME NEW u \in Making' PROVE u \in Making /\ u # t /\ cur'[u] = cur[u]
    BY <2>2, Zenon DEF Making, Hands, Sets, TypeInv, ThreadsOK
  <2>3. c.wanted = cur[t].wanted /\ Same(c, cur[t]) /\ c.object = cur[t].object
    <3>1. cur[t].owner = process[t]
      BY <1>MakingOwner DEF Hands
    <3>2. QED
      BY <3>1, Zenon DEF Hands, Keeps, Same, Ticket
  <2>4. c.wanted = {} => t \in Making
    BY <2>3, Zenon DEF Making, Hands
  <2>5. c.wanted = {} => Given(c)
    BY <2>3, <2>4, <1>GivenSame, Zenon DEF TicketInv
  <2>6. ASSUME NEW b, Given(b) PROVE Given(b)'
    BY <2>1, <2>6, Zenon DEF Given, Ticket, Issued
  <2>7. ASSUME NEW b \in Made' PROVE b \in Made \/ (b = c /\ c.wanted = {})
    BY <2>1, <2>7, Zenon DEF Made
  <2>8. \A b \in Made' : Given(b)'
    BY <2>5, <2>6, <2>7, Zenon DEF TicketInv
  <2>9. \A u \in Making' : Given(cur[u])'
    <3>1. SUFFICES ASSUME NEW u \in Making' PROVE Given(cur[u])'
      OBVIOUS
    <3>2. Given(cur[u])
      BY <2>2, Zenon DEF TicketInv
    <3>3. QED
      BY <2>1, <2>2, <3>2, Zenon DEF Given, Ticket, Issued
  <2>10. c.wanted = {} => \A b \in Made : ~Same(b, c)
    <3>1. SUFFICES ASSUME c.wanted = {}, NEW b \in Made, Same(b, c) PROVE FALSE
      OBVIOUS
    <3>2. Same(b, cur[t])
      BY <2>3, <3>1, Zenon DEF Same
    <3>3. QED
      BY <2>4, <3>1, <3>2, Zenon DEF TicketInv
  <2>11. c.wanted = {} => \A u \in Making' : ~Same(c, cur'[u])
    <3>1. SUFFICES ASSUME c.wanted = {}, NEW u \in Making', Same(c, cur'[u]) PROVE FALSE
      OBVIOUS
    <3>2. Same(cur[t], cur[u])
      BY <2>2, <2>3, <3>1, Zenon DEF Same
    <3>3. QED
      BY <2>2, <2>4, <3>1, <3>2, Zenon DEF TicketInv
  <2>12. \A b \in Made', d \in Made' : Same(b, d) => b = d
    BY <2>7, <2>10, <1>SameFlip, Zenon DEF TicketInv
  <2>13. \A b \in Made', u \in Making' : ~Same(b, cur'[u])
    BY <2>2, <2>7, <2>11, Zenon DEF TicketInv
  <2>14. \A u \in Making', v \in Making' : Same(cur'[u], cur'[v]) => u = v
    BY <2>2, Zenon DEF TicketInv
  <2>15. (\A b \in Made, d \in Made : Same(b, d) => b = d)'
    BY <2>12, Zenon DEF Same, Ticket
  <2>16. (\A b \in Made, u \in Making : ~Same(b, cur[u]))'
    BY <2>13, Zenon DEF Same, Ticket
  <2>17. (\A u \in Making, v \in Making : Same(cur[u], cur[v]) => u = v)'
    BY <2>14, Zenon DEF Same, Ticket
  <2>18. QED
    BY <2>8, <2>9, <2>15, <2>16, <2>17, Zenon DEF TicketInv

\* A process that starts again gives out its numbers again, and nothing that it
\* made in an earlier run is left.
<1>RestartTickets.
      ASSUME TypeInv, TypeInv', TicketInv, NEW p \in Processes, restart(p)
      PROVE  TicketInv'
  <2> USE <1>RestartTickets
  <2>1. ASSUME NEW r \in Processes, r # p
        PROVE  runs'[r] = runs[r] /\ counter'[r] = counter[r] /\ files'[r] = files[r]
    BY <2>1 DEF restart, TypeInv, CountersOK
  <2>2. ASSUME NEW b, b.owner \in Processes, b.owner # p, Given(b) PROVE Given(b)'
    <3>1. /\ runs'[b.owner] = runs[b.owner] /\ counter'[b.owner] = counter[b.owner]
          /\ files'[b.owner] = files[b.owner]
      BY <2>1, <2>2, Zenon
    <3>2. QED
      BY <2>2, <3>1, Zenon DEF Given, Ticket, Issued
  <2>3. ASSUME NEW b \in Made' PROVE b \in Made /\ Given(b)'
    <3>1. b \in Made /\ b \in live /\ b.owner # p
      BY <2>3 DEF Made, restart
    <3>2. b.owner \in Processes
      BY <3>1, <1>MadeOwner
    <3>3. QED
      BY <2>2, <3>1, <3>2, Zenon DEF TicketInv
  <2>4. ASSUME NEW u \in Making' PROVE u \in Making /\ Same(cur'[u], cur[u]) /\ Given(cur[u])'
    <3>1. u \in Making /\ process[u] # p /\ cur'[u] = cur[u]
      BY <2>4 DEF Making, restart
    <3>2. cur[u].owner = process[u] /\ process[u] \in Processes
      BY <3>1, <1>MakingOwner DEF Making
    <3>3. PICK b : b = cur[u]
      OBVIOUS
    <3>4. Given(b)'
      BY <2>2, <3>1, <3>2, <3>3, Zenon DEF TicketInv
    <3>5. Given(cur[u])'
      BY <3>1, <3>3, <3>4, Zenon DEF Given, Ticket, Issued
    <3>6. QED
      BY <3>1, <3>5, <1>SameSelf, Zenon
  <2>5. QED
    BY <2>3, <2>4, <1>FewerTickets, Zenon

<1> SUFFICES ASSUME TypeInv, TypeInv', TicketInv, [Next]_vars PROVE TicketInv'
  OBVIOUS
<1>1. ASSUME live' \subseteq live, UNCHANGED <<runs, counter, files, pc, cur>>
      PROVE  TicketInv'
  <2>1. Made' \subseteq Made /\ Making' = Making
    BY <1>1 DEF Made, Making
  <2>2. \A b \in Made' : Given(b)'
    BY <1>1, <2>1, Zenon DEF TicketInv, Given, Ticket, Issued
  <2>3. \A u \in Making' : Given(cur[u])'
    BY <1>1, <2>1, Zenon DEF TicketInv, Given, Ticket, Issued
  <2>4. \A u \in Making' : Same(cur'[u], cur[u])
    BY <1>1, <1>SameSelf, Zenon
  <2>5. QED
    BY <2>1, <2>2, <2>3, <2>4, <1>FewerTickets, Zenon
<1>2. ASSUME NEW t \in Threads, NEW b \in live, free(t, b) PROVE TicketInv'
  <2>1. live' \subseteq live /\ UNCHANGED <<runs, counter, files, pc, cur>>
    BY <1>2 DEF free
  <2>2. QED
    BY <1>1, <2>1, Zenon
<1>3. ASSUME NEW t \in Threads, NEW b \in live, NEW size \in Sizes, export_handle(t, b, size)
      PROVE  TicketInv'
  <2>1. live' \subseteq live /\ UNCHANGED <<runs, counter, files, pc, cur>>
    BY <1>3 DEF export_handle
  <2>2. QED
    BY <1>1, <2>1, Zenon
<1>4. CASE UNCHANGED vars
  <2>1. live' \subseteq live /\ UNCHANGED <<runs, counter, files, pc, cur>>
    BY <1>4 DEF vars
  <2>2. QED
    BY <1>1, <2>1, Zenon
<1>5. QED
  BY <1>2, <1>3, <1>4, StepKinds, <1>MovesTickets, <1>HandsTickets, <1>RestartTickets, Zenon

\* and so none ever is.
LEMMA TicketInvariant == Spec => []TicketInv
<1>1. Init => TicketInv
  BY DEF Init, TicketInv, Made, Making
<1>2. QED
  BY <1>1, TypeInvariant, NextTickets, PTL DEF Spec

\* An import maps the segment that it was asked for.
WantInv ==
  /\ \A b \in live : b.kind = "shared" => b.wanted \subseteq {b.object}
  /\ \A t \in Threads : pc[t] = "map_view" /\ cur[t].kind = "shared" =>
       cur[t].wanted \subseteq {cur[t].object}

\* A section is the one of its name, so an import gets what it wants.
LEMMA NextWant == TypeInv /\ WantInv /\ [Next]_vars => WantInv'
<1> SUFFICES ASSUME TypeInv, WantInv, [Next]_vars PROVE WantInv'
  OBVIOUS
<1>1. ASSUME live' \subseteq live,
             \A t \in Threads : pc'[t] = "map_view" => pc[t] = "map_view" /\ cur'[t] = cur[t]
      PROVE  WantInv'
  BY <1>1, Zenon DEF WantInv
<1>2. ASSUME NEW t \in Threads, NEW q, NEW c, Moves(t, q, c) PROVE WantInv'
  <2>1. live' = live
    BY <1>2 DEF Moves
  <2>2. ASSUME NEW u \in Threads, u # t PROVE pc'[u] = pc[u] /\ cur'[u] = cur[u]
    BY <1>2, <2>2, Zenon DEF Moves, Sets, TypeInv, ThreadsOK
  <2>3. pc'[t] = q /\ cur'[t] = c
    BY <1>2 DEF Moves, Sets, TypeInv, ThreadsOK
  <2>4. ASSUME q = "map_view", c.kind = "shared" PROVE c.wanted \subseteq {c.object}
    <3>1. Creates(t, q, c) \/ Imports(t, q, c)
      BY <1>2, <2>4 DEF Moves, GivesUp, Begins, Numbers, BeginsFile, CreatesFile, Extends,
             Maps, ImportsFile, Measures
    <3>2. CASE Creates(t, q, c)
      <4>1. CurOK(t, "create_section", cur[t])
        BY <3>2 DEF Creates, TypeInv, ThreadsOK
      <4>2. cur[t].wanted = {}
        BY <4>1 DEF CurOK
      <4>3. QED
        BY <3>2, <4>2 DEF Creates, Keeps
    <3>3. CASE Imports(t, q, c)
      BY <3>3 DEF Imports
    <3>4. QED
      BY <3>1, <3>2, <3>3
  <2>5. \A b \in live' : b.kind = "shared" => b.wanted \subseteq {b.object}
    BY <2>1, Zenon DEF WantInv
  <2>6. \A u \in Threads : pc'[u] = "map_view" /\ cur'[u].kind = "shared" =>
          cur'[u].wanted \subseteq {cur'[u].object}
    BY <2>2, <2>3, <2>4, Zenon DEF WantInv
  <2>7. QED
    BY <2>5, <2>6, Zenon DEF WantInv
<1>3. ASSUME NEW t \in Threads, NEW c, Hands(t, c) PROVE WantInv'
  <2>1. live' = live \cup {c}
    BY <1>3 DEF Hands
  <2>2. c.kind = "shared" => c.wanted \subseteq {c.object}
    BY <1>3, Zenon DEF Hands, Keeps, WantInv
  <2>3. \A b \in live' : b.kind = "shared" => b.wanted \subseteq {b.object}
    BY <2>1, <2>2, Zenon DEF WantInv
  <2>4. ASSUME NEW u \in Threads, pc'[u] = "map_view"
        PROVE  pc[u] = "map_view" /\ cur'[u] = cur[u]
    BY <1>3, <2>4 DEF Hands, Sets, TypeInv, ThreadsOK
  <2>5. QED
    BY <2>3, <2>4, Zenon DEF WantInv
<1>4. ASSUME NEW t \in Threads, NEW b \in live, free(t, b) PROVE WantInv'
  <2>1. live' \subseteq live /\ pc' = pc /\ cur' = cur
    BY <1>4 DEF free
  <2>2. QED
    BY <1>1, <2>1, Zenon
<1>5. ASSUME NEW t \in Threads, NEW b \in live, NEW size \in Sizes, export_handle(t, b, size)
      PROVE  WantInv'
  <2>1. live' \subseteq live /\ pc' = pc /\ cur' = cur
    BY <1>5 DEF export_handle
  <2>2. QED
    BY <1>1, <2>1, Zenon
<1>6. ASSUME NEW p \in Processes, restart(p) PROVE WantInv'
  <2>1. live' \subseteq live
    BY <1>6 DEF restart
  <2>2. ASSUME NEW t \in Threads, pc'[t] = "map_view"
        PROVE  pc[t] = "map_view" /\ cur'[t] = cur[t]
    BY <1>6, <2>2 DEF restart
  <2>3. QED
    BY <1>1, <2>1, <2>2, Zenon
<1>7. CASE UNCHANGED vars
  <2>1. live' \subseteq live /\ pc' = pc /\ cur' = cur
    BY <1>7 DEF vars
  <2>2. QED
    BY <1>1, <2>1, Zenon
<1>8. QED
  BY <1>2, <1>3, <1>4, <1>5, <1>6, <1>7, StepKinds, Zenon

\* A name stands for one segment: what allocate made is no other allocation's
\* memory, and an import maps the segment that was exported or fails, although
\* creating a name that exists succeeds and allocate does not look.
THEOREM SegmentsArePrivate == Spec => []SegmentsPrivate
<1>1. Init => WantInv
  BY DEF Init, WantInv
<1>2. TypeInv /\ TicketInv /\ WantInv => SegmentsPrivate
  <2> SUFFICES ASSUME TypeInv, TicketInv, WantInv PROVE SegmentsPrivate
    OBVIOUS
  <2>1. ASSUME NEW b \in live, NEW c \in live, b.kind = "shared", c.kind = "shared",
               b.wanted = {}, c.wanted = {}, b.object = c.object
        PROVE  b = c
    <3>1. b \in Made /\ c \in Made
      BY <2>1 DEF Made
    <3>2. Given(b) /\ Given(c)
      BY <3>1, Zenon DEF TicketInv
    <3>3. <<b.owner, runs[b.owner]>> = <<c.owner, runs[c.owner]>>
      BY <2>1, <3>2, Zenon DEF Given
    <3>4. b.owner = c.owner
      BY <3>3
    <3>5. Same(b, c)
      BY <2>1, <3>4, Zenon DEF Same, Ticket
    <3>6. QED
      BY <3>1, <3>5, Zenon DEF TicketInv
  <2>2. QED
    BY <2>1, Zenon DEF SegmentsPrivate, WantInv
<1>3. QED
  BY <1>1, <1>2, TypeInvariant, TicketInvariant, NextWant, PTL DEF Spec
-----------------------------------------------------------------------------
(***************************************************************************)
(* What a path has held.                                                   *)
(***************************************************************************)
\* No thread of p is about to create the path.
Settled(p, path) ==
  /\ path < files[p]
  /\ \A t \in Threads : ~(process[t] = p /\ pc[t] = "create_file" /\ cur[t].key = path)

\* The maker, once it is past, does not create the path in the same run again.
Dated(o, path) ==
  \E p \in Processes : \E r \in 1..runs[p] :
    o.maker = <<p, r>> /\ (r = runs[p] => Settled(p, path))

\* o are contents that the path has or had.
Past(o, path) ==
  /\ o.maker = disk[path].maker => o = ContentsOf(path)
  /\ Dated(o, path)

PastInv ==
  /\ \A n \in Paths : disk[n].created # 0 => Past(ContentsOf(n), n)
  /\ \A d \in descriptors : d.kind = "file" => Past(d.object, d.key)
  /\ \A b \in live : b.kind = "file" =>
       disk[b.key].created # 0 /\ \A o \in b.wanted : Past(o, b.key)
  /\ \A t \in Threads : pc[t] # "idle" /\ cur[t].kind = "file" =>
       /\ pc[t] # "create_file" => disk[cur[t].key].created # 0
       /\ \A o \in cur[t].wanted : Past(o, cur[t].key)

\* Every step.
LEMMA NextPast ==
  TypeInv /\ TypeInv' /\ MapInv /\ TicketInv /\ PastInv /\ [Next]_vars => PastInv'
\* Once settled, a path stays so: the next one has a new number.
<1>SettledStays.
      ASSUME TypeInv, TypeInv', NEW t \in Threads, NEW q, NEW c, Moves(t, q, c),
             NEW p \in Processes, NEW k \in Paths, Settled(p, k)
      PROVE  Settled(p, k)'
  <2> USE <1>SettledStays
  <2>1. files[p] <= files'[p]
    BY MovesCounters
  <2>2. files[p] \in 0..MaxCount /\ files'[p] \in 0..MaxCount
    BY DEF TypeInv, CountersOK
  <2>3. k < files[p]
    BY DEF Settled
  <2>4. k < files'[p]
    BY <2>1, <2>2, <2>3, SegmentsAssumption DEF Paths
  <2>5. ASSUME NEW u \in Threads, process[u] = p, pc'[u] = "create_file", cur'[u].key = k
        PROVE  FALSE
    <3>1. CASE u # t
      <4>1. pc[u] = "create_file" /\ cur[u].key = k
        BY <2>5, <3>1 DEF Moves, Sets, TypeInv, ThreadsOK
      <4>2. QED
        BY <2>5, <4>1, Zenon DEF Settled
    <3>2. CASE u = t
      <4>1. q = "create_file" /\ c.key = k
        BY <2>5, <3>2 DEF Moves, Sets, TypeInv, ThreadsOK
      <4>2. BeginsFile(t, q, c)
        BY <4>1 DEF Moves, GivesUp, Begins, Numbers, Creates, Imports, CreatesFile, Extends,
               Maps, ImportsFile, Measures
      <4>3. k = files[p]
        BY <2>5, <3>2, <4>1, <4>2 DEF BeginsFile
      <4>4. QED
        BY <2>2, <2>3, <4>3
    <3>3. QED
      BY <3>1, <3>2
  <2>6. QED
    BY <2>4, <2>5, Zenon DEF Settled

\* A file that exists goes on existing, and its contents change only when a
\* thread creates it anew.
<1>ContentsStay.
      ASSUME TypeInv, NEW t \in Threads, NEW q, NEW c, Moves(t, q, c), NEW k \in Paths
      PROVE  \/ ContentsOf(k)' = ContentsOf(k) /\ disk'[k].created = disk[k].created
                /\ disk'[k].maker = disk[k].maker
             \/ /\ CreatesFile(t, q, c) /\ k = c.key
                /\ disk'[k].created # 0 /\ disk'[k].maker = <<process[t], runs[process[t]]>>
  <2> USE <1>ContentsStay
  <2>1. CASE disk' = disk
    BY <2>1, Zenon DEF ContentsOf
  <2>2. CASE CreatesFile(t, q, c)
    <3>1. CASE k # c.key
      <4>1. disk'[k] = disk[k]
        BY <2>2, <3>1, Zenon DEF CreatesFile, TypeInv, DiskOK
      <4>2. QED
        BY <4>1 DEF ContentsOf
    <3>2. CASE k = c.key
      <4>1. /\ disk'[k].created = disk[k].created + 1
            /\ disk'[k].maker = <<process[t], runs[process[t]]>>
        BY <2>2, <3>2 DEF CreatesFile, TypeInv, DiskOK
      <4>2. disk[k].created \in Nat
        BY DEF TypeInv, DiskOK
      <4>3. disk'[k].created # 0
        BY <4>1, <4>2
      <4>4. QED
        BY <2>2, <3>2, <4>1, <4>3, Zenon
    <3>3. QED
      BY <3>1, <3>2, Zenon
  <2>3. CASE Extends(t, q, c)
    <3>1. disk'[k].maker = disk[k].maker /\ disk'[k].created = disk[k].created
      BY <2>3 DEF Extends, TypeInv, DiskOK
    <3>2. QED
      BY <3>1 DEF ContentsOf
  <2>4. QED
    BY <2>1, <2>2, <2>3, Zenon DEF Moves, GivesUp, Begins, Numbers, Creates, Imports,
           BeginsFile, Maps, ImportsFile, Measures, Quiet

\* The thread that creates a file is at the path it was given.
<1>CreatorAt.
      ASSUME TypeInv, NEW t \in Threads, NEW q, NEW c, Moves(t, q, c), CreatesFile(t, q, c)
      PROVE  /\ pc[t] = "create_file" /\ cur[t].key = c.key /\ cur[t].kind = "file"
             /\ cur[t].wanted = {} /\ cur[t].owner = process[t] /\ process[t] \in Processes
  <2> USE <1>CreatorAt
  <2>1. pc[t] = "create_file" /\ Keeps(c, cur[t]) /\ c.kind = "file"
    BY DEF CreatesFile
  <2>2. CurOK(t, "create_file", cur[t])
    BY <2>1, AtStep DEF TypeInv
  <2>3. cur[t].wanted = {} /\ cur[t].owner = process[t]
    BY <2>2 DEF CurOK
  <2>4. QED
    BY <2>1, <2>3, SegmentsAssumption DEF Keeps

\* The maker of old contents stays done with the path.
<1>DatedStays.
      ASSUME TypeInv, TypeInv', NEW t \in Threads, NEW q, NEW c, Moves(t, q, c),
             NEW o, NEW k \in Paths, Dated(o, k)
      PROVE  Dated(o, k)'
  <2> USE <1>DatedStays
  <2>0. PICK p \in Processes : \E r \in 1..runs[p] :
          o.maker = <<p, r>> /\ (r = runs[p] => Settled(p, k))
    BY Zenon DEF Dated
  <2>1. PICK r \in 1..runs[p] : o.maker = <<p, r>> /\ (r = runs[p] => Settled(p, k))
    BY <2>0, Zenon
  <2>2. runs' = runs
    BY Zenon DEF Moves
  <2>3. r = runs[p] => Settled(p, k)'
    BY <2>1, <1>SettledStays, Zenon
  <2>4. QED
    BY <2>1, <2>2, <2>3, Zenon DEF Dated

\* Contents of the past stay of the past: whoever creates the path anew is
\* another run, or another process.
<1>PastStays.
      ASSUME TypeInv, TypeInv', NEW t \in Threads, NEW q, NEW c, Moves(t, q, c),
             NEW o, NEW k \in Paths, Past(o, k)
      PROVE  Past(o, k)'
  <2> USE <1>PastStays
  <2>1. Dated(o, k)'
    BY <1>DatedStays, Zenon DEF Past
  <2>2. CASE ContentsOf(k)' = ContentsOf(k) /\ disk'[k].maker = disk[k].maker
    BY <2>1, <2>2, Zenon DEF Past
  <2>3. CASE /\ CreatesFile(t, q, c) /\ k = c.key
             /\ disk'[k].maker = <<process[t], runs[process[t]]>>
    <3>1. ASSUME o.maker = disk'[k].maker PROVE FALSE
      <4>0. PICK p \in Processes : \E r \in 1..runs[p] :
              o.maker = <<p, r>> /\ (r = runs[p] => Settled(p, k))
        BY Zenon DEF Past, Dated
      <4>1. PICK r \in 1..runs[p] : o.maker = <<p, r>> /\ (r = runs[p] => Settled(p, k))
        BY <4>0
      <4>2. <<p, r>> = <<process[t], runs[process[t]]>>
        BY <2>3, <3>1, <4>1, Zenon
      <4>3. p = process[t] /\ r = runs[p]
        BY <4>2
      <4>c. CreatesFile(t, q, c)
        BY <2>3
      <4>4. pc[t] = "create_file" /\ cur[t].key = c.key
        BY <4>c, <1>CreatorAt, Zenon
      <4>5. Settled(p, k)
        BY <4>1, <4>3
      <4>6. process[t] = p /\ cur[t].key = k
        BY <2>3, <4>3, <4>4, Zenon
      <4>7. QED
        BY <4>4, <4>5, <4>6, Zenon DEF Settled
    <3>2. QED
      BY <2>1, <3>1, Zenon DEF Past
  <2>4. QED
    BY <2>2, <2>3, <1>ContentsStay, Zenon

\* What a thread has just created is not created again by its run.
<1>CreatedIsPast.
      ASSUME TypeInv, TypeInv', TicketInv, NEW t \in Threads, NEW q, NEW c, Moves(t, q, c),
             CreatesFile(t, q, c), NEW k \in Paths, k = c.key,
             disk'[k].maker = <<process[t], runs[process[t]]>>
      PROVE  Past(ContentsOf(k), k)'
  <2> USE <1>CreatedIsPast
  <2>1. PICK p : p = process[t]
    OBVIOUS
  <2>2. /\ pc[t] = "create_file" /\ cur[t].key = k /\ cur[t].kind = "file"
        /\ cur[t].wanted = {} /\ cur[t].owner = p /\ p \in Processes
    <3>1. /\ pc[t] = "create_file" /\ cur[t].key = c.key /\ cur[t].kind = "file"
          /\ cur[t].wanted = {} /\ cur[t].owner = process[t] /\ process[t] \in Processes
      BY <1>CreatorAt, Zenon
    <3>2. QED
      BY <2>1, <3>1, Zenon
  <2>3. t \in Making
    BY <2>2 DEF Making
  <2>4. k < files[p]
    <3>1. k \in 0..(files[p] - 1)
      <4>1. Given(cur[t])
        BY <2>3, Zenon DEF TicketInv
      <4>2. cur[t].kind # "shared"
        BY <2>2
      <4>3. QED
        BY <2>2, <4>1, <4>2, Zenon DEF Given, Ticket, Issued
    <3>2. files[p] \in 0..MaxCount
      BY <2>2 DEF TypeInv, CountersOK
    <3>3. QED
      BY <3>1, <3>2
  <2>5. ASSUME NEW u \in Threads, process[u] = p, pc'[u] = "create_file", cur'[u].key = k
        PROVE  FALSE
    <3>1. u # t /\ pc[u] = "create_file" /\ cur[u].key = k
      BY <2>5 DEF Moves, Sets, CreatesFile, TypeInv, ThreadsOK
    <3>2. CurOK(u, "create_file", cur[u])
      BY <3>1, AtStep, Zenon DEF TypeInv
    <3>3. cur[u].wanted = {} /\ cur[u].owner = p /\ cur[u].kind = "file"
      <4>1. /\ cur[u].wanted = {} /\ cur[u].owner = process[u]
            /\ "create_file" \in StepsOf(cur[u].kind) /\ IsBacking(cur[u])
        BY <3>2, Zenon DEF CurOK
      <4>2. cur[u].kind \in {"shared", "file"} /\ cur[u].kind # "shared"
        BY <4>1, BackingFields DEF StepsOf
      <4>3. QED
        BY <2>5, <4>1, <4>2, Zenon
    <3>4. u \in Making
      BY <3>1, <3>3 DEF Making
    <3>5. Ticket(cur[u]) = k /\ Ticket(cur[t]) = k
      BY <2>2, <3>1, <3>3 DEF Ticket
    <3>6. Same(cur[u], cur[t])
      BY <2>2, <3>3, <3>5, Zenon DEF Same
    <3>7. QED
      BY <2>3, <3>1, <3>4, <3>6, Zenon DEF TicketInv
  <2>6. files' = files /\ runs' = runs
    BY Zenon DEF CreatesFile, Moves
  <2>7. Settled(p, k)'
    BY <2>4, <2>5, <2>6, Zenon DEF Settled
  <2>8. PICK r : r = runs[p]
    OBVIOUS
  <2>9. r \in 1..runs'[p]
    <3>1. runs \in [Processes -> 1..(MaxRestarts + 1)]
      BY Zenon DEF TypeInv, CountersOK
    <3>2. r \in 1..r
      BY <2>2, <2>8, <3>1, SegmentsAssumption
    <3>3. QED
      BY <2>6, <2>8, <3>2, Zenon
  <2>10. (ContentsOf(k).maker)' = <<p, r>>
    BY <2>1, <2>8 DEF ContentsOf
  <2>11. Dated(ContentsOf(k), k)'
    BY <2>2, <2>7, <2>9, <2>10, Zenon DEF Dated
  <2>12. QED
    BY <2>11, Zenon DEF Past

\* The thread that moved, after its step.
<1>MovedThread.
      ASSUME TypeInv, TypeInv', PastInv, NEW t \in Threads, NEW q, NEW c, Moves(t, q, c),
             q # "idle", c.kind = "file"
      PROVE  /\ q # "create_file" => disk'[c.key].created # 0
             /\ \A o \in c.wanted : Past(o, c.key)'
  <2> USE <1>MovedThread
  <2>1. c.key \in Paths
    <3>1. q # "name"
      BY Zenon DEF Moves, CurOK, StepsOf
    <3>2. KeyOK(c)
      BY <3>1, Zenon DEF Moves, CurOK
    <3>3. QED
      BY <3>2 DEF KeyOK
  <2>2. ASSUME disk[c.key].created # 0 PROVE disk'[c.key].created # 0
    BY <2>1, <2>2, <1>ContentsStay, Zenon
  <2>3. CASE BeginsFile(t, q, c)
    BY <2>3, Zenon DEF BeginsFile
  <2>4. CASE ImportsFile(t, q, c)
    <3>1. disk[c.key].created # 0
      BY <2>4 DEF ImportsFile
    <3>2. PICK d \in descriptors : d.kind = "file" /\ c.key = d.key /\ c.wanted = {d.object}
      BY <2>4 DEF ImportsFile
    <3>3. Past(d.object, c.key)
      BY <3>2, Zenon DEF PastInv
    <3>4. Past(d.object, c.key)'
      BY <2>1, <3>3, <1>PastStays, Zenon
    <3>5. \A o \in c.wanted : o = d.object
      BY <3>2
    <3>6. QED
      BY <2>2, <3>1, <3>4, <3>5, Zenon
  <2>5. CASE CreatesFile(t, q, c)
    <3>1. cur[t].wanted = {}
      BY <2>5, <1>CreatorAt, Zenon
    <3>2. c.wanted = {}
      BY <2>5, <3>1 DEF CreatesFile, Keeps
    <3>3. disk'[c.key].created # 0
      <4>0. DiskOK
        BY Zenon DEF TypeInv
      <4>1. disk[c.key].created \in Nat
        BY <2>1, <4>0 DEF DiskOK
      <4>2. disk'[c.key].created = disk[c.key].created + 1
        BY <2>1, <2>5, <4>0 DEF CreatesFile, DiskOK
      <4>3. QED
        BY <4>1, <4>2
    <3>4. QED
      BY <3>2, <3>3
  <2>6. CASE Extends(t, q, c) \/ Maps(t, q, c) \/ Measures(t, q, c)
    <3>1. /\ pc[t] \notin {"idle", "create_file"} /\ cur[t].kind = "file"
          /\ cur[t].key = c.key /\ cur[t].wanted = c.wanted
      BY <2>6 DEF Extends, Maps, Measures, Keeps
    <3>2. disk[c.key].created # 0 /\ \A o \in c.wanted : Past(o, c.key)
      <4>1. pc[t] # "idle" /\ pc[t] # "create_file"
        BY <3>1
      <4>2. QED
        BY <3>1, <4>1, Zenon DEF PastInv
    <3>3. ASSUME NEW o \in c.wanted PROVE Past(o, c.key)'
      BY <2>1, <3>2, <1>PastStays, Zenon
    <3>4. QED
      BY <2>2, <3>2, <3>3, Zenon
  <2>7. \/ BeginsFile(t, q, c) \/ ImportsFile(t, q, c) \/ CreatesFile(t, q, c)
        \/ Extends(t, q, c) \/ Maps(t, q, c) \/ Measures(t, q, c)
    <3>1. ~Begins(t, q, c)
      BY Zenon DEF Begins, Moves, CurOK, StepsOf
    <3>2. QED
      BY <3>1, Zenon DEF Moves, GivesUp, Numbers, Creates, Imports
  <2>8. QED
    BY <2>3, <2>4, <2>5, <2>6, <2>7, Zenon

\* Which key it is, named or not.
<1>PastKey.
      ASSUME NEW u, NEW k, cur'[u].key = k, NEW o, Past(o, k)'
      PROVE  Past(o, cur[u].key)'
  BY <1>PastKey DEF Past, Dated, Settled, ContentsOf

\* A step of a thread.
<1>MovesPast.
      ASSUME TypeInv, TypeInv', TicketInv, PastInv, NEW t \in Threads, NEW q, NEW c, Moves(t, q, c)
      PROVE  PastInv'
  <2> USE <1>MovesPast
  <2>1. ASSUME NEW k \in Paths, disk'[k].created # 0 PROVE Past(ContentsOf(k), k)'
    <3>1. CASE ContentsOf(k)' = ContentsOf(k) /\ disk'[k].created = disk[k].created
      <4>1. PICK o : o = ContentsOf(k)
        OBVIOUS
      <4>2. Past(o, k)
        BY <2>1, <3>1, <4>1, Zenon DEF PastInv
      <4>3. Past(o, k)'
        BY <4>2, <1>PastStays, Zenon
      <4>4. QED
        BY <3>1, <4>1, <4>3, Zenon DEF Past, Dated
    <3>2. CASE CreatesFile(t, q, c) /\ k = c.key
               /\ disk'[k].maker = <<process[t], runs[process[t]]>>
      BY <3>2, <1>CreatedIsPast, Zenon
    <3>3. QED
      BY <3>1, <3>2, <1>ContentsStay, Zenon
  <2>2. ASSUME NEW d \in descriptors', d.kind = "file" PROVE Past(d.object, d.key)'
    <3>1. d \in descriptors
      BY <2>2, Zenon DEF Moves
    <3>2. d.key \in Paths
      <4>1. DescriptorOK(d)
        BY <3>1, Zenon DEF TypeInv
      <4>2. QED
        BY <2>2, <4>1 DEF DescriptorOK
    <3>3. Past(d.object, d.key)
      BY <2>2, <3>1, Zenon DEF PastInv
    <3>4. QED
      BY <3>2, <3>3, <1>PastStays, Zenon
  <2>3. ASSUME NEW b \in live', b.kind = "file"
        PROVE  disk'[b.key].created # 0 /\ \A o \in b.wanted : Past(o, b.key)'
    <3>1. b \in live
      BY <2>3, Zenon DEF Moves
    <3>2. b.key \in Paths
      <4>1. LiveOK(b)
        BY <3>1, Zenon DEF TypeInv
      <4>2. QED
        BY <2>3, <4>1 DEF LiveOK, KeyOK
    <3>3. disk[b.key].created # 0 /\ \A o \in b.wanted : Past(o, b.key)
      BY <2>3, <3>1, Zenon DEF PastInv
    <3>4. disk'[b.key].created # 0
      BY <3>2, <3>3, <1>ContentsStay, Zenon
    <3>5. \A o \in b.wanted : Past(o, b.key)'
      BY <3>2, <3>3, <1>PastStays, Zenon
    <3>6. QED
      BY <3>4, <3>5, Zenon
  <2>4. ASSUME NEW u \in Threads, pc'[u] # "idle", cur'[u].kind = "file"
        PROVE  /\ pc'[u] # "create_file" => disk'[cur'[u].key].created # 0
               /\ \A o \in cur'[u].wanted : Past(o, cur[u].key)'
    <3>1. CASE u = t
      <4>1. pc'[u] = q /\ cur'[u] = c
        BY <3>1 DEF Moves, Sets, TypeInv, ThreadsOK
      <4>2. /\ q # "create_file" => disk'[c.key].created # 0
            /\ \A o \in c.wanted : Past(o, c.key)'
        BY <2>4, <4>1, <1>MovedThread, Zenon
      <4>3. QED
        BY <4>1, <4>2, <1>PastKey, Zenon
    <3>2. CASE u # t
      <4>1. pc'[u] = pc[u] /\ cur'[u] = cur[u]
        BY <3>2, Zenon DEF Moves, Sets, TypeInv, ThreadsOK
      <4>2. PICK b : b = cur[u]
        OBVIOUS
      <4>3. /\ pc[u] # "create_file" => disk[b.key].created # 0
            /\ \A o \in b.wanted : Past(o, b.key)
        BY <2>4, <4>1, <4>2, Zenon DEF PastInv
      <4>4. b.key \in Paths
        <5>1. CurOK(u, pc[u], b)
          BY <4>2, AtStep, Zenon DEF TypeInv
        <5>2. b.kind = "file" /\ pc[u] # "idle"
          BY <2>4, <4>1, <4>2
        <5>3. KeyOK(b)
          BY <5>1, <5>2, Zenon DEF CurOK, StepsOf
        <5>4. QED
          BY <5>2, <5>3 DEF KeyOK
      <4>5. ASSUME NEW o \in b.wanted PROVE Past(o, b.key)'
        BY <4>3, <4>4, <1>PastStays, Zenon
      <4>6. pc[u] # "create_file" => disk'[b.key].created # 0
        BY <4>3, <4>4, <1>ContentsStay, Zenon
      <4>7. QED
        BY <4>1, <4>2, <4>5, <4>6, <1>PastKey, Zenon
    <3>3. QED
      BY <3>1, <3>2
  <2>5. QED
    BY <2>1, <2>2, <2>3, <2>4, Zenon DEF PastInv

\* A step that touches no file, in which no thread comes to create one.
<1>QuietPast.
      ASSUME UNCHANGED <<runs, files, disk>>,
             \A u \in Threads : pc'[u] = "create_file" => pc[u] = "create_file" /\ cur'[u] = cur[u],
             NEW o, NEW k, Past(o, k)
      PROVE  Past(o, k)'
  <2> USE <1>QuietPast
  <2>1. \A p : Settled(p, k) => Settled(p, k)'
    BY Zenon DEF Settled
  <2>2. Dated(o, k) => Dated(o, k)'
    BY <2>1, Zenon DEF Dated
  <2>3. QED
    BY <2>2, Zenon DEF Past, ContentsOf

\* A restart: the runs before it are past.
<1>RestartPast.
      ASSUME TypeInv, NEW p \in Processes, restart(p), NEW o, NEW k, Past(o, k)
      PROVE  Past(o, k)'
  <2> USE <1>RestartPast
  <2>0. PICK s \in Processes : \E r \in 1..runs[s] :
          o.maker = <<s, r>> /\ (r = runs[s] => Settled(s, k))
    BY Zenon DEF Past, Dated
  <2>1. PICK r \in 1..runs[s] : o.maker = <<s, r>> /\ (r = runs[s] => Settled(s, k))
    BY <2>0
  <2>2. runs[s] \in 1..(MaxRestarts + 1)
    BY DEF TypeInv, CountersOK
  <2>3. CASE s = p
    <3>1. runs'[s] = runs[s] + 1
      BY <2>3 DEF restart, TypeInv, CountersOK
    <3>2. r \in 1..runs'[s] /\ r # runs'[s]
      BY <2>2, <3>1, SegmentsAssumption
    <3>3. Dated(o, k)'
      BY <2>1, <3>2, Zenon DEF Dated
    <3>4. disk' = disk
      BY Zenon DEF restart
    <3>5. QED
      BY <3>3, <3>4, Zenon DEF Past, ContentsOf
  <2>4. CASE s # p
    <3>1. runs'[s] = runs[s] /\ files'[s] = files[s]
      <4>1. CountersOK
        BY Zenon DEF TypeInv
      <4>2. QED
        BY <2>4, <4>1 DEF restart, CountersOK
    <3>2. ASSUME NEW u \in Threads, process[u] = s PROVE pc'[u] = pc[u] /\ cur'[u] = cur[u]
      BY <2>4, <3>2 DEF restart
    <3>3. Settled(s, k) => Settled(s, k)'
      BY <3>1, <3>2, Zenon DEF Settled
    <3>4. Dated(o, k)'
      BY <2>1, <3>1, <3>3, Zenon DEF Dated
    <3>5. disk' = disk
      BY DEF restart
    <3>6. QED
      BY <3>4, <3>5, Zenon DEF Past, ContentsOf
  <2>5. QED
    BY <2>3, <2>4

\* A step that touches no file: it brings descriptors of contents that are past,
\* and backings that some thread was making.
<1>CarriedPast.
      ASSUME PastInv, disk' = disk,
             \A o, k : Past(o, k) => Past(o, k)',
             \A d \in descriptors' :
               d \in descriptors \/ (d.kind = "file" => Past(d.object, d.key)),
             \A b \in live' : \/ b \in live
                              \/ \E t \in Threads : /\ Keeps(b, cur[t])
                                                    /\ pc[t] # "idle" /\ pc[t] # "create_file",
             \A u \in Threads : pc'[u] # "idle" => pc'[u] = pc[u] /\ cur'[u] = cur[u]
      PROVE  PastInv'
  <2> USE <1>CarriedPast
  <2>1. ASSUME NEW k \in Paths, disk'[k].created # 0 PROVE Past(ContentsOf(k), k)'
    <3>1. PICK o : o = ContentsOf(k)
      OBVIOUS
    <3>2. Past(o, k)
      BY <2>1, <3>1, Zenon DEF PastInv
    <3>3. Past(o, k)'
      BY <3>2, Zenon
    <3>4. ContentsOf(k)' = o
      BY <3>1 DEF ContentsOf
    <3>5. QED
      BY <3>3, <3>4, Zenon DEF Past, Dated
  <2>2. ASSUME NEW d \in descriptors', d.kind = "file" PROVE Past(d.object, d.key)'
    BY <2>2, Zenon DEF PastInv
  <2>3. ASSUME NEW b \in live', b.kind = "file"
        PROVE  disk'[b.key].created # 0 /\ \A o \in b.wanted : Past(o, b.key)'
    <3>1. CASE b \in live
      BY <2>3, <3>1, Zenon DEF PastInv
    <3>2. CASE \E t \in Threads : /\ Keeps(b, cur[t])
                                  /\ pc[t] # "idle" /\ pc[t] # "create_file"
      BY <2>3, <3>2, Zenon DEF PastInv, Keeps
    <3>3. QED
      BY <3>1, <3>2, Zenon
  <2>4. ASSUME NEW u \in Threads, pc'[u] # "idle", cur'[u].kind = "file"
        PROVE  /\ pc'[u] # "create_file" => disk'[cur'[u].key].created # 0
               /\ \A o \in cur'[u].wanted : Past(o, cur[u].key)'
    <3>1. pc'[u] = pc[u] /\ cur'[u] = cur[u]
      BY <2>4
    <3>2. PICK b : b = cur[u]
      OBVIOUS
    <3>3. /\ pc[u] # "create_file" => disk[b.key].created # 0
          /\ \A o \in b.wanted : Past(o, b.key)'
      BY <2>4, <3>1, <3>2, Zenon DEF PastInv
    <3>4. QED
      BY <3>1, <3>2, <3>3, <1>PastKey, Zenon
  <2>5. QED
    BY <2>1, <2>2, <2>3, <2>4, Zenon DEF PastInv

<1> SUFFICES ASSUME TypeInv, TypeInv', MapInv, TicketInv, PastInv, [Next]_vars PROVE PastInv'
  OBVIOUS
<1>1. ASSUME NEW t \in Threads, NEW c, Hands(t, c) PROVE PastInv'
  <2>1. UNCHANGED <<runs, files, disk, descriptors>> /\ live' = live \cup {c}
    BY <1>1 DEF Hands
  <2>2. \A u \in Threads : pc'[u] # "idle" => pc'[u] = pc[u] /\ cur'[u] = cur[u]
    BY <1>1 DEF Hands, Sets, TypeInv, ThreadsOK
  <2>3. \A o, k : Past(o, k) => Past(o, k)'
    <3>1. \A u \in Threads :
            pc'[u] = "create_file" => pc[u] = "create_file" /\ cur'[u] = cur[u]
      BY <2>2
    <3>2. QED
      BY <2>1, <3>1, <1>QuietPast, Zenon
  <2>4. Keeps(c, cur[t]) /\ pc[t] # "idle" /\ pc[t] # "create_file"
    BY <1>1, Zenon DEF Hands
  <2>5. QED
    BY <2>1, <2>2, <2>3, <2>4, <1>CarriedPast, Zenon
<1>2. ASSUME UNCHANGED <<runs, files, disk, pc, cur>>, live' \subseteq live,
             \A d \in descriptors' :
               d \in descriptors \/ (d.kind = "file" => Past(d.object, d.key))
      PROVE  PastInv'
  <2>1. \A o, k : Past(o, k) => Past(o, k)'
    BY <1>2, <1>QuietPast, Zenon
  <2>2. QED
    BY <1>2, <2>1, <1>CarriedPast, Zenon
<1>3. ASSUME NEW t \in Threads, NEW b \in live, free(t, b) PROVE PastInv'
  <2>1. UNCHANGED <<runs, files, disk, pc, cur, descriptors>> /\ live' \subseteq live
    BY <1>3 DEF free
  <2>2. QED
    BY <1>2, <2>1, Zenon
<1>4. ASSUME NEW t \in Threads, NEW b \in live, NEW size \in Sizes, export_handle(t, b, size)
      PROVE  PastInv'
  <2>1. UNCHANGED <<runs, files, disk, pc, cur>> /\ live' \subseteq live
    BY <1>4 DEF export_handle
  <2>2. ASSUME NEW d \in descriptors', d \notin descriptors
        PROVE  d.kind = b.kind /\ d.key = b.key /\ d.object = b.object
    BY <1>4, <2>2 DEF export_handle
  <2>3. ASSUME b.kind = "file" PROVE Past(b.object, b.key)
    <3>1. b.object = ContentsOf(b.key)
      BY <2>3, Zenon DEF MapInv, Intact
    <3>2. disk[b.key].created # 0
      BY <2>3, Zenon DEF PastInv
    <3>3. b.key \in Paths
      BY <2>3 DEF TypeInv, LiveOK, KeyOK
    <3>4. QED
      BY <3>1, <3>2, <3>3, Zenon DEF PastInv
  <2>4. \A d \in descriptors' : d \in descriptors \/ (d.kind = "file" => Past(d.object, d.key))
    BY <2>2, <2>3, Zenon
  <2>5. QED
    BY <1>2, <2>1, <2>4, Zenon
<1>5. ASSUME NEW p \in Processes, restart(p) PROVE PastInv'
  <2>1. disk' = disk /\ descriptors' = descriptors /\ live' \subseteq live
    BY <1>5 DEF restart
  <2>2. \A u \in Threads : pc'[u] # "idle" => pc'[u] = pc[u] /\ cur'[u] = cur[u]
    BY <1>5 DEF restart
  <2>3. \A o, k : Past(o, k) => Past(o, k)'
    BY <1>5, <1>RestartPast, Zenon
  <2>4. QED
    BY <2>1, <2>2, <2>3, <1>CarriedPast, Zenon
<1>6. CASE UNCHANGED vars
  <2>1. UNCHANGED <<runs, files, disk, pc, cur, descriptors>> /\ live' \subseteq live
    BY <1>6 DEF vars
  <2>2. QED
    BY <1>2, <2>1, Zenon
<1>7. QED
  BY <1>1, <1>3, <1>4, <1>5, <1>6, StepKinds, <1>MovesPast, Zenon

\* Within one run of one process a path stands for one allocation, and the
\* descriptor of a file opens the contents it was exported with, unless another
\* run created the path again.  CREATE_ALWAYS would cut a file that an older
\* allocation of the run wrote, were a number used twice.
THEOREM PathsArePrivateInRun == Spec => []PathsPrivateInRun
<1>1. Init => MapInv
  BY DEF Init, MapInv
<1>2. Init => PastInv
  BY DEF Init, PastInv
<1>3. TypeInv /\ MapInv /\ TicketInv /\ PastInv => PathsPrivateInRun
  <2> SUFFICES ASSUME TypeInv, MapInv, TicketInv, PastInv PROVE PathsPrivateInRun
    OBVIOUS
  <2>1. ASSUME NEW b \in live, NEW c \in live, b.kind = "file", c.kind = "file",
               c.key = b.key, c.owner = b.owner, b.wanted = {}, c.wanted = {}
        PROVE  b = c
    <3>1. b \in Made /\ c \in Made
      BY <2>1 DEF Made
    <3>2. Ticket(b) = b.key /\ Ticket(c) = c.key
      BY <2>1 DEF Ticket
    <3>3. Same(b, c)
      BY <2>1, <3>2, Zenon DEF Same
    <3>4. QED
      BY <3>1, <3>3, Zenon DEF TicketInv
  <2>2. ASSUME NEW b \in live, b.kind = "file", NEW o \in b.wanted, o.maker = b.object.maker
        PROVE  o = b.object
    <3>1. b.object = ContentsOf(b.key) /\ Past(o, b.key)
      BY <2>2, Zenon DEF MapInv, Intact, PastInv
    <3>2. ContentsOf(b.key).maker = disk[b.key].maker
      BY DEF ContentsOf
    <3>3. QED
      BY <2>2, <3>1, <3>2, Zenon DEF Past
  <2>3. QED
    BY <2>1, <2>2, Zenon DEF PathsPrivateInRun
<1>4. QED
  BY <1>1, <1>2, <1>3, TypeInvariant, TicketInvariant, NextMap, NextPast, PTL DEF Spec
-----------------------------------------------------------------------------
(***************************************************************************)
(* The handles that are open.                                              *)
(***************************************************************************)
HoldsOf(S) == SumFunction([b \in S |-> Cardinality(b.holds)])
HoldsIn(k, S) == SumFunction([t \in S |-> Cardinality(k[t].holds)])

\* The backings and the threads of a process.
Of(p) == {c \in live : c.owner = p}
ThreadsOf(p) == {u \in Threads : process[u] = p}

\* Every backing of the set is counted by an integer.
Countable(S) == IsFiniteSet(S) /\ \A b \in S : Cardinality(b.holds) \in Int

\* Of the threads in S only t has another backing in m than in k.
Differ(S, k, m, t) ==
  /\ IsFiniteSet(S)
  /\ \A u \in S : Cardinality(k[u].holds) \in Int /\ Cardinality(m[u].holds) \in Int
  /\ \A u \in S : u # t => m[u] = k[u]

\* Nothing is open.
LEMMA HoldsNone ==
  ASSUME NEW S, IsFiniteSet(S), NEW k, \A u \in S : k[u] = NoBacking
  PROVE  HoldsIn(k, S) = 0 /\ HoldsOf({}) = 0
<1>1. PICK f : f = [u \in S |-> Cardinality(k[u].holds)]
  BY Zenon
<1>2. \A u \in S : f[u] = 0
  BY <1>1, FS_EmptySet DEF NoBacking
<1>3. SumFunctionOnSet(f, S) = 0
  BY <1>2, SumZero, Zenon
<1>4. HoldsIn(k, S) = 0
  BY <1>1, <1>3 DEF HoldsIn, SumFunction
<1>5. PICK g : g = [b \in {} |-> Cardinality(b.holds)]
  OBVIOUS
<1>6. HoldsOf({}) = SumFunctionOnSet(g, {})
  BY <1>5 DEF HoldsOf, SumFunction
<1>7. QED
  BY <1>4, <1>6, SumEmpty, Zenon

HandlesInv == \A p \in Processes : handles[p] = HoldsOf(Of(p)) + HoldsIn(cur, ThreadsOf(p))

\* and so can its threads.
LEMMA ThreadsFinite ==
  ASSUME NEW p PROVE IsFiniteSet(ThreadsOf(p)) /\ ThreadsOf(p) \subseteq Threads
BY SegmentsAssumption, FS_Subset DEF ThreadsOf

\* Every step.
LEMMA NextHandles == TypeInv /\ TypeInv' /\ HandlesInv /\ [Next]_vars => HandlesInv'
\* The handles of a set of backings are a number.
<1>HoldsInt. ASSUME NEW S, Countable(S) PROVE HoldsOf(S) \in Int
  <2> USE <1>HoldsInt
  <2>1. PICK f : f = [b \in S |-> Cardinality(b.holds)]
    BY Zenon
  <2>2. HoldsOf(S) = SumFunctionOnSet(f, S)
    BY <2>1 DEF HoldsOf, SumFunction
  <2>3. IsFiniteSet(S) /\ \A b \in S : f[b] \in Int
    BY <2>1 DEF Countable
  <2>4. QED
    BY <2>2, <2>3, SumInt, Zenon

\* The handles of a set with one backing more.
<1>HoldsAdd.
      ASSUME NEW S, Countable(S), NEW c, c \notin S, Cardinality(c.holds) \in Int
      PROVE  HoldsOf(S \cup {c}) = HoldsOf(S) + Cardinality(c.holds) /\ HoldsOf(S) \in Int
  <2> USE <1>HoldsAdd
  <2>1. PICK T : T = S \cup {c}
    BY Zenon
  <2>2. PICK f : f = [b \in S |-> Cardinality(b.holds)]
    BY Zenon
  <2>3. PICK g : g = [b \in T |-> Cardinality(b.holds)]
    BY Zenon
  <2>4. HoldsOf(S) = SumFunctionOnSet(f, S) /\ HoldsOf(T) = SumFunctionOnSet(g, T)
    BY <2>2, <2>3 DEF HoldsOf, SumFunction
  <2>5. /\ \A b \in S : f[b] \in Int /\ f[b] = g[b]
        /\ \A b \in T : g[b] \in Int
        /\ g[c] = Cardinality(c.holds)
    BY <2>1, <2>2, <2>3 DEF Countable
  <2>6. IsFiniteSet(S)
    BY DEF Countable
  <2>7. SumFunctionOnSet(g, S \cup {c}) = SumFunctionOnSet(g, S) + g[c]
    BY <2>1, <2>5, <2>6, SumAdd, Zenon
  <2>8. SumFunctionOnSet(f, S) = SumFunctionOnSet(g, S)
    BY <2>5, <2>6, SumSame, Zenon
  <2>9. SumFunctionOnSet(f, S) \in Int
    BY <2>5, <2>6, SumInt, Zenon
  <2>10. QED
    BY <2>1, <2>4, <2>5, <2>7, <2>8, <2>9, Zenon

\* What the threads hold changes by what t holds.
<1>HoldsSet.
      ASSUME NEW S, NEW k, NEW m, NEW t, Differ(S, k, m, t)
      PROVE  /\ HoldsIn(k, S) \in Int
             /\ t \notin S => HoldsIn(m, S) = HoldsIn(k, S)
             /\ t \in S => HoldsIn(m, S) =
                  HoldsIn(k, S) - Cardinality(k[t].holds) + Cardinality(m[t].holds)
  <2> USE <1>HoldsSet
  <2>1. IsFiniteSet(S)
    BY DEF Differ
  <2>2. PICK f : f = [u \in S |-> Cardinality(k[u].holds)]
    BY Zenon
  <2>3. PICK g : g = [u \in S |-> Cardinality(m[u].holds)]
    BY Zenon
  <2>4. HoldsIn(k, S) = SumFunctionOnSet(f, S) /\ HoldsIn(m, S) = SumFunctionOnSet(g, S)
    BY <2>2, <2>3 DEF HoldsIn, SumFunction
  <2>5. /\ \A u \in S : f[u] \in Int
        /\ \A u \in S : g[u] \in Int
        /\ \A u \in S \ {t} : f[u] = g[u]
        /\ t \in S => f[t] = Cardinality(k[t].holds) /\ g[t] = Cardinality(m[t].holds)
    BY <2>2, <2>3 DEF Differ
  <2>6. SumFunctionOnSet(f, S) \in Int
    BY <2>1, <2>5, SumInt, Zenon
  <2>7. /\ SumFunctionOnSet(g, S) = SumFunctionOnSet(f, S) - Part(f, S, t) + Part(g, S, t)
        /\ Part(f, S, t) \in Int /\ Part(g, S, t) \in Int
    BY <2>1, <2>5, SumChange
  <2>8. CASE t \in S
    <3>1. Part(f, S, t) = f[t] /\ Part(g, S, t) = g[t]
      BY <2>8 DEF Part
    <3>2. QED
      BY <2>4, <2>5, <2>6, <2>7, <2>8, <3>1, Zenon
  <2>9. CASE t \notin S
    <3>1. Part(f, S, t) = 0 /\ Part(g, S, t) = 0
      BY <2>9 DEF Part
    <3>2. PICK n \in Int : n = SumFunctionOnSet(f, S)
      BY <2>6
    <3>3. SumFunctionOnSet(g, S) = n - 0 + 0
      BY <2>7, <3>1, <3>2, Zenon
    <3>4. SumFunctionOnSet(g, S) = n
      BY <3>3
    <3>5. QED
      BY <2>4, <2>6, <2>9, <3>2, <3>4, Zenon
  <2>10. QED
    BY <2>8, <2>9

\* What a thread and a backing hold is a number.
<1>ThreadHolds.
      ASSUME TypeInv, NEW t \in Threads
      PROVE  Cardinality(cur[t].holds) \in Int
  BY <1>ThreadHolds, AtStep, HoldsFinite DEF TypeInv

\* So is what a backing holds.
<1>LiveHolds.
      ASSUME TypeInv, NEW b \in live
      PROVE  Cardinality(b.holds) \in Int
  <2> USE <1>LiveHolds
  <2>1. b.holds = HoldsAt(b.kind, "map_view") \cup {"view"}
    BY DEF TypeInv, LiveOK
  <2>2. b.holds \in SUBSET {"file", "map", "view"}
    BY <2>1 DEF HoldsAt
  <2>3. QED
    BY <2>2, HoldsFinite

\* The backings of a process can be counted,
<1>OfCountable. ASSUME TypeInv, NEW p PROVE Countable(Of(p))
  <2> USE <1>OfCountable
  <2>1. IsFiniteSet(Of(p)) /\ Of(p) \subseteq live
    BY FS_Subset DEF TypeInv, Of
  <2>2. QED
    BY <2>1, <1>LiveHolds, Zenon DEF Countable

\* The handles of the threads of r, after a step of t.
<1>ThreadSteps.
      ASSUME TypeInv, TypeInv', NEW t \in Threads, NEW q, NEW b, Sets(t, q, b), NEW r
      PROVE  /\ HoldsIn(cur, ThreadsOf(r)) \in Int
             /\ r # process[t] => HoldsIn(cur, ThreadsOf(r))' = HoldsIn(cur, ThreadsOf(r))
             /\ r = process[t] => HoldsIn(cur, ThreadsOf(r))' =
                  HoldsIn(cur, ThreadsOf(r)) - Cardinality(cur[t].holds) + Cardinality(b.holds)
  <2> USE <1>ThreadSteps
  <2>1. PICK S, k, m : S = ThreadsOf(r) /\ k = cur /\ m = cur'
    OBVIOUS
  <2>2. IsFiniteSet(S) /\ S \subseteq Threads /\ (t \in S <=> r = process[t])
    BY <2>1, ThreadsFinite DEF ThreadsOf
  <2>3. \A u \in S : Cardinality(k[u].holds) \in Int /\ Cardinality(m[u].holds) \in Int
    <3>1. SUFFICES ASSUME NEW u \in Threads
                   PROVE  Cardinality(cur[u].holds) \in Int /\ Cardinality(cur'[u].holds) \in Int
      BY <2>1, <2>2, Zenon
    <3>2. cur[u].holds \in SUBSET {"file", "map", "view"}
      BY AtStep, Zenon DEF TypeInv
    <3>3. cur'[u].holds \in SUBSET {"file", "map", "view"}
      <4>1. CurOK(u, pc[u], cur[u])'
        BY DEF TypeInv, ThreadsOK
      <4>2. QED
        BY <4>1, SMTT(30) DEF CurOK, NoBacking, HoldsAt
    <3>4. QED
      BY <3>2, <3>3, HoldsFinite
  <2>4. m[t] = b /\ \A u \in S : u # t => m[u] = k[u]
    BY <2>1, <2>2 DEF Sets, TypeInv, ThreadsOK
  <2>5. /\ HoldsIn(k, S) \in Int
        /\ t \notin S => HoldsIn(m, S) = HoldsIn(k, S)
        /\ t \in S => HoldsIn(m, S) =
             HoldsIn(k, S) - Cardinality(k[t].holds) + Cardinality(m[t].holds)
    <3>1. Differ(S, k, m, t)
      BY <2>2, <2>3, <2>4, Zenon DEF Differ
    <3>2. QED
      BY <3>1, <1>HoldsSet, SMTT(30)
  <2>6. HoldsIn(cur, ThreadsOf(r)) = HoldsIn(k, S) /\ HoldsIn(cur, ThreadsOf(r))' = HoldsIn(m, S)
    BY <2>1, Zenon DEF HoldsIn, ThreadsOf
  <2>7. QED
    BY <2>1, <2>2, <2>4, <2>5, <2>6, Zenon

\* A step of a thread opens and closes what its backing gains and loses.
<1>MovesHandles.
      ASSUME TypeInv, TypeInv', HandlesInv, NEW t \in Threads, NEW q, NEW c, Moves(t, q, c)
      PROVE  HandlesInv'
  <2> USE <1>MovesHandles
  <2>1. SUFFICES ASSUME NEW r \in Processes
                 PROVE  handles'[r] = HoldsOf(Of(r))' + HoldsIn(cur, ThreadsOf(r))'
    BY Zenon DEF HandlesInv
  <2>2. Of(r)' = Of(r)
    BY Zenon DEF Of, Moves
  <2>3. PICK n, k, m, a, b : /\ n = HoldsOf(Of(r)) /\ k = HoldsIn(cur, ThreadsOf(r))
                             /\ m = HoldsIn(cur, ThreadsOf(r))'
                             /\ a = Cardinality(cur[t].holds) /\ b = Cardinality(c.holds)
    BY Zenon
  <2>4. HoldsOf(Of(r))' = n
    BY <2>2, <2>3, Zenon DEF HoldsOf
  <2>5. /\ k \in Int /\ (r # process[t] => m = k) /\ (r = process[t] => m = k - a + b)
    BY <2>3, <1>ThreadSteps, Zenon DEF Moves
  <2>6. handles[r] = n + k
    BY <2>3, Zenon DEF HandlesInv
  <2>7. handles'[r] = IF r = process[t] THEN handles[r] + b - a ELSE handles[r]
    BY <2>3, Zenon DEF Moves, TypeInv, CountersOK
  <2>8. n \in Int
    BY <2>3, <1>OfCountable, <1>HoldsInt, Zenon
  <2>9. a \in Int /\ b \in Int
    <3>1. a \in Int
      BY <2>3, <1>ThreadHolds, Zenon
    <3>2. CurOK(t, q, c)
      BY Zenon DEF Moves
    <3>3. c.holds \in SUBSET {"file", "map", "view"}
      BY <3>2, CurHolds, Zenon
    <3>4. Cardinality(c.holds) \in Nat
      BY <3>3, HoldsFinite, Zenon
    <3>5. \A x \in Nat : x \in Int
      OBVIOUS
    <3>6. QED
      BY <2>3, <3>1, <3>4, <3>5, Zenon
  <2>10. handles'[r] = n + m
    <3>1. CASE r = process[t]
      BY <2>5, <2>6, <2>7, <2>8, <2>9, <3>1
    <3>2. CASE r # process[t]
      BY <2>5, <2>6, <2>7, <3>2
    <3>3. QED
      BY <3>1, <3>2
  <2>11. QED
    BY <2>3, <2>4, <2>10, Zenon

\* The returned backing holds what its thread held, and the view.
<1>HandsHandles.
      ASSUME TypeInv, TypeInv', HandlesInv, NEW t \in Threads, NEW c, Hands(t, c)
      PROVE  HandlesInv'
  <2> USE <1>HandsHandles
  <2>1. SUFFICES ASSUME NEW r \in Processes
                 PROVE  handles'[r] = HoldsOf(Of(r))' + HoldsIn(cur, ThreadsOf(r))'
    BY Zenon DEF HandlesInv
  <2>2. PICK n, k, m, a : /\ n = HoldsOf(Of(r)) /\ k = HoldsIn(cur, ThreadsOf(r))
                          /\ m = HoldsIn(cur, ThreadsOf(r))'
                          /\ a = Cardinality(cur[t].holds)
    OBVIOUS
  <2>3. k \in Int /\ (r # process[t] => m = k) /\ (r = process[t] => m = k - a + 0)
    <3>1. Cardinality(NoBacking.holds) = 0
      BY FS_EmptySet DEF NoBacking
    <3>2. QED
      BY <2>2, <3>1, <1>ThreadSteps, Zenon DEF Hands
  <2>4. handles[r] = n + k
    BY <2>2, Zenon DEF HandlesInv
  <2>5. handles'[r] = IF r = process[t] THEN handles[r] + 1 ELSE handles[r]
    BY DEF Hands, TypeInv, CountersOK
  <2>6. n \in Int /\ a \in Int
    BY <2>2, <1>OfCountable, <1>HoldsInt, <1>ThreadHolds, Zenon
  <2>7. Cardinality(c.holds) = a + 1
    <3>1. cur[t].holds \in SUBSET {"file", "map", "view"}
      BY AtStep DEF TypeInv
    <3>2. c.holds = cur[t].holds \cup {"view"} /\ "view" \notin cur[t].holds
      BY DEF Hands
    <3>3. QED
      BY <2>2, <3>1, <3>2, HoldsOpened, Zenon
  <2>8. HoldsOf(Of(r))' = IF r = process[t] THEN n + (a + 1) ELSE n
    <3>1. live' = live \cup {c} /\ c \notin live /\ c.owner = process[t]
      BY DEF Hands
    <3>2. CASE r = process[t]
      <4>1. PICK S : S = Of(r)
        OBVIOUS
      <4>2. Of(r)' = S \cup {c} /\ c \notin S
        BY <3>1, <3>2, <4>1 DEF Of
      <4>3. Countable(S) /\ Cardinality(c.holds) \in Int
        BY <2>6, <2>7, <4>1, <1>OfCountable
      <4>4. HoldsOf(S \cup {c}) = HoldsOf(S) + Cardinality(c.holds)
        BY <4>2, <4>3, <1>HoldsAdd, Zenon
      <4>5. HoldsOf(Of(r))' = HoldsOf(S \cup {c})
        BY <4>2, Zenon DEF HoldsOf
      <4>6. QED
        BY <2>2, <2>7, <3>2, <4>1, <4>4, <4>5, Zenon
    <3>3. CASE r # process[t]
      <4>1. Of(r)' = Of(r)
        BY <3>1, <3>3 DEF Of
      <4>2. QED
        BY <2>2, <3>3, <4>1, Zenon DEF HoldsOf
    <3>4. QED
      BY <3>2, <3>3
  <2>9. PICK s : s = HoldsOf(Of(r))'
    OBVIOUS
  <2>10. handles'[r] = s + m
    BY <2>3, <2>4, <2>5, <2>6, <2>8, <2>9
  <2>11. QED
    BY <2>2, <2>9, <2>10, Zenon

\* free closes what the backing holds.
<1>FreeHandles.
      ASSUME TypeInv, TypeInv', HandlesInv, NEW t \in Threads, NEW c \in live, free(t, c)
      PROVE  HandlesInv'
  <2> USE <1>FreeHandles
  <2>1. SUFFICES ASSUME NEW r \in Processes
                 PROVE  handles'[r] = HoldsOf(Of(r))' + HoldsIn(cur, ThreadsOf(r))'
    BY Zenon DEF HandlesInv
  <2>2. PICK n, k, a, s : /\ n = HoldsOf(Of(r)) /\ k = HoldsIn(cur, ThreadsOf(r))
                          /\ a = Cardinality(c.holds) /\ s = HoldsOf(Of(r))'
    OBVIOUS
  <2>3. HoldsIn(cur, ThreadsOf(r))' = k
    BY <2>2 DEF free, HoldsIn, ThreadsOf
  <2>4. handles[r] = n + k
    BY <2>2, Zenon DEF HandlesInv
  <2>5. handles'[r] = IF r = process[t] THEN handles[r] - a ELSE handles[r]
    <3>1. Destroyed(c) = c.holds
      BY AllDestroyed DEF TypeInv
    <3>2. QED
      BY <2>2, <3>1, Zenon DEF free, TypeInv, CountersOK
  <2>6. a \in Int
    BY <2>2, <1>LiveHolds, Zenon
  <2>7. s \in Int
    <3>1. Countable(Of(r)')
      <4>1. IsFiniteSet(Of(r)) /\ \A b \in Of(r) : Cardinality(b.holds) \in Int
        BY <1>OfCountable, Zenon DEF Countable
      <4>2. Of(r)' \subseteq Of(r)
        BY DEF Of, free
      <4>3. QED
        BY <4>1, <4>2, FS_Subset, Zenon DEF Countable
    <3>2. s = HoldsOf(Of(r)')
      BY <2>2, Zenon DEF HoldsOf
    <3>3. QED
      BY <3>1, <3>2, <1>HoldsInt, Zenon
  <2>8. n = IF r = process[t] THEN s + a ELSE s
    <3>1. live' = live \ {c} /\ c.owner = process[t]
      BY DEF free
    <3>2. CASE r = process[t]
      <4>1. PICK S : S = Of(r)'
        OBVIOUS
      <4>2. Of(r) = S \cup {c} /\ c \notin S
        BY <3>1, <3>2, <4>1 DEF Of
      <4>3. Countable(S)
        <5>1. IsFiniteSet(Of(r)) /\ \A b \in Of(r) : Cardinality(b.holds) \in Int
          BY <1>OfCountable, Zenon DEF Countable
        <5>2. S \subseteq Of(r)
          BY <4>2
        <5>3. QED
          BY <5>1, <5>2, FS_Subset, Zenon DEF Countable
      <4>4. HoldsOf(S \cup {c}) = HoldsOf(S) + Cardinality(c.holds)
        BY <2>2, <2>6, <4>2, <4>3, <1>HoldsAdd, Zenon
      <4>5. s = HoldsOf(S)
        BY <2>2, <4>1 DEF HoldsOf
      <4>6. QED
        BY <2>2, <3>2, <4>2, <4>4, <4>5, Zenon
    <3>3. CASE r # process[t]
      <4>1. Of(r)' = Of(r)
        BY <3>1, <3>3 DEF Of
      <4>2. QED
        BY <2>2, <3>3, <4>1, Zenon DEF HoldsOf
    <3>4. QED
      BY <3>2, <3>3
  <2>9. k \in Int
    <3>1. handles[r] \in Int /\ n \in Int
      BY <2>2, <1>OfCountable, <1>HoldsInt DEF TypeInv, CountersOK
    <3>2. PICK S, f : S = ThreadsOf(r) /\ f = [u \in S |-> Cardinality(cur[u].holds)]
      BY Zenon
    <3>3. IsFiniteSet(S) /\ \A u \in S : f[u] \in Int
      BY <3>2, ThreadsFinite, <1>ThreadHolds
    <3>4. k = SumFunctionOnSet(f, S)
      BY <2>2, <3>2, Zenon DEF HoldsIn, SumFunction
    <3>5. QED
      BY <3>3, <3>4, SumInt, Zenon
  <2>10. handles'[r] = s + k
    BY <2>4, <2>5, <2>6, <2>7, <2>8, <2>9
  <2>11. QED
    BY <2>2, <2>3, <2>10, Zenon

\* All handles of a process that ends are closed.
<1>RestartHandles.
      ASSUME TypeInv, TypeInv', HandlesInv, NEW p \in Processes, restart(p)
      PROVE  HandlesInv'
  <2> USE <1>RestartHandles
  <2>1. SUFFICES ASSUME NEW r \in Processes
                 PROVE  handles'[r] = HoldsOf(Of(r))' + HoldsIn(cur, ThreadsOf(r))'
    BY Zenon DEF HandlesInv
  <2>2. PICK S, m : S = ThreadsOf(r) /\ m = cur'
    OBVIOUS
  <2>3. IsFiniteSet(S) /\ S \subseteq Threads /\ \A u \in S : process[u] = r
    BY <2>2, ThreadsFinite, Zenon DEF ThreadsOf
  <2>4. HoldsIn(cur, ThreadsOf(r))' = HoldsIn(m, S)
    BY <2>2 DEF HoldsIn, ThreadsOf
  <2>5. CASE r = p
    <3>1. \A u \in S : m[u] = NoBacking
      BY <2>2, <2>3, <2>5 DEF restart
    <3>2. HoldsIn(m, S) = 0 /\ HoldsOf({}) = 0
      BY <2>3, <3>1, HoldsNone, Zenon
    <3>3. Of(r)' = {}
      BY <2>5 DEF Of, restart
    <3>4. HoldsOf(Of(r))' = 0
      BY <3>2, <3>3, Zenon DEF HoldsOf
    <3>5. handles'[r] = 0
      BY <2>5 DEF restart, TypeInv, CountersOK
    <3>6. 0 = 0 + 0
      OBVIOUS
    <3>7. QED
      BY <2>4, <3>2, <3>4, <3>5, <3>6, Zenon
  <2>6. CASE r # p
    <3>1. handles'[r] = handles[r]
      BY <2>6 DEF restart, TypeInv, CountersOK
    <3>2. Of(r)' = Of(r)
      BY <2>6 DEF Of, restart
    <3>3. HoldsOf(Of(r))' = HoldsOf(Of(r))
      BY <3>2, Zenon DEF HoldsOf
    <3>4. \A u \in S : m[u] = cur[u]
      BY <2>2, <2>3, <2>6 DEF restart
    <3>5. HoldsIn(m, S) = HoldsIn(cur, S)
      <4>1. [u \in S |-> Cardinality(m[u].holds)] = [u \in S |-> Cardinality(cur[u].holds)]
        BY <3>4
      <4>2. QED
        BY <4>1, Zenon DEF HoldsIn
    <3>6. QED
      BY <2>2, <2>4, <3>1, <3>3, <3>5, Zenon DEF HandlesInv
  <2>7. QED
    BY <2>5, <2>6

<1> SUFFICES ASSUME TypeInv, TypeInv', HandlesInv, [Next]_vars PROVE HandlesInv'
  OBVIOUS
<1>1. ASSUME UNCHANGED <<live, cur, handles>> PROVE HandlesInv'
  <2>1. ASSUME NEW r PROVE /\ HoldsOf(Of(r))' = HoldsOf(Of(r))
                           /\ HoldsIn(cur, ThreadsOf(r))' = HoldsIn(cur, ThreadsOf(r))
    BY <1>1 DEF HoldsOf, Of, HoldsIn, ThreadsOf
  <2>2. QED
    BY <1>1, <2>1, Zenon DEF HandlesInv
<1>2. ASSUME NEW t \in Threads, NEW b \in live, NEW size \in Sizes, export_handle(t, b, size)
      PROVE  HandlesInv'
  <2>1. UNCHANGED <<live, cur, handles>>
    BY <1>2 DEF export_handle
  <2>2. QED
    BY <1>1, <2>1, Zenon
<1>3. CASE UNCHANGED vars
  <2>1. UNCHANGED <<live, cur, handles>>
    BY <1>3 DEF vars
  <2>2. QED
    BY <1>1, <2>1, Zenon
<1>4. QED
  BY <1>2, <1>3, StepKinds, <1>MovesHandles, <1>HandsHandles, <1>FreeHandles,
     <1>RestartHandles, Zenon

\* No handle is lost and none is closed twice, whichever call of allocate or
\* import_handle fails and in whatever order the threads run: what a process has
\* open is what its backings hold and what its operations in progress have opened.
THEOREM HandlesAreExact == Spec => []HandlesExact
<1>1. Init => HandlesInv
  <2> SUFFICES ASSUME Init, NEW p \in Processes
               PROVE  handles[p] = HoldsOf(Of(p)) + HoldsIn(cur, ThreadsOf(p))
    BY Zenon DEF HandlesInv
  <2>1. PICK S, k : S = ThreadsOf(p) /\ k = cur
    OBVIOUS
  <2>2. IsFiniteSet(S) /\ \A u \in S : k[u] = NoBacking
    BY <2>1, ThreadsFinite DEF Init
  <2>3. HoldsIn(k, S) = 0 /\ HoldsOf({}) = 0
    BY <2>2, HoldsNone, Zenon
  <2>4. Of(p) = {} /\ handles[p] = 0 + 0
    BY DEF Init, Of
  <2>5. QED
    BY <2>1, <2>3, <2>4, Zenon
<1>2. HandlesInv => HandlesExact
  BY Zenon DEF HandlesInv, HandlesExact, HoldsOf, Of, HoldsIn, ThreadsOf
<1>3. QED
  BY <1>1, <1>2, TypeInvariant, NextHandles, PTL DEF Spec
=============================================================================
