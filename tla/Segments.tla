----------------------------- MODULE Segments ------------------------------
(***************************************************************************)
(* The SHARED_HOST and MMAP_STORAGE backends, whose objects outlive a call *)
(* and are seen by other processes: named sections and files.  Threads of  *)
(* several processes run allocate and import_handle one system call at a   *)
(* time; any call may fail, and a process may end at any time and be       *)
(* started again.  A section lives while someone has it open; a file stays *)
(* (nothing in the code deletes it).                                       *)
(*                                                                         *)
(* Of Windows the model assumes (external): a section is as large as it    *)
(* was created, and no view exceeds it; creating a name that exists opens  *)
(* it; a file of length zero cannot be mapped; a mapped file can neither   *)
(* be created anew nor cut; all handles of a process are closed when it    *)
(* ends.  make_unique_name mixes the process's start time into the name    *)
(* with ^; here a name holds the start itself: starts are assumed to       *)
(* differ in more bits than the counters use.                              *)
(***************************************************************************)
EXTENDS Integers, FiniteSets, Functions

CONSTANTS
  Processes, Threads,
  process,       \* the process of a thread
  Sizes,         \* sizes that are requested
  DwordLimit,    \* 2^32: CreateFileMapping gets static_cast<DWORD>(bytes)
  Kinds,         \* subset of {"shared", "file"}
  MaxCount,      \* bound: names and paths a process makes in one run
  MaxRestarts,   \* bound: restarts of all processes
  MaxLive,       \* bound: backings of a process
  MaxDescriptors \* bound: descriptors that were handed out

ASSUME SegmentsAssumption ==
  /\ process \in [Threads -> Processes]
  /\ IsFiniteSet(Processes) /\ IsFiniteSet(Threads)
  /\ Sizes \subseteq Nat /\ DwordLimit \in Nat \ {0}
  /\ MaxCount \in Nat /\ MaxRestarts \in Nat

VARIABLES
  runs,       \* how often a process was started
  counter,    \* unique_counter(), per process
  files,      \* file_counter(), per process
  disk,       \* per path: length, how often it was created, and who did last
  pc,         \* per thread: the system call it makes next
  cur,        \* per thread: the backing it is making
  live,       \* the backings that allocate and import_handle returned
  handles,    \* per process: open handles and views
  descriptors \* what export_handle gave out

vars == <<runs, counter, files, disk, pc, cur, live, handles, descriptors>>

Paths == 0..(MaxCount - 1)

\* key: the name or the path.  object: which section or which contents of the
\* file it is.  wanted: the one that the descriptor of an import stood for, {} if
\* created.  length: of the section.  serial: tells equal imports apart.
NewBacking(t, kind, size, key, wanted) ==
  [owner |-> process[t], kind |-> kind, size |-> size, key |-> key,
   object |-> [maker |-> <<process[t], runs[process[t]]>>, number |-> 0],
   length |-> 0, holds |-> {}, wanted |-> wanted, serial |-> 0]

NoBacking == [kind |-> "none", holds |-> {}]

Init ==
  /\ runs = [p \in Processes |-> 1]
  /\ counter = [p \in Processes |-> 0]
  /\ files = [p \in Processes |-> 0]
  /\ disk = [n \in Paths |-> [length |-> 0, created |-> 0, maker |-> <<>>]]
  /\ pc = [t \in Threads |-> "idle"]
  /\ cur = [t \in Threads |-> NoBacking]
  /\ live = {}
  /\ handles = [p \in Processes |-> 0]
  /\ descriptors = {}
-----------------------------------------------------------------------------
(***************************************************************************)
(* The system (external).                                                  *)
(***************************************************************************)
Open == live \cup {cur[t] : t \in Threads}

\* The backings through which a section of this name exists.
Sections(name) ==
  {x \in Open : x.kind = "shared" /\ "map" \in x.holds /\ x.key = name}

Mapped(path) == \E x \in Open : x.kind = "file" /\ "map" \in x.holds /\ x.key = path

\* Every call of a thread in the middle of an operation.
At(t, step) == pc[t] = step

Opens(t, what, b) ==
  /\ cur' = [cur EXCEPT ![t] = [b EXCEPT !.holds = @ \cup {what}]]
  /\ handles' = [handles EXCEPT ![process[t]] = @ + 1]

\* The handles that allocate and import_handle store in the SharedState or
\* FileState of the backing they return, for its destructor to close.
allocate_shared_stores == {"map", "view"}
import_shared_stores == {"map", "view"}
allocate_file_stores == {"file", "map", "view"}
import_file_stores == {"file", "map", "view"}

Stored(b) ==
  CASE b.kind = "shared" /\ b.wanted = {} -> allocate_shared_stores
    [] b.kind = "shared" /\ b.wanted # {} -> import_shared_stores
    [] b.kind = "file" /\ b.wanted = {} -> allocate_file_stores
    [] b.kind = "file" /\ b.wanted # {} -> import_file_stores

\* The operation returns the backing.
Returns(t) ==
  LET p == process[t]
      used == {b.serial : b \in {c \in live : c.owner = p}}
      serial == CHOOSE n \in 1..(Cardinality(used) + 1) : n \notin used
  IN /\ live' = live \cup {[cur[t] EXCEPT !.holds = Stored(cur[t]), !.serial = serial]}
     /\ handles' = [handles EXCEPT ![p] = @ + 1]
     /\ cur' = [cur EXCEPT ![t] = NoBacking]
     /\ pc' = [pc EXCEPT ![t] = "idle"]
     /\ UNCHANGED <<runs, counter, files, disk, descriptors>>

Goto(t, step) == pc' = [pc EXCEPT ![t] = step]

\* An error path: these handles are closed before the operation returns.
Fail(t, closed) ==
  /\ handles' = [handles EXCEPT ![process[t]] = @ - Cardinality(closed)]
  /\ cur' = [cur EXCEPT ![t] = NoBacking]
  /\ Goto(t, "idle")
  /\ UNCHANGED <<runs, counter, files, disk, live, descriptors>>
-----------------------------------------------------------------------------
(***************************************************************************)
(* SharedMemoryDomain.                                                     *)
(***************************************************************************)
\* allocate: make_unique_name counts twice.
allocate_shared(t, size) ==
  LET p == process[t]
  IN /\ "shared" \in Kinds /\ At(t, "idle") /\ counter[p] < 2 * MaxCount
     /\ size # 0
     /\ cur' = [cur EXCEPT ![t] = NewBacking(t, "shared", size, <<counter[p]>>, {})]
     /\ counter' = [counter EXCEPT ![p] = @ + 1]
     /\ Goto(t, "name")
     /\ UNCHANGED <<runs, files, disk, live, handles, descriptors>>

\* A name without the start time.
Name_counted(p, first, second) == <<first, second>>

\* Which of the two calls is made first is the compiler's choice; it swaps the
\* counts of every name alike.
Name(p, first, second) == <<p, runs[p], first, second>>

make_unique_name(t) ==
  LET p == process[t]
  IN /\ At(t, "name") /\ counter[p] < 2 * MaxCount
     /\ cur' = [cur EXCEPT ![t].key = Name(p, cur[t].key[1], counter[p]),
                           ![t].object.number = counter[p]]
     /\ counter' = [counter EXCEPT ![p] = @ + 1]
     /\ Goto(t, "create_section")
     /\ UNCHANGED <<runs, files, disk, live, handles, descriptors>>

\* What the error paths close: CreateFileMapping, and MapViewOfFile of
\* allocate and of import_handle.
no_section == {}
no_section_view == {"map"}
no_imported_section_view == {"map"}

\* A new section, or the one that has the name already.
create_section(t) ==
  LET b == cur[t]
      low == b.size % DwordLimit
  IN /\ At(t, "create_section")
     /\ \/ /\ low # 0 /\ Sections(b.key) = {}
           /\ Opens(t, "map", [b EXCEPT !.length = low])
           /\ Goto(t, "map_view")
           /\ UNCHANGED <<runs, counter, files, disk, live, descriptors>>
        \/ \E x \in Sections(b.key) :
             /\ low # 0
             /\ Opens(t, "map", [b EXCEPT !.object = x.object, !.length = x.length])
             /\ Goto(t, "map_view")
             /\ UNCHANGED <<runs, counter, files, disk, live, descriptors>>
        \/ Fail(t, no_section)

\* import_handle: OpenFileMapping.
import_shared(t, d) ==
  /\ d.kind = "shared" /\ At(t, "idle")
  /\ \E x \in Sections(d.key) :
       LET b == NewBacking(t, "shared", d.size, d.key, {d.object})
       IN Opens(t, "map", [b EXCEPT !.object = x.object, !.length = x.length])
  /\ Goto(t, "map_view")
  /\ UNCHANGED <<runs, counter, files, disk, live, descriptors>>
-----------------------------------------------------------------------------
(***************************************************************************)
(* FileBackedDomain.  All processes use the same directory.                *)
(***************************************************************************)
\* What the error paths close.  allocate: CreateFile, SetFilePointerEx,
\* SetEndOfFile, CreateFileMapping, MapViewOfFile.
no_file == {}
no_seek == {"file"}
no_end == {"file"}
no_mapping == {"file"}
no_view == {"map", "file"}

\* import_handle: GetFileSizeEx, a file too small, CreateFileMapping,
\* MapViewOfFile.
no_size == {"file"}
too_small == {"file"}
no_imported_mapping == {"file"}

\* The mapping is closed and the file forgotten.
no_imported_view_but_map == {"map"}

no_imported_view == {"map", "file"}

\* A number that comes back when a backing is freed.
file_counter_live(p) == Cardinality({b \in live : b.owner = p})

file_counter(p) == files[p]

allocate_file(t, size) ==
  LET p == process[t]
  IN /\ "file" \in Kinds /\ At(t, "idle") /\ files[p] < MaxCount
     /\ size # 0
     /\ cur' = [cur EXCEPT ![t] = NewBacking(t, "file", size, file_counter(p), {})]
     /\ files' = [files EXCEPT ![p] = @ + 1]
     /\ Goto(t, "create_file")
     /\ UNCHANGED <<runs, counter, disk, live, handles, descriptors>>

\* CREATE_ALWAYS
create_file(t) ==
  LET b == cur[t]
  IN /\ At(t, "create_file")
     /\ \/ /\ ~Mapped(b.key)
           /\ disk' = [disk EXCEPT ![b.key] = 
                [length |-> 0, created |-> @.created + 1, maker |-> b.object.maker]]
           /\ Opens(t, "file", b)
           /\ Goto(t, "set_end")
           /\ UNCHANGED <<runs, counter, files, live, descriptors>>
        \/ Fail(t, no_file)

\* The length is counted from the end of the file.
set_end_appending(t) ==
  LET b == cur[t]
  IN /\ At(t, "set_end")
     /\ disk' = [disk EXCEPT ![b.key].length = @ + b.size]
     /\ Goto(t, "map_file")
     /\ UNCHANGED <<runs, counter, files, cur, live, handles, descriptors>>

\* SetFilePointerEx and SetEndOfFile
set_end(t) ==
  LET b == cur[t]
  IN /\ At(t, "set_end")
     /\ \/ /\ ~Mapped(b.key) \/ b.size >= disk[b.key].length
           /\ disk' = [disk EXCEPT ![b.key].length = b.size]
           /\ Goto(t, "map_file")
           /\ UNCHANGED <<runs, counter, files, cur, live, handles, descriptors>>
        \/ Fail(t, no_seek)
        \/ Fail(t, no_end)

\* CreateFileMapping of the whole file, as long as it is now.
map_file(t) ==
  LET b == cur[t]
      f == disk[b.key]
  IN /\ At(t, "map_file")
     /\ \/ /\ f.length # 0
           /\ Opens(t, "map", [b EXCEPT !.length = f.length, 
                                    !.object = [maker |-> f.maker, number |-> f.created]])
           /\ Goto(t, "map_view")
           /\ UNCHANGED <<runs, counter, files, disk, live, descriptors>>
        \/ b.wanted = {} /\ Fail(t, no_mapping)
        \/ b.wanted # {} /\ Fail(t, no_imported_mapping)

\* import_handle: OPEN_EXISTING.
import_file(t, d) ==
  /\ d.kind = "file" /\ At(t, "idle")
  /\ disk[d.key].created > 0
  /\ Opens(t, "file", NewBacking(t, "file", d.size, d.key, {d.object}))
  /\ Goto(t, "file_size")
  /\ UNCHANGED <<runs, counter, files, disk, live, descriptors>>

\* GetFileSizeEx
file_size(t) ==
  /\ At(t, "file_size")
  /\ \/ /\ disk[cur[t].key].length >= cur[t].size
        /\ Goto(t, "map_file")
        /\ UNCHANGED <<runs, counter, files, disk, cur, live, handles, descriptors>>
     \/ Fail(t, no_size)
     \/ disk[cur[t].key].length < cur[t].size /\ Fail(t, too_small)
-----------------------------------------------------------------------------
\* What the error path of MapViewOfFile closes.
view_failed(b) ==
  CASE b.kind = "shared" /\ b.wanted = {} -> no_section_view
    [] b.kind = "shared" /\ b.wanted # {} -> no_imported_section_view
    [] b.kind = "file" /\ b.wanted = {} -> no_view
    [] b.kind = "file" /\ b.wanted # {} -> no_imported_view

\* A view of the section, whatever its length.
map_view_any(t) == At(t, "map_view") /\ (Returns(t) \/ Fail(t, view_failed(cur[t])))

\* MapViewOfFile of the backing's size.
map_view(t) ==
  /\ At(t, "map_view")
  /\ \/ cur[t].size <= cur[t].length /\ Returns(t)
     \/ Fail(t, view_failed(cur[t]))

\* The destructors, which close what they find in the state.
SharedState_closes == {"view", "map"}
FileState_closes == {"view", "map", "file"}

Destroyed(b) ==
  b.holds \cap (IF b.kind = "shared" THEN SharedState_closes ELSE FileState_closes)

\* free drops the state.
free(t, b) ==
  /\ At(t, "idle") /\ b.owner = process[t]
  /\ live' = live \ {b}
  /\ handles' = [handles EXCEPT ![process[t]] = @ - Cardinality(Destroyed(b))]
  /\ UNCHANGED <<runs, counter, files, disk, pc, cur, descriptors>>

\* The descriptor holds the buffer's size, which may be less than the backing's.
\* It travels to any process and may be used at any time.
export_handle(t, b, size) ==
  /\ At(t, "idle") /\ b.owner = process[t] /\ size <= b.size
  /\ Cardinality(descriptors) < MaxDescriptors
  /\ descriptors' = descriptors \cup
       {[kind |-> b.kind, key |-> b.key, size |-> size, object |-> b.object]}
  /\ UNCHANGED <<runs, counter, files, disk, pc, cur, live, handles>>

\* The process ends, between any two calls, and starts again: the counters are
\* static variables.
restart(p) ==
  /\ SumFunction([r \in Processes |-> runs[r] - 1]) < MaxRestarts
  /\ runs' = [runs EXCEPT ![p] = @ + 1]
  /\ counter' = [counter EXCEPT ![p] = 0]
  /\ files' = [files EXCEPT ![p] = 0]
  /\ pc' = [t \in Threads |-> IF process[t] = p THEN "idle" ELSE pc[t]]
  /\ cur' = [t \in Threads |-> IF process[t] = p THEN NoBacking ELSE cur[t]]
  /\ live' = {b \in live : b.owner # p}
  /\ handles' = [handles EXCEPT ![p] = 0]
  /\ UNCHANGED <<disk, descriptors>>

Next ==
  \/ \E p \in Processes : restart(p)
  \/ \E t \in Threads :
       \/ /\ Cardinality({b \in live : b.owner = process[t]}) < MaxLive
          /\ \/ \E size \in Sizes : allocate_shared(t, size) \/ allocate_file(t, size)
             \/ \E d \in descriptors : import_shared(t, d) \/ import_file(t, d)
       \/ make_unique_name(t) \/ create_section(t)
       \/ create_file(t) \/ set_end(t) \/ map_file(t) \/ file_size(t)
       \/ map_view(t)
       \/ \E b \in live : free(t, b) \/ \E size \in Sizes : export_handle(t, b, size)

Spec == Init /\ [][Next]_vars
-----------------------------------------------------------------------------
\* Type invariant of the two backends: the counters, the disk and the backings
\* returned by allocate and import_handle, each with all the handles of its kind.
TypeOK ==
  /\ runs \in [Processes -> 1..(MaxRestarts + 1)]
  /\ counter \in [Processes -> 0..(2 * MaxCount)]
  /\ files \in [Processes -> 0..MaxCount]
  /\ \A n \in Paths : disk[n].length \in Sizes \cup {0}
  /\ \A b \in live :
       /\ b \in [owner : Processes, kind : Kinds, size : Sizes, key : {b.key},
                object : {b.object}, length : Nat, wanted : {b.wanted},
                holds : SUBSET {"file", "map", "view"}, serial : Nat \ {0}]
       /\ b.holds = {"map", "view"} \cup (IF b.kind = "file" THEN {"file"} ELSE {})
  /\ \A t \in Threads : cur[t].kind = "none" <=> pc[t] = "idle"

\* No handle is lost or closed twice: what a process has open is what the
\* states of its backings hold, for their destructors to close, and what the
\* operations in progress have opened, whichever system call of allocate or
\* import_handle failed before and left by its own list of CloseHandle.
HandlesExact ==
  \A p \in Processes :
    handles[p] =
      SumFunction([b \in {c \in live : c.owner = p} |-> Cardinality(b.holds)])
      + SumFunction([t \in {u \in Threads : process[u] = p} |-> Cardinality(cur[t].holds)])

\* The committed bytes of a backing are there, in the section and on disk, and
\* the file is still the one that was mapped, whoever creates, cuts or maps the
\* same file meanwhile and however the 32-bit length of a section came out.
CommittedBacked ==
  \A b \in live :
    /\ b.size <= b.length
    /\ b.kind = "file" =>
         /\ b.length <= disk[b.key].length
         /\ b.object = [maker |-> disk[b.key].maker, number |-> disk[b.key].created]

\* A name stands for one segment: what allocate made is no other allocation's
\* memory, and an import maps the segment that was exported or fails.  Names
\* differ between threads, processes and starts of a process, although creating
\* a name that exists succeeds and allocate does not look.
SegmentsPrivate ==
  \A b \in live : b.kind = "shared" =>
    /\ b.wanted \subseteq {b.object}
    /\ \A c \in live : /\ c.kind = "shared" /\ b.wanted = {} /\ c.wanted = {}
                       /\ b.object = c.object
                       => b = c

\* Within one run of one process a path stands for one allocation: two file
\* backings that it made differ in path, and a descriptor of one opens that
\* one, if no other run has created the path again.
PathsPrivateInRun ==
  \A b \in live : b.kind = "file" =>
    /\ \A c \in live : /\ c.kind = "file" /\ c.key = b.key /\ c.owner = b.owner
                       /\ b.wanted = {} /\ c.wanted = {}
                       => b = c
    /\ \A o \in b.wanted : o.maker = b.object.maker => o = b.object

\* A file that was exported is reopened with the contents it was exported with,
\* as long as it exists and is large enough.
ReopensExported ==
  \A b \in live : b.kind = "file" => b.wanted \subseteq {b.object}
=============================================================================
