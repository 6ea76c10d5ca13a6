------------------------------- MODULE Runtime -------------------------------
(***************************************************************************)
(* The front of one RuntimeImpl (runtime.cpp, export.cpp, stats.cpp): the  *)
(* namespace table, authorization of imports, the registry of buffers, the *)
(* counters and the decision log, and shutdown while other calls are under *)
(* way.                                                                    *)
(*                                                                         *)
(* A step is one section under ns_mtx_, registry_mtx_ or dec_mtx_, or one  *)
(* access to an atomic or to unlocked shared state.  The telemetry_mtx_ of *)
(* the class is never locked, so ++telem_.x is a load and a store.         *)
(*                                                                         *)
(* All buffers live in one memory domain.  The ledger is the subject of    *)
(* Accounting, references are that of BufferControl: here a buffer has no  *)
(* reference from its registration until the facade retains it and from    *)
(* the last release on.  A call that is rejected at once is no step.       *)
(***************************************************************************)
EXTENDS Integers, Sequences, FiniteSets, FiniteSetsExt

CONSTANTS
  Threads,
  Configs,        \* the NamespaceConfigs clients register: [allow_import]
  namespaces,     \* RuntimeConfig::namespaces, a sequence of Configs
  kLog,           \* the 4096 of note()
  MaxNamespaces,  \* bound on create_namespace
  MaxBuffers      \* bound on next_id

Default == [allow_import |-> TRUE]

ASSUME RuntimeAssumption ==
  /\ Configs \subseteq [allow_import : BOOLEAN]
  /\ namespaces \in Seq(Configs) /\ Len(namespaces) < MaxNamespaces
  /\ {kLog, MaxNamespaces, MaxBuffers} \subseteq Nat

VARIABLES
  nss_,         \* the NamespaceConfigs, by NamespaceId
  closed_,
  domain_,      \* domain(d) is not null
  id_counter_,
  registry_,    \* the records of the registered buffers
  finalized,    \* the ids whose Control::finalized is set
  telem_,       \* the counters shared by all threads
  dec_,         \* the decision log; an entry is its place among all notes
  noted,        \* history: notes taken so far
  born, died,   \* history: buffers registered and erased so far
  report,       \* the RuntimeStats that a thread is collecting or reading
  pc, op, rec,  \* threads: next step, call, record at hand
  late,         \* history: closed_ was set when the call began
  seen,         \* threads: a value read and not yet used
  todo          \* threads: the snapshot of shutdown

vars == <<nss_, closed_, domain_, id_counter_, registry_, finalized, telem_, dec_,
          noted, born, died, report, pc, op, rec, late, seen, todo>>

NamespaceId == 1 .. MaxNamespaces
NoRecord == [id |-> 0, ns |-> 1, from |-> 1, kind |-> "NONE"]
Records == [id : 0 .. MaxBuffers, ns : NamespaceId, from : NamespaceId,
            kind : {"NONE", "RUNTIME", "IMPORTED"}]
NoReport == [total_allocations |-> 0, total_frees |-> 0, active_buffers |-> 0]
Creating == {"import_target", "import_source", "next_id", "backend", "import_domain",
             "import_handle", "crc_note", "import_note", "register_control"}
Retaining == {"allocations_load", "allocations_store"}
Finalizing == {"finalize", "erase", "frees_load", "frees_store", "finalize_note"}
Steps == Creating \cup Retaining \cup Finalizing
           \cup {"idle", "crashed", "snapshot", "shutdown_next", "stats", "reported"}

TypeOK ==
  /\ nss_ \in Seq([allow_import : BOOLEAN]) /\ Len(nss_) \in NamespaceId
  /\ closed_ \in BOOLEAN /\ domain_ \in BOOLEAN
  /\ id_counter_ \in 1 .. MaxBuffers + 1
  /\ registry_ \subseteq Records /\ finalized \subseteq 1 .. MaxBuffers
  /\ telem_ \in [total_allocations : Nat, total_frees : Nat]
  /\ dec_ \in Seq(Nat) /\ noted \in Nat /\ born \in Nat /\ died \in Nat
  /\ report \in [total_allocations : Nat, total_frees : Nat, active_buffers : Nat]
  /\ pc \in [Threads -> Steps]
  /\ op \in [Threads -> {"none", "create", "release", "shutdown", "stats"}]
  /\ rec \in [Threads -> Records]
  /\ late \in [Threads -> BOOLEAN]
  /\ todo \in [Threads -> SUBSET Records]

\* The constructor: the default namespace, then the configured ones; a domain
\* exists if the configuration enables it.
Init ==
  /\ nss_ = <<Default>> \o namespaces
  /\ closed_ = FALSE /\ domain_ \in BOOLEAN
  /\ id_counter_ = 1
  /\ registry_ = {} /\ finalized = {}
  /\ telem_ = [total_allocations |-> 0, total_frees |-> 0]
  /\ dec_ = <<>> /\ noted = 0 /\ born = 0 /\ died = 0
  /\ report = NoReport
  /\ pc = [t \in Threads |-> "idle"]
  /\ op = [t \in Threads |-> "none"]
  /\ rec = [t \in Threads |-> NoRecord]
  /\ late = [t \in Threads |-> FALSE]
  /\ seen = [t \in Threads |-> 0]
  /\ todo = [t \in Threads |-> {}]

tableVars == <<nss_, closed_, domain_>>
bufferVars == <<id_counter_, registry_, finalized, born, died>>
statVars == <<telem_, dec_, noted, report>>

Enter(t, call, next, r) ==
  /\ pc[t] = "idle"
  /\ pc' = [pc EXCEPT ![t] = next]
  /\ op' = [op EXCEPT ![t] = call]
  /\ rec' = [rec EXCEPT ![t] = r]
  /\ late' = [late EXCEPT ![t] = closed_]
  /\ UNCHANGED <<seen, todo>>

Goto(t, next) == pc' = [pc EXCEPT ![t] = next] /\ UNCHANGED <<op, rec, late, seen, todo>>

Keep(t, next, value) ==
  /\ pc' = [pc EXCEPT ![t] = next]
  /\ seen' = [seen EXCEPT ![t] = value]
  /\ UNCHANGED <<op, rec, late, todo>>

Return(t) ==
  /\ pc' = [pc EXCEPT ![t] = "idle"]
  /\ op' = [op EXCEPT ![t] = "none"]
  /\ rec' = [rec EXCEPT ![t] = NoRecord]
  /\ late' = [late EXCEPT ![t] = FALSE]
  /\ seen' = [seen EXCEPT ![t] = 0]
  /\ UNCHANGED todo
-----------------------------------------------------------------------------
(***************************************************************************)
(* Namespaces.                                                             *)
(***************************************************************************)

\* An id that is taken already.
create_namespace_in_place(t, cfg) ==
  /\ pc[t] = "idle" /\ Len(nss_) < MaxNamespaces
  /\ nss_' = [nss_ EXCEPT ![Len(nss_)] = cfg]
  /\ UNCHANGED <<closed_, domain_, bufferVars, statVars, pc, op, rec, late, seen, todo>>

create_namespace(t, cfg) ==
  /\ pc[t] = "idle" /\ Len(nss_) < MaxNamespaces
  /\ nss_' = Append(nss_, cfg)
  /\ UNCHANGED <<closed_, domain_, bufferVars, statVars, pc, op, rec, late, seen, todo>>

\* namespace_info finds something.
Known(ns) == ns \in DOMAIN nss_
-----------------------------------------------------------------------------
(***************************************************************************)
(* Buffers are made by allocate and import; wrap_external takes the steps  *)
(* of allocate, without its failure.                                       *)
(***************************************************************************)
\* No test of domain(): only a request of size 0 is refused.
validate_request_any_domain == TRUE

validate_request == domain_

\* Both tests of closed(), and validate_request.  Any namespace will do, known
\* or not, and none is kept here: only imports look at it.
allocate(t) ==
  /\ ~closed_ /\ validate_request
  /\ Enter(t, "create", "next_id", [NoRecord EXCEPT !.kind = "RUNTIME"])
  /\ UNCHANGED <<tableVars, bufferVars, statVars>>

\* An import that does not ask whether the runtime is closed.
import_open(t, ns, from) ==
  /\ Enter(t, "create", "import_target", [id |-> 0, ns |-> ns, from |-> from,
                                        kind |-> "IMPORTED"])
  /\ UNCHANGED <<tableVars, bufferVars, statVars>>

\* A descriptor of a shared segment, made by any runtime: from is its
\* namespace there.
import(t, ns, from) == ~closed_ /\ import_open(t, ns, from)

Allows(cfg) == IF cfg.allow_import THEN 1 ELSE 0

import_target(t) ==
  /\ pc[t] = "import_target"
  /\ IF Known(rec[t].ns) THEN Keep(t, "import_source", Allows(nss_[rec[t].ns]))
                         ELSE Return(t)
  /\ UNCHANGED <<tableVars, bufferVars, statVars>>

Authorized(t) ==
  /\ Known(rec[t].from) => nss_[rec[t].from].allow_import
  /\ seen[t] = 1
  /\ rec[t].from = rec[t].ns

import_source(t) ==
  /\ pc[t] = "import_source"
  /\ IF Authorized(t) THEN Goto(t, "next_id") ELSE Return(t)
  /\ UNCHANGED <<tableVars, bufferVars, statVars>>

\* Ids taken from the number of buffers.
fresh_counted == 1 + Cardinality(registry_)

fresh == id_counter_

next_id(t) ==
  /\ pc[t] = "next_id" /\ id_counter_ <= MaxBuffers
  /\ id_counter_' = id_counter_ + 1
  /\ rec' = [rec EXCEPT ![t].id = fresh]
  /\ pc' = [pc EXCEPT ![t] = IF rec[t].kind = "IMPORTED" THEN "import_domain" ELSE "backend"]
  /\ UNCHANGED <<tableVars, registry_, finalized, born, died, statVars, op, late, seen, todo>>

\* allocate_record calls through domain() without looking.
backend(t) ==
  /\ pc[t] = "backend"
  /\ \/ domain_ /\ Goto(t, "register_control")
     \/ domain_ /\ Return(t)                 \* its allocate fails
     \/ ~domain_ /\ Goto(t, "crashed")
  /\ UNCHANGED <<tableVars, bufferVars, statVars>>

\* import_descriptor looks, and keeps the pointer ...
import_domain(t) ==
  /\ pc[t] = "import_domain"
  /\ IF domain_ THEN Goto(t, "import_handle") ELSE Return(t)
  /\ UNCHANGED <<tableVars, bufferVars, statVars>>

\* ... for the call, which may fail.  A backend destroyed in between answers
\* from freed memory, or crashes.  The checksum of the descriptor covers the
\* exporter's id, so it hardly ever matches: a note.
import_handle(t) ==
  /\ pc[t] = "import_handle"
  /\ \/ Goto(t, "crc_note")
     \/ Goto(t, "import_note")
     \/ Return(t)
     \/ ~domain_ /\ Goto(t, "crashed")
  /\ UNCHANGED <<tableVars, bufferVars, statVars>>

register_control(t) ==
  /\ pc[t] = "register_control"
  /\ registry_' = {b \in registry_ : b.id # rec[t].id} \cup {rec[t]}
  /\ born' = born + 1
  /\ Goto(t, "allocations_load")
  /\ UNCHANGED <<tableVars, id_counter_, finalized, died, statVars>>
-----------------------------------------------------------------------------
(***************************************************************************)
(* Releasing the last handle, and shutdown.                                *)
(***************************************************************************)
At(b, u) == rec[u].id = b.id /\ pc[u] \in Retaining \cup Finalizing

release(t, b) ==
  /\ \A u \in Threads : ~At(b, u)
  /\ Enter(t, "release", "finalize", b)
  /\ UNCHANGED <<tableVars, bufferVars, statVars>>

FinalizeReturn(t) == IF op[t] = "shutdown" THEN Goto(t, "shutdown_next") ELSE Return(t)

finalize(t) ==
  /\ pc[t] = "finalize"
  /\ finalized' = finalized \cup {rec[t].id}
  /\ IF rec[t].id \in finalized THEN FinalizeReturn(t) ELSE Goto(t, "erase")
  /\ UNCHANGED <<tableVars, id_counter_, registry_, born, died, statVars>>

erase(t) ==
  /\ pc[t] = "erase"
  /\ registry_' = {b \in registry_ : b.id # rec[t].id}
  /\ died' = died + 1
  /\ Goto(t, "frees_load")
  /\ UNCHANGED <<tableVars, id_counter_, finalized, born, statVars>>

shutdown(t) ==
  /\ ~closed_
  /\ closed_' = TRUE
  /\ Enter(t, "shutdown", "snapshot", NoRecord)
  /\ UNCHANGED <<nss_, domain_, bufferVars, statVars>>

shutdown_snapshot(t) ==
  /\ pc[t] = "snapshot"
  /\ todo' = [todo EXCEPT ![t] = registry_]
  /\ pc' = [pc EXCEPT ![t] = "shutdown_next"]
  /\ UNCHANGED <<tableVars, bufferVars, statVars, op, rec, late, seen>>

\* The next buffer of the snapshot: finalized if it has no reference.  After
\* the last one the backends go.
shutdown_next(t) ==
  /\ pc[t] = "shutdown_next"
  /\ \/ \E b \in todo[t] :
          /\ todo' = [todo EXCEPT ![t] = @ \ {b}]
          /\ IF \E u \in Threads \ {t} : At(b, u)
               THEN pc' = [pc EXCEPT ![t] = "finalize"] /\ rec' = [rec EXCEPT ![t] = b]
               ELSE UNCHANGED <<pc, rec>>
          /\ UNCHANGED <<domain_, op, late, seen>>
     \/ todo[t] = {} /\ domain_' = FALSE /\ Return(t)
  /\ UNCHANGED <<nss_, closed_, bufferVars, statVars>>
-----------------------------------------------------------------------------
(***************************************************************************)
(* Telemetry and the decision log.                                         *)
(***************************************************************************)
load(t, from, counter, next) ==
  /\ pc[t] = from
  /\ Keep(t, next, telem_[counter])
  /\ UNCHANGED <<tableVars, bufferVars, statVars>>

\* An increment that is counted by the caller once more.
incremented_twice(n) == n + 2

incremented(n) == n + 1

total_allocations(t) ==
  \/ load(t, "allocations_load", "total_allocations", "allocations_store")
  \/ /\ pc[t] = "allocations_store"
     /\ telem_' = [telem_ EXCEPT !.total_allocations = incremented(seen[t])]
     /\ Return(t)      \* the facade retains the buffer and returns the handle
     /\ UNCHANGED <<tableVars, bufferVars, dec_, noted, report>>

total_frees(t) ==
  \/ load(t, "frees_load", "total_frees", "frees_store")
  \/ /\ pc[t] = "frees_store"
     /\ telem_' = [telem_ EXCEPT !.total_frees = incremented(seen[t])]
     /\ Goto(t, "finalize_note")
     /\ UNCHANGED <<tableVars, bufferVars, dec_, noted, report>>

\* A full log that keeps its oldest entries.
logged_oldest(log, entry) == IF Len(log) > kLog THEN log ELSE Append(log, entry)

logged(log, entry) == Append(IF Len(log) > kLog THEN Tail(log) ELSE log, entry)

note(t) ==
  /\ noted' = noted + 1
  /\ dec_' = logged(dec_, noted')
  /\ \/ pc[t] = "crc_note" /\ Goto(t, "import_note")
     \/ pc[t] = "import_note" /\ Goto(t, "register_control")
     \/ pc[t] = "finalize_note" /\ FinalizeReturn(t)
  /\ UNCHANGED <<tableVars, bufferVars, telem_, report>>

\* telemetry() copies the counters, then asks the registry for its size.  It
\* changes nothing that is shared, so one caller at a time is enough.
telemetry(t) ==
  /\ \A u \in Threads : op[u] # "stats"
  /\ Enter(t, "stats", "stats", NoRecord)
  /\ report' = [total_allocations |-> telem_.total_allocations,
                total_frees |-> telem_.total_frees,
                active_buffers |-> 0]
  /\ UNCHANGED <<tableVars, bufferVars, telem_, dec_, noted>>

\* The difference of two counters that lose increments.
active_buffers_counted == telem_.total_allocations - telem_.total_frees

active_buffers == Cardinality(registry_)

runtime_stats(t) ==
  /\ \/ /\ pc[t] = "stats"
        /\ report' = [report EXCEPT !.active_buffers = active_buffers]
        /\ Goto(t, "reported")
     \/ pc[t] = "reported" /\ report' = NoReport /\ Return(t)
  /\ UNCHANGED <<tableVars, bufferVars, telem_, dec_, noted>>
-----------------------------------------------------------------------------
Start(t) ==
  \/ \E cfg \in Configs : create_namespace(t, cfg)
  \/ \E ns, from \in NamespaceId : import(t, ns, from)
  \/ allocate(t) \/ \E b \in registry_ : release(t, b)
  \/ shutdown(t) \/ telemetry(t)

Continue(t) ==
  \/ import_target(t) \/ import_source(t) \/ next_id(t) \/ backend(t)
  \/ import_domain(t) \/ import_handle(t) \/ register_control(t)
  \/ finalize(t) \/ erase(t) \/ shutdown_snapshot(t) \/ shutdown_next(t)
  \/ total_allocations(t) \/ total_frees(t) \/ note(t) \/ runtime_stats(t)

Next == \E t \in Threads : Start(t) \/ Continue(t)

Spec == Init /\ [][Next]_vars
-----------------------------------------------------------------------------
(***************************************************************************)
(* Properties.                                                             *)
(***************************************************************************)

\* Every imported buffer in the registry belongs to a namespace that exists
\* and allows imports, the one its descriptor names, although import_descriptor
\* reads the table under two separate locks while create_namespace goes on
\* changing it.
ImportAuthorized ==
  \A b \in registry_ : b.kind = "IMPORTED" =>
    b.from = b.ns /\ Known(b.ns) /\ nss_[b.ns].allow_import

\* No two buffers that are being made, registered or finalized have the same
\* BufferId, whatever was freed before: registry_[id] = ctl in
\* register_control never replaces a buffer.
IdsUnique ==
  \A t \in Threads : pc[t] \in {"backend", "import_domain", "import_handle", "crc_note",
                                "import_note", "register_control"} =>
    /\ \A b \in registry_ : b.id # rec[t].id
    /\ rec[t].id \notin finalized
    /\ \A u \in Threads \ {t} : pc[u] \notin {"idle", "import_target", "import_source"}
                                  => rec[u].id # rec[t].id

\* Once shutdown has set closed_ and the calls that were making buffers at that
\* time are over, the registry only shrinks: no later call adds a buffer.
RegistryDrains ==
  [][closed_ /\ (\A t \in Threads : pc[t] \notin Creating)
       => registry_' \subseteq registry_ /\ \A t \in Threads : pc'[t] \notin Creating
    ]_<<registry_, pc>>

\* allocate_record calls through a null domain(), and import_descriptor through
\* a pointer to a destroyed one, only when shutdown resets the backends between
\* the call's test of closed_ and its use of the backend: neither a domain that
\* was never enabled nor a call that begins after shutdown gets that far.
CrashNeedsRace == \A t \in Threads : pc[t] = "crashed" => closed_ /\ ~late[t]

\* Increments without a lock may be lost but nothing is counted that did not
\* happen: the counters of telem_, and the statistics a thread got, never
\* exceed the buffers registered and erased so far.
CountersNeverOver ==
  /\ telem_.total_allocations <= born /\ telem_.total_frees <= died
  /\ report.total_allocations <= born /\ report.total_frees <= died
  /\ report.active_buffers + report.total_frees <= born

\* The decision log is a window on the newest notes, whoever took them: in the
\* order they were taken, none missing, and never fewer than the last kLog.
LogKeepsNewest ==
  /\ \A i \in DOMAIN dec_ : dec_[i] = noted - Len(dec_) + i
  /\ Len(dec_) >= Min({noted, kLog})
-----------------------------------------------------------------------------
(***************************************************************************)
(* What the documents say and the code does not do (README).               *)
(***************************************************************************)
\* The log has at most kLog entries ("capped in-memory ring (4096 entries)",
\* docs/ARCHITECTURE.md).
LogCapped == Len(dec_) <= kLog

\* Between calls the counters are exact ("`telemetry_mtx_` and `dec_mtx_` guard
\* the counters", docs/ARCHITECTURE.md).
CountersExactWhenIdle ==
  (\A t \in Threads : pc[t] = "idle") =>
    telem_ = [total_allocations |-> born, total_frees |-> died]

\* shutdown waits for the calls that use the backends.
BackendsOutliveCalls == \A t \in Threads : pc[t] # "crashed"
=============================================================================
