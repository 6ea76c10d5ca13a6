---------------------------- MODULE RuntimeProofs ----------------------------
(***************************************************************************)
(* For any number of threads, namespaces and buffers: identifiers are not  *)
(* given out twice, only authorized imports are registered, a call through *)
(* a reset backend needs a shutdown that overtakes it, the registry drains *)
(* after shutdown, the counters that are incremented without a lock never  *)
(* exceed what happened, and the log keeps the newest notes in order.      *)
(***************************************************************************)
EXTENDS Runtime, SequenceTheorems, FiniteSetTheorems, TLAPS

CallNames == {"none", "create", "release", "shutdown", "stats"}

\* The types that the arguments need: those of the calls and of the tables.
CallShape ==
  /\ pc \in [Threads -> Steps]
  /\ op \in [Threads -> CallNames]
  /\ rec \in [Threads -> Records]
  /\ late \in [Threads -> BOOLEAN]
  /\ seen \in [Threads -> Nat]
  /\ todo \in [Threads -> SUBSET Records]
TableShape ==
  /\ nss_ \in Seq([allow_import : BOOLEAN])
  /\ closed_ \in BOOLEAN /\ domain_ \in BOOLEAN
  /\ id_counter_ \in Nat \ {0}
  /\ registry_ \subseteq Records
  /\ telem_ \in [total_allocations : Nat, total_frees : Nat]
Shape == CallShape /\ TableShape

\* NoRecord is a record, and a record's fields are what they should be.
LEMMA RecordFacts ==
  /\ NoRecord \in Records
  /\ [NoRecord EXCEPT !.kind = "RUNTIME"] \in Records
  /\ \A r \in Records : r.id \in 0 .. MaxBuffers /\ r.ns \in NamespaceId
  /\ \A r \in Records, i \in 0 .. MaxBuffers : [r EXCEPT !.id = i] \in Records
<1>1. 1 \in NamespaceId /\ 0 \in 0 .. MaxBuffers
  BY RuntimeAssumption DEF NamespaceId
<1>2. QED
  BY <1>1 DEF NoRecord, Records

\* Entering, continuing and leaving a call keep the types of the calls.
LEMMA CallSteps ==
  ASSUME Shape, NEW t \in Threads
  PROVE  /\ \A call \in CallNames, next \in Steps, r \in Records :
              Enter(t, call, next, r) => CallShape'
         /\ \A next \in Steps : Goto(t, next) => CallShape'
         /\ \A next \in Steps, value \in Nat : Keep(t, next, value) => CallShape'
         /\ Return(t) => CallShape'
<1>1. ASSUME NEW call \in CallNames, NEW next \in Steps, NEW r \in Records,
             Enter(t, call, next, r)
      PROVE  CallShape'
  BY <1>1 DEF Enter, Shape, CallShape, TableShape
<1>2. ASSUME NEW next \in Steps, Goto(t, next)
      PROVE  CallShape'
  BY <1>2 DEF Goto, Shape, CallShape
<1>3. ASSUME NEW next \in Steps, NEW value \in Nat, Keep(t, next, value)
      PROVE  CallShape'
  BY <1>3 DEF Keep, Shape, CallShape
<1>4. ASSUME Return(t)
      PROVE  CallShape'
  <2>1. "idle" \in Steps /\ "none" \in CallNames
    BY DEF Steps, CallNames
  <2>2. QED
    BY <1>4, <2>1, RecordFacts DEF Return, Shape, CallShape
<1>5. QED
  BY <1>1, <1>2, <1>3, <1>4

\* Coming back from finalize, in release or in shutdown, keeps them too.
LEMMA FinalizeReturns ==
  ASSUME Shape, NEW t \in Threads, FinalizeReturn(t)
  PROVE  CallShape'
<1>1. "shutdown_next" \in Steps
  BY DEF Steps
<1>2. QED
  BY <1>1, CallSteps DEF FinalizeReturn

\* Init has these types.
LEMMA InitShape == Init => Shape
<1> SUFFICES ASSUME Init PROVE Shape
  OBVIOUS
<1>1. CallShape
  BY RecordFacts DEF Init, CallShape, Steps, CallNames
<1>2. nss_ \in Seq([allow_import : BOOLEAN])
  <2>1. <<Default>> \in Seq([allow_import : BOOLEAN])
    BY DEF Default
  <2>2. namespaces \in Seq([allow_import : BOOLEAN])
    <3>1. PICK n \in Nat : namespaces \in [1 .. n -> Configs]
      BY RuntimeAssumption, SeqDef
    <3>2. namespaces \in [1 .. n -> [allow_import : BOOLEAN]]
      BY <3>1, RuntimeAssumption
    <3>3. QED
      BY <3>2, SeqDef, ZenonT(30)
  <2>3. QED
    BY <2>1, <2>2 DEF Init
<1>3. telem_ \in [total_allocations : Nat, total_frees : Nat]
  BY DEF Init
<1>4. TableShape
  <2>1. closed_ \in BOOLEAN /\ domain_ \in BOOLEAN
    BY Zenon DEF Init
  <2>2. id_counter_ \in Nat \ {0} /\ registry_ \subseteq Records
    BY DEF Init
  <2>3. QED
    BY <1>2, <1>3, <2>1, <2>2, Zenon DEF TableShape
<1>5. QED
  BY <1>1, <1>4 DEF Shape

\* Every step keeps them.
LEMMA StepShape ==
  ASSUME Shape, NEW t \in Threads, Start(t) \/ Continue(t)
  PROVE  Shape'
<1> USE DEF tableVars, bufferVars, statVars
<1>1. ASSUME UNCHANGED <<tableVars, id_counter_, registry_, telem_>>
      PROVE  TableShape'
  BY <1>1 DEF Shape, TableShape
<1>2. ASSUME NEW cfg \in Configs, create_namespace(t, cfg)
      PROVE  Shape'
  <2>1. cfg \in [allow_import : BOOLEAN]
    BY RuntimeAssumption
  <2>2. nss_' \in Seq([allow_import : BOOLEAN])
    BY <1>2, <2>1 DEF create_namespace, Shape, TableShape
  <2>3. QED
    BY <1>2, <2>2 DEF create_namespace, Shape, TableShape, CallShape
<1>3. ASSUME NEW ns \in NamespaceId, NEW from \in NamespaceId, import(t, ns, from)
      PROVE  Shape'
  <2>1. [id |-> 0, ns |-> ns, from |-> from, kind |-> "IMPORTED"] \in Records
    BY RuntimeAssumption DEF Records
  <2>2. "import_target" \in Steps /\ "create" \in CallNames
    BY DEF Steps, Creating, CallNames
  <2>3. QED
    BY <1>1, <1>3, <2>1, <2>2, CallSteps DEF import, import_open, Shape
<1>4. CASE allocate(t)
  <2>1. "next_id" \in Steps /\ "create" \in CallNames
    BY DEF Steps, Creating, CallNames
  <2>2. QED
    BY <1>1, <1>4, <2>1, CallSteps, RecordFacts DEF allocate, Shape
<1>5. ASSUME NEW b \in registry_, release(t, b)
      PROVE  Shape'
  <2>1. b \in Records /\ "finalize" \in Steps /\ "release" \in CallNames
    BY DEF Shape, TableShape, Steps, Finalizing, CallNames
  <2>2. QED
    BY <1>1, <1>5, <2>1, CallSteps DEF release, Shape
<1>6. CASE shutdown(t)
  <2>1. "snapshot" \in Steps /\ "shutdown" \in CallNames
    BY DEF Steps, CallNames
  <2>2. CallShape'
    BY <1>6, <2>1, CallSteps, RecordFacts DEF shutdown
  <2>3. TableShape'
    BY <1>6 DEF shutdown, Shape, TableShape
  <2>4. QED
    BY <2>2, <2>3 DEF Shape
<1>7. CASE telemetry(t)
  <2>1. "stats" \in Steps /\ "stats" \in CallNames
    BY DEF Steps, CallNames
  <2>2. QED
    BY <1>1, <1>7, <2>1, CallSteps, RecordFacts DEF telemetry, Shape
<1>8. CASE import_target(t)
  <2>1. "import_source" \in Steps /\ \A c : Allows(c) \in Nat
    BY DEF Steps, Creating, Allows
  <2>2. QED
    BY <1>1, <1>8, <2>1, CallSteps DEF import_target, Shape
<1>9. CASE import_source(t)
  <2>1. "next_id" \in Steps
    BY DEF Steps, Creating
  <2>2. QED
    BY <1>1, <1>9, <2>1, CallSteps DEF import_source, Shape
<1>10. CASE next_id(t)
  <2>1. id_counter_ \in 0 .. MaxBuffers /\ rec[t] \in Records
    BY <1>10, RuntimeAssumption DEF next_id, Shape, TableShape, CallShape
  <2>2. [rec[t] EXCEPT !.id = id_counter_] \in Records
    BY <2>1, RecordFacts
  <2>3. rec' \in [Threads -> Records]
    BY <1>10, <2>2 DEF next_id, fresh, Shape, CallShape
  <2>4. pc' \in [Threads -> Steps]
    <3>1. "import_domain" \in Steps /\ "backend" \in Steps
      BY DEF Steps, Creating
    <3>2. QED
      BY <1>10, <3>1 DEF next_id, Shape, CallShape
  <2>5. TableShape'
    BY <1>10 DEF next_id, Shape, TableShape
  <2>6. QED
    BY <1>10, <2>3, <2>4, <2>5 DEF next_id, Shape, CallShape
<1>11. CASE backend(t) \/ import_domain(t) \/ import_handle(t)
  <2>1. {"register_control", "crashed", "import_handle", "crc_note", "import_note"} \subseteq Steps
    BY DEF Steps, Creating
  <2>2. QED
    BY <1>1, <1>11, <2>1, CallSteps DEF backend, import_domain, import_handle, Shape
<1>12. CASE register_control(t)
  <2>1. "allocations_load" \in Steps
    BY DEF Steps, Retaining
  <2>2. CallShape'
    BY <1>12, <2>1, CallSteps DEF register_control
  <2>3. TableShape'
    BY <1>12 DEF register_control, Shape, TableShape, CallShape
  <2>4. QED
    BY <2>2, <2>3 DEF Shape
<1>13. CASE finalize(t)
  <2>1. "erase" \in Steps
    BY DEF Steps, Finalizing
  <2>2. CallShape'
    BY <1>13, <2>1, CallSteps, FinalizeReturns DEF finalize
  <2>3. QED
    BY <1>1, <1>13, <2>2 DEF finalize, Shape
<1>14. CASE erase(t)
  <2>1. "frees_load" \in Steps
    BY DEF Steps, Finalizing
  <2>2. CallShape'
    BY <1>14, <2>1, CallSteps DEF erase
  <2>3. TableShape'
    BY <1>14 DEF erase, Shape, TableShape
  <2>4. QED
    BY <2>2, <2>3 DEF Shape
<1>15. CASE shutdown_snapshot(t)
  <2>1. "shutdown_next" \in Steps
    BY DEF Steps
  <2>2. QED
    BY <1>1, <1>15, <2>1 DEF shutdown_snapshot, Shape, CallShape, TableShape
<1>16. CASE shutdown_next(t)
  <2>1. CASE todo[t] = {} /\ domain_' = FALSE /\ Return(t)
    <3>1. CallShape'
      BY <2>1, CallSteps
    <3>2. QED
      BY <1>16, <2>1, <3>1, Zenon DEF shutdown_next, Shape, TableShape
  <2>2. ASSUME NEW b \in todo[t],
               todo' = [todo EXCEPT ![t] = @ \ {b}],
               \/ pc' = [pc EXCEPT ![t] = "finalize"] /\ rec' = [rec EXCEPT ![t] = b]
               \/ UNCHANGED <<pc, rec>>,
               UNCHANGED <<domain_, op, late, seen>>
        PROVE  Shape'
    <3>1. b \in Records /\ "finalize" \in Steps /\ todo[t] \subseteq Records
      BY DEF Shape, CallShape, Steps, Finalizing
    <3>2. CallShape'
      BY <2>2, <3>1 DEF Shape, CallShape
    <3>3. QED
      BY <1>1, <1>16, <2>2, <3>2 DEF shutdown_next, Shape
  <2>3. QED
    BY <1>16, <2>1, <2>2, Zenon DEF shutdown_next
<1>17. CASE total_allocations(t) \/ total_frees(t)
  <2>1. {"allocations_store", "frees_store", "finalize_note"} \subseteq Steps
    BY DEF Steps, Retaining, Finalizing
  <2>2. telem_.total_allocations \in Nat /\ telem_.total_frees \in Nat /\ seen[t] + 1 \in Nat
    BY DEF Shape, TableShape, CallShape
  <2>3. CallShape'
    <3>1. telem_["total_allocations"] \in Nat /\ telem_["total_frees"] \in Nat
      BY <2>2
    <3>2. QED
      BY <1>17, <2>1, <3>1, CallSteps DEF total_allocations, total_frees, load
  <2>4. TableShape'
    BY <1>17, <2>2 DEF total_allocations, total_frees, load, incremented, Shape, TableShape
  <2>5. QED
    BY <2>3, <2>4 DEF Shape
<1>18. CASE note(t)
  <2>1. {"import_note", "register_control"} \subseteq Steps
    BY DEF Steps, Creating
  <2>2. CallShape'
    BY <1>18, <2>1, CallSteps, FinalizeReturns DEF note
  <2>3. QED
    BY <1>1, <1>18, <2>2 DEF note, Shape
<1>19. CASE runtime_stats(t)
  <2>1. "reported" \in Steps
    BY DEF Steps
  <2>2. QED
    BY <1>1, <1>19, <2>1, CallSteps DEF runtime_stats, Shape
<1>20. QED
  BY <1>2, <1>3, <1>4, <1>5, <1>6, <1>7, <1>8, <1>9, <1>10, <1>11, <1>12, <1>13, <1>14,
     <1>15, <1>16, <1>17, <1>18, <1>19
  DEF Start, Continue

\* The calls of the other threads are left alone.
Frame(t) ==
  \A u \in Threads \ {t} : /\ pc'[u] = pc[u] /\ op'[u] = op[u] /\ rec'[u] = rec[u]
                            /\ late'[u] = late[u] /\ seen'[u] = seen[u] /\ todo'[u] = todo[u]

\* Every step of a thread leaves the calls of the others alone.
LEMMA StepFrame ==
  ASSUME Shape, NEW t \in Threads, Start(t) \/ Continue(t)
  PROVE  Frame(t)
<1> USE DEF Shape, CallShape, Frame
<1>1. ASSUME NEW call, NEW next, NEW r, Enter(t, call, next, r)
      PROVE  Frame(t)
  BY <1>1 DEF Enter
<1>2. ASSUME NEW next, Goto(t, next) \/ (\E v : Keep(t, next, v))
      PROVE  Frame(t)
  BY <1>2 DEF Goto, Keep
<1>3. ASSUME Return(t) \/ FinalizeReturn(t)
      PROVE  Frame(t)
  BY <1>3 DEF Return, FinalizeReturn, Goto
<1>4. ASSUME UNCHANGED <<pc, op, rec, late, seen, todo>>
      PROVE  Frame(t)
  BY <1>4
<1>5. CASE next_id(t) \/ shutdown_snapshot(t)
  BY <1>5 DEF next_id, shutdown_snapshot
<1>6. CASE shutdown_next(t)
  <2>1. CASE Return(t)
    BY <1>3, <2>1
  <2>2. CASE ~Return(t)
    BY <1>6, <2>2 DEF shutdown_next
  <2>3. QED
    BY <2>1, <2>2
<1> HIDE DEF Frame
<1>7. CASE Start(t)
  BY <1>1, <1>4, <1>7, Zenon
     DEF Start, create_namespace, import, import_open, allocate, release,
                          shutdown, telemetry
<1>8. CASE \/ import_target(t) \/ import_source(t) \/ backend(t) \/ import_domain(t) \/ import_handle(t)
           \/ register_control(t) \/ finalize(t) \/ erase(t)
  BY <1>2, <1>3, <1>8 DEF import_target, import_source, backend, import_domain, import_handle,
                          register_control, finalize, erase
<1>9. CASE total_allocations(t) \/ total_frees(t) \/ note(t) \/ runtime_stats(t)
  BY <1>2, <1>3, <1>9, Zenon DEF total_allocations, total_frees, load, note, runtime_stats
<1>10. QED
  BY <1>5, <1>6, <1>7, <1>8, <1>9 DEF Continue
-----------------------------------------------------------------------------
(***************************************************************************)
(* CrashNeedsRace.                                                         *)
(***************************************************************************)
\* What a thread knows: a shutdown under way has set closed_; a call that is
\* on its way to a backend found the runtime open and, by the time it is about
\* to use it, the domain enabled; only a shutdown takes the domain away.
Race(t) ==
  /\ op[t] = "shutdown" \/ pc[t] \in {"snapshot", "shutdown_next"} => closed_
  /\ pc[t] \in {"import_target", "import_source"} => rec[t].kind = "IMPORTED"
  /\ pc[t] \in {"import_target", "import_source", "next_id", "import_domain",
                "import_handle", "backend", "crashed"} => ~late[t]
  /\ pc[t] \in {"import_handle", "backend"} => domain_ \/ closed_
  /\ pc[t] = "next_id" /\ rec[t].kind # "IMPORTED" => domain_ \/ closed_
  /\ pc[t] = "crashed" => closed_
RaceInv == \A t \in Threads : Race(t)

\* Every step keeps what the threads know.
LEMMA StepRace ==
  ASSUME Shape, RaceInv, NEW t \in Threads, Start(t) \/ Continue(t)
  PROVE  RaceInv'
<1> USE DEF tableVars, Enter, Goto, Keep, Return, FinalizeReturn
<1>1. Race(t) /\ CallShape /\ Frame(t)
  BY StepFrame DEF RaceInv, Shape
<1>2. ASSUME Race(t)', closed_ => closed_', domain_ \/ closed_ => domain_' \/ closed_'
      PROVE  RaceInv'
  <2> SUFFICES ASSUME NEW u \in Threads, u # t PROVE Race(u)'
    BY <1>2 DEF RaceInv
  <2>1. /\ Race(u) /\ pc'[u] = pc[u] /\ op'[u] = op[u] /\ rec'[u] = rec[u]
        /\ late'[u] = late[u]
    BY <1>1 DEF Frame, RaceInv
  <2>2. QED
    BY <1>2, <2>1 DEF Race
<1>3. ASSUME Race(t)', UNCHANGED <<closed_, domain_>>
      PROVE  RaceInv'
  BY <1>2, <1>3
<1>4. CASE \E cfg \in Configs : create_namespace(t, cfg)
  <2>1. Race(t)' /\ UNCHANGED <<closed_, domain_>>
    BY <1>1, <1>4 DEF create_namespace, Race
  <2>2. QED
    BY <1>3, <2>1
<1>5. CASE \/ \E ns, from \in NamespaceId : import(t, ns, from)
           \/ allocate(t) \/ telemetry(t)
           \/ \E b \in registry_ : release(t, b)
  <2>1. Race(t)' /\ UNCHANGED <<closed_, domain_>>
    BY <1>1, <1>5 DEF import, import_open, allocate, validate_request, telemetry, release,
                      NoRecord, CallShape, Race
  <2>2. QED
    BY <1>3, <2>1
<1>6. CASE shutdown(t)
  <2>1. closed_' /\ Race(t)'
    BY <1>1, <1>6 DEF shutdown, CallShape, Race
  <2>2. QED
    BY <1>2, <2>1
<1>7. CASE import_target(t) \/ import_source(t) \/ next_id(t) \/ backend(t)
  <2>1. Race(t)' /\ UNCHANGED <<closed_, domain_>>
    BY <1>1, <1>7, Zenon DEF import_target, import_source, next_id, backend, CallShape, Race
  <2>2. QED
    BY <1>3, <2>1
<1>8. CASE import_domain(t) \/ import_handle(t) \/ register_control(t) \/ finalize(t) \/ erase(t)
  <2>1. Race(t)' /\ UNCHANGED <<closed_, domain_>>
    BY <1>1, <1>8 DEF import_domain, import_handle, register_control, finalize, erase, CallShape, Race
  <2>2. QED
    BY <1>3, <2>1
<1>9. CASE shutdown_snapshot(t)
  <2>1. Race(t)' /\ UNCHANGED <<closed_, domain_>>
    BY <1>1, <1>9 DEF shutdown_snapshot, CallShape, Race
  <2>2. QED
    BY <1>3, <2>1
<1>10. CASE shutdown_next(t)
  <2>1. closed_ /\ UNCHANGED closed_
    BY <1>1, <1>10 DEF shutdown_next, Race
  <2>2. Race(t)'
    BY <1>1, <1>10, <2>1 DEF shutdown_next, CallShape, Race
  <2>3. QED
    BY <1>2, <2>1, <2>2
<1>11. CASE total_allocations(t) \/ total_frees(t) \/ note(t) \/ runtime_stats(t)
  <2>1. Race(t)' /\ UNCHANGED <<closed_, domain_>>
    BY <1>1, <1>11 DEF total_allocations, total_frees, load, note, runtime_stats, CallShape,
                       Race
  <2>2. QED
    BY <1>3, <2>1
<1>12. QED
  BY <1>4, <1>5, <1>6, <1>7, <1>8, <1>9, <1>10, <1>11 DEF Start, Continue
-----------------------------------------------------------------------------
(***************************************************************************)
(* ImportAuthorized.                                                       *)
(***************************************************************************)
Allowed(ns) == Known(ns) /\ nss_[ns].allow_import

\* What an import has found out by the time it registers the buffer.  The
\* namespace read first is still as it was: the table only grows.
Granted(t) ==
  /\ pc[t] = "import_source" /\ seen[t] = 1 => Allowed(rec[t].ns)
  /\ pc[t] \in {"next_id", "backend", "import_domain", "import_handle", "crc_note", "import_note",
                "register_control"} /\ rec[t].kind = "IMPORTED"
       => rec[t].from = rec[t].ns /\ Allowed(rec[t].ns)
GrantInv == ImportAuthorized /\ \A t \in Threads : Granted(t)

\* Every step keeps what the imports rest on.
LEMMA StepGrant ==
  ASSUME Shape, GrantInv, NEW t \in Threads, Start(t) \/ Continue(t)
  PROVE  GrantInv'
<1> USE DEF tableVars, bufferVars, Enter, Goto, Keep, Return, FinalizeReturn
<1>1. Granted(t) /\ CallShape /\ Frame(t) /\ ImportAuthorized
  BY StepFrame DEF GrantInv, Shape
<1>2. \A ns : Allowed(ns) => Allowed(ns)'
  <2>1. CASE UNCHANGED nss_
    BY <2>1 DEF Allowed, Known
  <2>2. ASSUME NEW cfg \in Configs, create_namespace(t, cfg)
        PROVE  \A ns : Allowed(ns) => Allowed(ns)'
    <3>1. nss_' = Append(nss_, cfg) /\ nss_ \in Seq([allow_import : BOOLEAN])
      BY <2>2 DEF create_namespace, Shape, TableShape
    <3>2. cfg \in [allow_import : BOOLEAN]
      BY RuntimeAssumption
    <3>3. \A ns \in DOMAIN nss_ : ns \in DOMAIN nss_' /\ nss_'[ns] = nss_[ns]
      BY <3>1, <3>2
    <3>4. QED
      BY <3>3 DEF Allowed, Known
  <2>3. CASE ~(\E cfg \in Configs : create_namespace(t, cfg))
    <3>1. UNCHANGED nss_
      BY <2>3 DEF Start, Continue, import, import_open, allocate, release, shutdown,
                  telemetry, import_target, import_source, next_id, backend, import_domain, import_handle,
                  register_control, finalize, erase, shutdown_snapshot, shutdown_next,
                  total_allocations, total_frees, load, note, runtime_stats
    <3>2. QED
      BY <2>1, <3>1, Zenon
  <2>4. QED
    BY <2>2, <2>3
<1>3. ASSUME NEW u \in Threads, u # t
      PROVE  Granted(u)'
  <2>1. Granted(u) /\ pc'[u] = pc[u] /\ rec'[u] = rec[u] /\ seen'[u] = seen[u]
    BY <1>1, <1>3 DEF Frame, GrantInv
  <2>2. QED
    BY <1>2, <2>1 DEF Granted
<1>4. ASSUME Granted(t)', UNCHANGED registry_
      PROVE  GrantInv'
  <2>1. ImportAuthorized'
    BY <1>1, <1>2, <1>4, Zenon DEF ImportAuthorized, Allowed
  <2>2. QED
    BY <1>3, <1>4, <2>1 DEF GrantInv
<1>5. CASE Start(t)
  <2>1. UNCHANGED registry_
    BY <1>5, Zenon
       DEF Start, create_namespace, import, import_open, allocate, release, shutdown,
                telemetry
  <2>2. CASE UNCHANGED <<pc, rec, seen>>
    BY <1>1, <1>2, <1>4, <2>1, <2>2 DEF Granted
  <2>3. CASE pc'[t] \in {"import_target", "finalize", "snapshot", "stats"}
    BY <1>4, <2>1, <2>3 DEF Granted
  <2>4. CASE allocate(t)
    <3>1. rec'[t].kind = "RUNTIME" /\ pc'[t] = "next_id"
      BY <1>1, <2>4, Zenon DEF allocate, NoRecord, CallShape
    <3>2. QED
      BY <1>4, <2>1, <3>1 DEF Granted
  <2>5. QED
    BY <1>1, <1>5, <2>2, <2>3, <2>4, Zenon
       DEF Start, create_namespace, import, import_open, release,
                                        shutdown, telemetry, CallShape
<1>6. CASE import_target(t)
  <2>1. UNCHANGED <<registry_, nss_>>
    BY <1>6, Zenon DEF import_target
  <2>2. CASE Known(rec[t].ns) /\ Keep(t, "import_source", Allows(nss_[rec[t].ns]))
    <3>1. pc'[t] = "import_source" /\ rec'[t] = rec[t] /\ seen'[t] = Allows(nss_[rec[t].ns])
      BY <1>1, <2>2, Zenon DEF CallShape
    <3>2. seen'[t] = 1 => Allowed(rec[t].ns)
      BY <2>2, <3>1 DEF Allows, Allowed
    <3>3. QED
      BY <1>2, <1>4, <2>1, <3>1, <3>2, Zenon DEF Granted
  <2>3. CASE Return(t)
    <3>1. pc'[t] = "idle"
      BY <1>1, <2>3 DEF CallShape
    <3>2. QED
      BY <1>4, <2>1, <3>1 DEF Granted
  <2>4. QED
    BY <1>6, <2>2, <2>3, Zenon DEF import_target
<1>7. CASE import_source(t)
  <2>1. UNCHANGED <<registry_, nss_>>
    BY <1>7, Zenon DEF import_source
  <2>2. CASE Authorized(t) /\ Goto(t, "next_id")
    <3>1. pc'[t] = "next_id" /\ rec'[t] = rec[t]
      BY <1>1, <2>2, Zenon DEF CallShape
    <3>2. rec[t].from = rec[t].ns /\ Allowed(rec[t].ns)
      BY <1>1, <1>7, <2>2, Zenon DEF import_source, Authorized, Granted
    <3>3. QED
      BY <1>2, <1>4, <2>1, <3>1, <3>2 DEF Granted
  <2>3. CASE Return(t)
    <3>1. pc'[t] = "idle"
      BY <1>1, <2>3 DEF CallShape
    <3>2. QED
      BY <1>4, <2>1, <3>1 DEF Granted
  <2>4. QED
    BY <1>7, <2>2, <2>3 DEF import_source
<1>8. CASE next_id(t) \/ backend(t) \/ import_domain(t) \/ import_handle(t) \/ note(t)
  <2>1. /\ UNCHANGED registry_
        /\ \/ /\ pc[t] \in {"next_id", "backend", "import_domain", "import_handle", "crc_note", "import_note"}
              /\ rec'[t].ns = rec[t].ns /\ rec'[t].from = rec[t].from
              /\ rec'[t].kind = rec[t].kind
              /\ pc'[t] # "import_source"
           \/ pc'[t] \in {"idle", "shutdown_next"}
    BY <1>1, <1>8 DEF next_id, backend, import_domain, import_handle, note, CallShape, Records
  <2>2. Granted(t)'
    BY <1>1, <1>2, <2>1 DEF Granted
  <2>3. QED
    BY <1>4, <2>1, <2>2
<1>9. CASE register_control(t)
  <2>1. /\ rec[t].kind = "IMPORTED" => rec[t].from = rec[t].ns /\ Allowed(rec[t].ns)
        /\ registry_' \subseteq registry_ \cup {rec[t]}
        /\ pc'[t] = "allocations_load"
    BY <1>1, <1>9 DEF register_control, Granted, CallShape
  <2>2. Granted(t)'
    BY <2>1, Zenon DEF Granted
  <2>3. ASSUME NEW b \in registry_', b.kind = "IMPORTED"
        PROVE  b.from = b.ns /\ Allowed(b.ns)'
    BY <1>1, <1>2, <2>1, <2>3, Zenon DEF ImportAuthorized, Allowed
  <2>4. ImportAuthorized'
    BY <2>3 DEF ImportAuthorized, Allowed
  <2>5. QED
    BY <1>3, <2>2, <2>4, Zenon DEF GrantInv
<1>10. CASE erase(t)
  <2>1. registry_' \subseteq registry_ /\ pc'[t] = "frees_load"
    BY <1>1, <1>10, Zenon DEF erase, CallShape
  <2>2. ImportAuthorized'
    BY <1>1, <1>2, <2>1, Zenon DEF ImportAuthorized, Allowed
  <2>3. QED
    BY <1>3, <2>1, <2>2, Zenon DEF GrantInv, Granted
<1>11. CASE \/ finalize(t) \/ shutdown_snapshot(t) \/ shutdown_next(t)
            \/ total_allocations(t) \/ total_frees(t) \/ runtime_stats(t)
  <2>1. /\ UNCHANGED registry_
        /\ pc'[t] \in {"idle", "erase", "finalize", "shutdown_next", "allocations_store",
                       "frees_store", "finalize_note", "reported"}
    BY <1>1, <1>11 DEF finalize, shutdown_snapshot, shutdown_next, total_allocations,
                       total_frees, load, runtime_stats, CallShape
  <2>2. QED
    BY <1>4, <2>1, Zenon DEF Granted
<1>12. QED
  BY <1>5, <1>6, <1>7, <1>8, <1>9, <1>10, <1>11, Zenon DEF Continue
-----------------------------------------------------------------------------
(***************************************************************************)
(* IdsUnique.                                                              *)
(***************************************************************************)
HasNew == {"backend", "import_domain", "import_handle", "crc_note", "import_note", "register_control"}

\* id_counter_ is above every id that was given out.
Below ==
  /\ finalized \subseteq Nat
  /\ \A b \in registry_ : b.id < id_counter_
  /\ \A i \in finalized : i < id_counter_
  /\ \A u \in Threads : rec[u].id < id_counter_ /\ \A b \in todo[u] : b.id < id_counter_

\* The id of a buffer that is being made is nowhere else.
Unshared(t) ==
  /\ rec[t].id # 0
  /\ \A b \in registry_ : b.id # rec[t].id
  /\ rec[t].id \notin finalized
  /\ \A u \in Threads : (u # t => rec[u].id # rec[t].id) /\ \A b \in todo[u] : b.id # rec[t].id
IdInv == Below /\ \A t \in Threads : pc[t] \in HasNew => Unshared(t)

\* The ids that a thread takes up in a step, unless it draws a new one, are
\* known already; while it makes a buffer it publishes nothing.
KnownIds(t) ==
  /\ UNCHANGED id_counter_
  /\ registry_' \subseteq registry_ \cup {rec[t]}
  /\ finalized' \subseteq finalized \cup {rec[t].id}
  /\ todo'[t] \subseteq todo[t] \cup registry_
  /\ \/ rec'[t] = rec[t] \/ rec'[t].id = 0
     \/ rec'[t] \in registry_ \/ rec'[t] \in todo[t]
  /\ pc'[t] \in HasNew => /\ pc[t] \in HasNew /\ rec'[t] = rec[t] /\ todo'[t] = todo[t]
                          /\ registry_' \subseteq registry_ /\ finalized' = finalized

\* Every step but next_id is of that form.
LEMMA StepKnownIds ==
  ASSUME Shape, NEW t \in Threads, Start(t) \/ Continue(t), ~next_id(t)
  PROVE  KnownIds(t)
<1> USE DEF tableVars, bufferVars, Enter, Goto, Keep, Return, FinalizeReturn, NoRecord
<1>1. CallShape
  BY DEF Shape
<1>2. CASE \E cfg \in Configs : create_namespace(t, cfg)
  BY <1>1, <1>2, Zenon DEF create_namespace, KnownIds
<1>3. CASE \E ns, from \in NamespaceId : import(t, ns, from)
  BY <1>1, <1>3 DEF import, import_open, KnownIds, CallShape, HasNew
<1>4. CASE \E b \in registry_ : release(t, b)
  BY <1>1, <1>4 DEF release, KnownIds, CallShape, HasNew
<1>5. CASE allocate(t) \/ shutdown(t) \/ telemetry(t)
  BY <1>1, <1>5 DEF allocate, shutdown, telemetry, KnownIds, CallShape, HasNew
<1>6. CASE import_target(t) \/ import_source(t)
  BY <1>1, <1>6 DEF import_target, import_source, KnownIds, CallShape, HasNew
<1>7. CASE backend(t) \/ import_domain(t) \/ import_handle(t) \/ register_control(t)
  BY <1>1, <1>7 DEF backend, import_domain, import_handle, register_control, KnownIds, CallShape, HasNew
<1>8. CASE finalize(t) \/ erase(t)
  BY <1>1, <1>8 DEF finalize, erase, KnownIds, CallShape, HasNew
<1>9. CASE shutdown_snapshot(t)
  BY <1>1, <1>9, Zenon DEF shutdown_snapshot, KnownIds, CallShape, HasNew
<1>10. CASE shutdown_next(t)
  BY <1>1, <1>10 DEF shutdown_next, KnownIds, CallShape, HasNew
<1>11. CASE total_allocations(t) \/ total_frees(t)
  BY <1>1, <1>11 DEF total_allocations, total_frees, load, KnownIds, CallShape, HasNew
<1>12. CASE note(t)
  BY <1>1, <1>12 DEF note, KnownIds, CallShape, HasNew
<1>13. CASE runtime_stats(t)
  BY <1>1, <1>13 DEF runtime_stats, KnownIds, CallShape, HasNew
<1>14. QED
  BY <1>2, <1>3, <1>4, <1>5, <1>6, <1>7, <1>8, <1>9, <1>10, <1>11, <1>12, <1>13, Zenon
  DEF Start, Continue

\* Every step keeps the ids apart.
LEMMA StepIds ==
  ASSUME Shape, IdInv, NEW t \in Threads, Start(t) \/ Continue(t)
  PROVE  IdInv'
<1>1. Frame(t) /\ CallShape /\ Below
  BY StepFrame DEF Shape, IdInv
<1>2. /\ id_counter_ \in Nat \ {0} /\ rec[t].id \in Nat
      /\ \A u \in Threads : rec[u].id \in Nat
      /\ \A b \in registry_ : b.id \in Nat
      /\ \A u \in Threads : \A b \in todo[u] : b.id \in Nat
  BY RecordFacts, RuntimeAssumption DEF Shape, CallShape, TableShape
<1>3. CASE next_id(t)
  <2>1. /\ id_counter_' = id_counter_ + 1 /\ rec'[t].id = id_counter_
        /\ UNCHANGED <<registry_, finalized, todo>>
    BY <1>3 DEF next_id, fresh, Shape, CallShape, Records
  <2>2. ASSUME NEW u \in Threads, u # t
        PROVE  rec'[u] = rec[u] /\ pc'[u] = pc[u]
    BY <1>1, <2>2 DEF Frame
  <2>3. Below'
    <3>1. \A u \in Threads : rec'[u].id < id_counter_'
      BY <1>1, <1>2, <2>1, <2>2 DEF Below
    <3>2. \A u \in Threads : \A b \in todo'[u] : b.id < id_counter_'
      BY <1>1, <1>2, <2>1 DEF Below
    <3>3. /\ finalized' \subseteq Nat /\ \A b \in registry_' : b.id < id_counter_'
          /\ \A i \in finalized' : i < id_counter_'
      BY <1>1, <1>2, <2>1 DEF Below
    <3>4. QED
      BY <3>1, <3>2, <3>3, Zenon DEF Below
  <2>4. Unshared(t)'
    <3>1. id_counter_ # 0 /\ id_counter_ \notin finalized
      BY <1>1, <1>2 DEF Below
    <3>2. /\ \A b \in registry_ : b.id # id_counter_
          /\ \A u \in Threads : rec[u].id # id_counter_ /\ \A b \in todo[u] : b.id # id_counter_
      BY <1>1, <1>2 DEF Below
    <3>3. QED
      BY <2>1, <2>2, <3>1, <3>2 DEF Unshared
  <2>5. ASSUME NEW u \in Threads, u # t, pc'[u] \in HasNew
        PROVE  Unshared(u)'
    <3>1. Unshared(u) /\ rec'[u] = rec[u]
      BY <2>2, <2>5 DEF IdInv
    <3>2. rec[u].id # id_counter_
      BY <1>1, <1>2 DEF Below
    <3>3. QED
      BY <2>1, <2>2, <3>1, <3>2, Zenon DEF Unshared
  <2>6. QED
    BY <2>3, <2>4, <2>5 DEF IdInv
<1>4. CASE ~next_id(t)
  <2>1. KnownIds(t)
    BY <1>4, StepKnownIds, Zenon
  <2>2. ASSUME NEW u \in Threads, u # t
        PROVE  rec'[u] = rec[u] /\ pc'[u] = pc[u] /\ todo'[u] = todo[u]
    BY <1>1, <2>2, Zenon DEF Frame
  <2>3. Below'
    <3>1. \A b \in registry_' : b.id < id_counter_'
      BY <1>1, <2>1, Zenon DEF Below, KnownIds
    <3>2. finalized' \subseteq Nat /\ \A i \in finalized' : i < id_counter_'
      BY <1>1, <1>2, <2>1, Zenon DEF Below, KnownIds
    <3>3. rec'[t].id < id_counter_' /\ \A b \in todo'[t] : b.id < id_counter_'
      BY <1>1, <1>2, <2>1 DEF Below, KnownIds
    <3>4. QED
      BY <1>1, <2>1, <2>2, <3>1, <3>2, <3>3, Zenon DEF Below, KnownIds
  <2>4. ASSUME pc'[t] \in HasNew
        PROVE  Unshared(t)'
    <3>1. Unshared(t)
      BY <2>1, <2>4, Zenon DEF IdInv, KnownIds
    <3>2. QED
      BY <2>1, <2>2, <2>4, <3>1, Zenon DEF Unshared, KnownIds
  <2>5. ASSUME NEW u \in Threads, u # t, pc'[u] \in HasNew
        PROVE  Unshared(u)'
    <3>1. Unshared(u) /\ rec'[u] = rec[u]
      BY <2>2, <2>5, Zenon DEF IdInv
    <3>2. rec[t].id # rec[u].id
      BY <2>5, <3>1, Zenon DEF Unshared
    <3>3. rec'[t].id # rec[u].id /\ \A b \in todo'[t] : b.id # rec[u].id
      BY <2>1, <3>1, <3>2, Zenon DEF Unshared, KnownIds
    <3>4. (\A b \in registry_' : b.id # rec[u].id) /\ rec[u].id \notin finalized'
      BY <2>1, <3>1, <3>2 DEF Unshared, KnownIds
    <3>5. QED
      BY <2>2, <3>1, <3>3, <3>4, Zenon DEF Unshared
  <2>6. QED
    BY <2>3, <2>4, <2>5 DEF IdInv
<1>5. QED
  BY <1>3, <1>4
-----------------------------------------------------------------------------
IInv == Shape /\ RaceInv /\ GrantInv /\ IdInv

\* Init establishes the inductive invariant.
LEMMA InitIInv == Init => IInv
<1> SUFFICES ASSUME Init PROVE IInv
  OBVIOUS
<1>1. Shape
  BY InitShape
<1>2. RaceInv
  BY Zenon DEF Init, RaceInv, Race
<1>3. GrantInv
  BY DEF Init, GrantInv, ImportAuthorized, Granted
<1>4. IdInv
  BY DEF Init, IdInv, Below, HasNew, NoRecord
<1>5. QED
  BY <1>1, <1>2, <1>3, <1>4 DEF IInv

\* Every step keeps it.
LEMMA NextIInv == IInv /\ [Next]_vars => IInv'
<1> SUFFICES ASSUME IInv, [Next]_vars PROVE IInv'
  OBVIOUS
<1>1. CASE UNCHANGED vars
  <2>1. Shape'
    BY <1>1, Zenon DEF IInv, Shape, CallShape, TableShape, vars
  <2>2. RaceInv'
    BY <1>1, Zenon DEF IInv, RaceInv, Race, vars
  <2>3. GrantInv'
    BY <1>1, Zenon DEF IInv, GrantInv, ImportAuthorized, Granted, Allowed, Known, vars
  <2>4. IdInv'
    BY <1>1 DEF IInv, IdInv, Below, Unshared, vars
  <2>5. QED
    BY <2>1, <2>2, <2>3, <2>4, Zenon DEF IInv
<1>2. ASSUME NEW t \in Threads, Start(t) \/ Continue(t)
      PROVE  IInv'
  BY <1>2, StepShape, StepRace, StepGrant, StepIds DEF IInv
<1>3. QED
  BY <1>1, <1>2 DEF Next

\* allocate_record calls through a reset backend only if shutdown overtook a
\* call that had found the runtime open.
THEOREM CrashesNeedRace == Spec => []CrashNeedsRace
<1>1. IInv => CrashNeedsRace
  BY DEF IInv, RaceInv, Race, CrashNeedsRace
<1>2. QED
  BY <1>1, InitIInv, NextIInv, PTL DEF Spec

\* import_descriptor registers only what the namespace table authorizes, with
\* the table read twice and growing in between.
THEOREM ImportsAreAuthorized == Spec => []ImportAuthorized
<1>1. IInv => ImportAuthorized
  BY Zenon DEF IInv, GrantInv
<1>2. QED
  BY <1>1, InitIInv, NextIInv, PTL DEF Spec

\* next_id never gives out the id of a buffer that is registered, finalized or
\* being made, so that register_control replaces nothing.
THEOREM IdsAreUnique == Spec => []IdsUnique
<1>1. IInv => IdsUnique
  BY Zenon DEF IInv, IdInv, HasNew, Unshared, IdsUnique
<1>2. QED
  BY <1>1, InitIInv, NextIInv, PTL DEF Spec
-----------------------------------------------------------------------------
(***************************************************************************)
(* RegistryDrains.                                                         *)
(***************************************************************************)
\* Only register_control adds a buffer, and a call that makes a buffer begins
\* only while the runtime is open.
LEMMA CreatingSteps ==
  ASSUME Shape, NEW t \in Threads, Start(t) \/ Continue(t)
  PROVE  /\ pc[t] \in Creating \/ registry_' \subseteq registry_
         /\ pc'[t] \in Creating => pc[t] \in Creating \/ ~closed_
<1> USE DEF tableVars, bufferVars, Enter, Goto, Keep, Return, FinalizeReturn, Creating
<1>1. CallShape
  BY Zenon DEF Shape
<1>2. CASE Start(t)
  BY <1>1, <1>2 DEF Start, create_namespace, import, import_open, allocate, release, shutdown,
                    telemetry, CallShape
<1>3. CASE \/ import_target(t) \/ import_source(t) \/ next_id(t) \/ backend(t)
           \/ import_domain(t) \/ import_handle(t) \/ register_control(t)
  <2>1. pc[t] \in Creating
    BY <1>3 DEF import_target, import_source, next_id, backend, import_domain, import_handle,
                register_control
  <2>2. QED
    BY <2>1
<1>4. CASE \/ finalize(t) \/ erase(t) \/ shutdown_snapshot(t) \/ shutdown_next(t)
           \/ total_allocations(t) \/ total_frees(t) \/ runtime_stats(t)
  BY <1>1, <1>4, Zenon DEF finalize, erase, shutdown_snapshot, shutdown_next, total_allocations,
                    total_frees, load, runtime_stats, CallShape
<1>5. CASE note(t)
  BY <1>1, <1>5 DEF note, CallShape
<1>6. QED
  BY <1>2, <1>3, <1>4, <1>5 DEF Continue
-----------------------------------------------------------------------------
(***************************************************************************)
(* LogKeepsNewest.                                                         *)
(***************************************************************************)
\* The least of two numbers.
LEMMA LeastOfTwo ==
  ASSUME NEW a \in Nat, NEW b \in Nat
  PROVE  Min({a, b}) = IF a <= b THEN a ELSE b
BY DEF Min

\* The tail of a sequence that is not empty.
LEMMA TailOfSequence ==
  ASSUME NEW s \in Seq(Nat), Len(s) # 0
  PROVE  /\ Tail(s) \in Seq(Nat) /\ Len(Tail(s)) = Len(s) - 1
         /\ \A i \in 1 .. Len(s) - 1 : Tail(s)[i] = s[i + 1]
<1>1. s # << >>
  OBVIOUS
<1>2. QED
  BY <1>1, HeadTailProperties

\* note appends to the log and drops the oldest entry of a full one.
LEMMA LoggedKeepsNewest ==
  ASSUME NEW n \in Nat, NEW kept \in Nat, kept <= n,
         NEW log, log = [i \in 1 .. kept |-> n - kept + i],
         kept = IF n <= kLog + 1 THEN n ELSE kLog + 1
  PROVE  logged(log, n + 1) =
           IF kept > kLog THEN [i \in 1 .. kept |-> n + 1 - kept + i]
                          ELSE [i \in 1 .. kept + 1 |-> n - kept + i]
<1>1. log \in Seq(Nat) /\ Len(log) = kept
  <2>1. log \in [1 .. kept -> Nat]
    OBVIOUS
  <2>2. QED
    BY <2>1, SeqDef
<1>2. CASE kept > kLog
  <2>1. kept \in Nat \ {0}
    BY <1>2, RuntimeAssumption
  <2>2. PICK rest : rest = Tail(log)
    BY Zenon
  <2>3. Len(log) # 0
    BY <1>1, <2>1
  <2>4. /\ rest \in Seq(Nat) /\ Len(rest) = kept - 1
        /\ \A i \in 1 .. kept - 1 : rest[i] = log[i + 1]
    BY <1>1, <2>2, <2>3, TailOfSequence, Zenon
  <2> DEFINE new == Append(rest, n + 1)
             want == [i \in 1 .. kept |-> n + 1 - kept + i]
  <2>5. /\ new \in Seq(Nat) /\ Len(new) = kept
        /\ \A i \in 1 .. kept - 1 : new[i] = rest[i]
        /\ new[kept] = n + 1
    BY <2>1, <2>4
  <2>6. \A i \in 1 .. kept : new[i] = want[i]
    <3> SUFFICES ASSUME NEW i \in 1 .. kept PROVE new[i] = want[i]
      BY Zenon
    <3>1. CASE i = kept
      BY <2>5, <3>1
    <3>2. CASE i # kept
      <4>1. i \in 1 .. kept - 1 /\ i + 1 \in 1 .. kept
        BY <3>2
      <4>2. new[i] = rest[i] /\ rest[i] = log[i + 1]
        BY <2>4, <2>5, <4>1
      <4>3. log[i + 1] = n - kept + (i + 1)
        BY <4>1
      <4>4. want[i] = n + 1 - kept + i
        OBVIOUS
      <4>5. n + 1 - kept + i = n - kept + (i + 1)
        <5>1. \A x, y, z \in Int : x + 1 - y + z = x - y + (z + 1)
          OBVIOUS
        <5>2. n \in Int /\ kept \in Int /\ i \in Int
          OBVIOUS
        <5>3. QED
          BY <5>1, <5>2, ZenonT(30)
      <4>6. QED
        BY <4>2, <4>3, <4>4, <4>5, Zenon
    <3>3. QED
      BY <3>1, <3>2, Zenon
  <2>7. want \in Seq(Nat) /\ Len(want) = kept
    <3>1. want \in [1 .. kept -> Nat]
      OBVIOUS
    <3>2. QED
      BY <3>1, SeqDef, SMTT(30)
  <2>8. new = want
    <3> HIDE DEF new, want
    <3>1. QED
      BY <2>5, <2>6, <2>7, SeqEqual, Zenon
  <2>9. QED
    BY <1>1, <1>2, <2>2, <2>8, Zenon DEF logged
<1>3. CASE ~(kept > kLog)
  <2> DEFINE new == Append(log, n + 1)
             want == [i \in 1 .. kept + 1 |-> n - kept + i]
  <2>1. /\ new \in Seq(Nat) /\ Len(new) = kept + 1
        /\ \A i \in 1 .. kept : new[i] = log[i]
        /\ new[kept + 1] = n + 1
    BY <1>1
  <2>2. \A i \in 1 .. kept + 1 : new[i] = want[i]
    <3> SUFFICES ASSUME NEW i \in 1 .. kept + 1 PROVE new[i] = want[i]
      BY Zenon
    <3>1. CASE i = kept + 1
      BY <2>1, <3>1
    <3>2. CASE i # kept + 1
      <4>1. i \in 1 .. kept
        BY <3>2
      <4>2. QED
        BY <2>1, <4>1
    <3>3. QED
      BY <3>1, <3>2
  <2>3. want \in Seq(Nat) /\ Len(want) = kept + 1
    <3>1. want \in [1 .. kept + 1 -> Nat]
      OBVIOUS
    <3>2. QED
      BY <3>1, SeqDef
  <2>4. new = want
    <3> HIDE DEF new, want
    <3>1. QED
      BY <2>1, <2>2, <2>3, SeqEqual, Zenon
  <2>5. QED
    BY <1>1, <1>3, <2>4 DEF logged
<1>4. QED
  BY <1>2, <1>3

\* Only note changes the log.
LEMMA LogSteps ==
  ASSUME NEW t \in Threads, Start(t) \/ Continue(t)
  PROVE  note(t) \/ UNCHANGED <<dec_, noted>>
<1> USE DEF statVars
<1>1. CASE Start(t)
  BY <1>1, Zenon DEF Start, create_namespace, import, import_open, allocate, release, shutdown,
              telemetry
<1>2. CASE Continue(t)
  BY <1>2 DEF Continue, import_target, import_source, next_id, backend, import_domain, import_handle,
              register_control, finalize, erase, shutdown_snapshot, shutdown_next,
              total_allocations, total_frees, load, runtime_stats
<1>3. QED
  BY <1>1, <1>2

\* What the log is, its length included: one entry more than kLog when full.
LogExact ==
  LET kept == Min({noted, kLog + 1})
  IN  dec_ = [i \in 1 .. kept |-> noted - kept + i]
LogInv == noted \in Nat /\ LogExact

\* Every step keeps the newest notes.
LEMMA StepLog ==
  ASSUME LogInv, NEW t \in Threads, Start(t) \/ Continue(t)
  PROVE  LogInv'
<1>1. CASE UNCHANGED <<dec_, noted>>
  BY <1>1, Zenon DEF LogInv, LogExact
<1>2. CASE note(t)
  <2>1. noted \in Nat /\ noted' = noted + 1 /\ noted' \in Nat /\ dec_' = logged(dec_, noted + 1)
    BY <1>2 DEF note, LogInv
  <2>2. kLog + 1 \in Nat
    BY RuntimeAssumption
  <2> DEFINE Kept(n) == IF n <= kLog + 1 THEN n ELSE kLog + 1
  <2>3. Min({noted, kLog + 1}) = Kept(noted) /\ Min({noted', kLog + 1}) = Kept(noted')
    BY <2>1, <2>2, LeastOfTwo
  <2>4. dec_ = [i \in 1 .. Kept(noted) |-> noted - Kept(noted) + i]
    BY <2>3, Zenon DEF LogInv, LogExact
  <2>5. Kept(noted) \in Nat /\ Kept(noted) <= noted
    BY <2>1, <2>2
  <2>6. logged(dec_, noted + 1) =
          IF Kept(noted) > kLog
            THEN [i \in 1 .. Kept(noted) |-> noted + 1 - Kept(noted) + i]
            ELSE [i \in 1 .. Kept(noted) + 1 |-> noted - Kept(noted) + i]
    <3> HIDE DEF Kept
    <3>1. Kept(noted) = IF noted <= kLog + 1 THEN noted ELSE kLog + 1
      BY DEF Kept
    <3>2. QED
      BY <2>1, <2>4, <2>5, <3>1, LoggedKeepsNewest, Zenon
  <2>7. CASE noted > kLog
    <3>1. Kept(noted) = kLog + 1 /\ Kept(noted') = kLog + 1 /\ Kept(noted) > kLog
      BY <2>1, <2>7, RuntimeAssumption
    <3>2. noted + 1 - Kept(noted) = noted' - Kept(noted') /\ Kept(noted) = Kept(noted')
      BY <2>1, <2>2, <3>1
    <3>3. dec_' = [i \in 1 .. Kept(noted') |-> noted' - Kept(noted') + i]
      <4> HIDE DEF Kept
      <4>1. dec_' = [i \in 1 .. Kept(noted) |-> noted + 1 - Kept(noted) + i]
        BY <2>1, <2>6, <3>1, Zenon
      <4>2. QED
        BY <3>2, <4>1
    <3>4. QED
      BY <2>1, <2>3, <3>3, Zenon DEF LogInv, LogExact
  <2>8. CASE ~(noted > kLog)
    <3>1. Kept(noted) = noted /\ Kept(noted') = noted + 1 /\ ~(Kept(noted) > kLog)
      BY <2>1, <2>8, RuntimeAssumption
    <3>2. noted - Kept(noted) = noted' - Kept(noted') /\ Kept(noted) + 1 = Kept(noted')
      BY <2>1, <3>1
    <3>3. dec_' = [i \in 1 .. Kept(noted') |-> noted' - Kept(noted') + i]
      <4> HIDE DEF Kept
      <4>1. dec_' = [i \in 1 .. Kept(noted) + 1 |-> noted - Kept(noted) + i]
        BY <2>1, <2>6, <3>1, Zenon
      <4>2. QED
        BY <3>2, <4>1, Zenon
    <3>4. QED
      BY <2>1, <2>3, <3>3, Zenon DEF LogInv, LogExact
  <2>9. QED
    BY <2>7, <2>8
<1>3. QED
  BY <1>1, <1>2, LogSteps
-----------------------------------------------------------------------------
(***************************************************************************)
(* What finalize erases is registered.                                     *)
(***************************************************************************)
\* A buffer that a thread is to finalize is registered unless it is finalized
\* already; the one it is about to erase is registered, and no other thread is
\* about to erase it.
Awaits(t) ==
  /\ pc[t] = "finalize" => rec[t].id # 0 /\ (rec[t].id \in finalized \/ rec[t] \in registry_)
  /\ pc[t] = "erase" => rec[t].id \in finalized /\ rec[t] \in registry_
  /\ \A b \in todo[t] : b.id # 0 /\ (b.id \in finalized \/ b \in registry_)
  /\ \A u \in Threads \ {t} : pc[t] = "erase" /\ pc[u] = "erase" => rec[t].id # rec[u].id
EraseInv ==
  /\ \A b \in registry_ : b.id # 0
  /\ \A t \in Threads : Awaits(t)

\* How a thread comes by the buffers that it finalizes and erases.
ErasingStep(t) ==
  /\ finalized \subseteq finalized'
  /\ \/ erase(t)
     \/ registry_' = registry_
     \/ register_control(t)
  /\ pc'[t] = "finalize" => rec'[t] \in registry_ \cup todo[t] /\ UNCHANGED registry_
  /\ pc'[t] = "erase" => /\ pc[t] = "finalize" /\ rec'[t] = rec[t] /\ UNCHANGED registry_
                         /\ rec[t].id \notin finalized /\ rec[t].id \in finalized'
  /\ todo'[t] \subseteq todo[t] \cup registry_
  /\ todo'[t] # todo[t] => UNCHANGED registry_

\* Every step is of that form.
LEMMA ErasingSteps ==
  ASSUME Shape, NEW t \in Threads, Start(t) \/ Continue(t)
  PROVE  ErasingStep(t)
<1> USE DEF tableVars, bufferVars, Enter, Goto, Keep, Return, FinalizeReturn, CallShape
<1>1. CallShape
  BY Zenon DEF Shape
<1>2. CASE Start(t)
  BY <1>1, <1>2, Zenon
     DEF Start, create_namespace, import, import_open, allocate, release, shutdown,
                    telemetry, ErasingStep
<1>3. CASE \/ import_target(t) \/ import_source(t) \/ next_id(t) \/ backend(t)
           \/ import_domain(t) \/ import_handle(t)
  BY <1>1, <1>3, Zenon
     DEF import_target, import_source, next_id, backend, import_domain, import_handle, ErasingStep
<1>4. CASE register_control(t)
  BY <1>1, <1>4, Zenon DEF register_control, ErasingStep
<1>5. CASE finalize(t)
  BY <1>1, <1>5, Zenon DEF finalize, ErasingStep
<1>6. CASE erase(t)
  BY <1>1, <1>6, Zenon DEF erase, ErasingStep
<1>7. CASE shutdown_snapshot(t) \/ shutdown_next(t)
  BY <1>1, <1>7 DEF shutdown_snapshot, shutdown_next, ErasingStep
<1>8. CASE total_allocations(t) \/ total_frees(t) \/ runtime_stats(t)
  BY <1>1, <1>8, Zenon DEF total_allocations, total_frees, load, runtime_stats, ErasingStep
<1>9. CASE note(t)
  BY <1>1, <1>9 DEF note, ErasingStep
<1>10. QED
  BY <1>2, <1>3, <1>4, <1>5, <1>6, <1>7, <1>8, <1>9, Zenon DEF Continue

\* Every step keeps it: only the thread that set finalized erases the buffer.
LEMMA StepErase ==
  ASSUME Shape, IdInv, EraseInv, NEW t \in Threads, Start(t) \/ Continue(t)
  PROVE  EraseInv'
<1>1. Frame(t) /\ ErasingStep(t) /\ CallShape
  BY StepFrame, ErasingSteps DEF Shape
<1>2. \A u \in Threads : Awaits(u)
  BY Zenon DEF EraseInv
<1>3. finalized \subseteq finalized'
  BY <1>1, Zenon DEF ErasingStep
<1>4. CASE erase(t)
  <2>1. /\ pc[t] = "erase" /\ pc'[t] = "frees_load" /\ rec' = rec /\ todo' = todo
        /\ registry_' = {b \in registry_ : b.id # rec[t].id} /\ UNCHANGED finalized
    BY <1>1, <1>4, Zenon DEF erase, Goto, CallShape
  <2>2. rec[t].id \in finalized
    BY <1>2, <2>1, Zenon DEF Awaits
  <2>3. Awaits(t)'
    BY <1>2, <2>1, <2>2, Zenon DEF Awaits
  <2>4. ASSUME NEW u \in Threads, u # t
        PROVE  Awaits(u)'
    <3>1. pc'[u] = pc[u] /\ Awaits(u)
      BY <1>1, <1>2, <2>4, Zenon DEF Frame
    <3>2. pc[u] = "erase" => rec[u].id # rec[t].id
      BY <2>1, <2>4, <3>1, Zenon DEF Awaits
    <3>3. \A v \in Threads \ {u} : pc'[v] = "erase" => pc[v] = "erase"
      BY <1>1, <2>1 DEF Frame
    <3>4. QED
      BY <2>1, <2>2, <3>1, <3>2, <3>3, Zenon DEF Awaits
  <2>5. QED
    BY <2>1, <2>3, <2>4, Zenon DEF EraseInv
<1>5. CASE ~erase(t)
  <2>1. registry_ \subseteq registry_' /\ \A b \in registry_' : b.id # 0
    <3>1. CASE registry_' = registry_
      BY <3>1, Zenon DEF EraseInv
    <3>2. CASE register_control(t)
      <4>1. Unshared(t)
        BY <3>2, Zenon DEF register_control, IdInv, HasNew
      <4>2. QED
        BY <3>2, <4>1, Zenon DEF register_control, Unshared, EraseInv
    <3>3. QED
      BY <1>1, <1>5, <3>1, <3>2 DEF ErasingStep
  <2>2. Awaits(t)'
    <3>1. ASSUME pc'[t] = "finalize"
          PROVE  rec'[t].id # 0 /\ (rec'[t].id \in finalized' \/ rec'[t] \in registry_')
      BY <1>1, <1>2, <1>3, <2>1, <3>1, Zenon DEF ErasingStep, Awaits, EraseInv
    <3>2. ASSUME NEW b \in todo'[t]
          PROVE  b.id # 0 /\ (b.id \in finalized' \/ b \in registry_')
      BY <1>1, <1>2, <1>3, <2>1, <3>2, Zenon DEF ErasingStep, Awaits, EraseInv
    <3>3. ASSUME pc'[t] = "erase"
          PROVE  /\ rec'[t].id \in finalized' /\ rec'[t] \in registry_'
                 /\ \A u \in Threads \ {t} : pc'[u] = "erase" => rec'[t].id # rec'[u].id
      <4>1. /\ pc[t] = "finalize" /\ rec'[t] = rec[t] /\ rec[t].id \notin finalized
            /\ rec[t].id \in finalized'
        BY <1>1, <3>3, Zenon DEF ErasingStep
      <4>2. rec[t] \in registry_'
        BY <1>2, <2>1, <4>1, Zenon DEF Awaits
      <4>3. ASSUME NEW u \in Threads \ {t}, pc'[u] = "erase"
            PROVE  rec'[t].id # rec'[u].id
        BY <1>1, <1>2, <4>1, <4>3, Zenon DEF Frame, Awaits
      <4>4. QED
        BY <4>1, <4>2, <4>3, Zenon
    <3>4. QED
      BY <3>1, <3>2, <3>3, Zenon DEF Awaits
  <2>3. ASSUME NEW u \in Threads, u # t
        PROVE  Awaits(u)'
    <3>1. pc'[u] = pc[u] /\ rec'[u] = rec[u] /\ todo'[u] = todo[u] /\ Awaits(u)
      BY <1>1, <1>2, <2>3, Zenon DEF Frame
    <3>2. ASSUME NEW v \in Threads \ {u}, pc'[u] = "erase", pc'[v] = "erase"
          PROVE  rec'[u].id # rec'[v].id
      <4>1. CASE v = t
        BY <2>2, <2>3, <3>2, <4>1, Zenon DEF Awaits
      <4>2. CASE v # t
        BY <1>1, <3>1, <3>2, <4>2, Zenon DEF Frame, Awaits
      <4>3. QED
        BY <4>1, <4>2, Zenon
    <3>3. QED
      BY <1>3, <2>1, <3>1, <3>2, Zenon DEF Awaits
  <2>4. QED
    BY <2>1, <2>2, <2>3, Zenon DEF EraseInv
<1>6. QED
  BY <1>4, <1>5
-----------------------------------------------------------------------------
(***************************************************************************)
(* CountersNeverOver.                                                      *)
(***************************************************************************)
\* The threads that owe an increment of a counter.  What they have loaded, and
\* the counter, leave room for the increments of all of them.
AtAllocations == {u \in Threads : pc[u] \in {"allocations_load", "allocations_store"}}
AtFrees == {u \in Threads : pc[u] \in {"frees_load", "frees_store"}}
Room ==
  /\ born \in Nat /\ died \in Nat
  /\ IsFiniteSet(AtAllocations) /\ IsFiniteSet(AtFrees)
  /\ telem_.total_allocations + Cardinality(AtAllocations) <= born
  /\ telem_.total_frees + Cardinality(AtFrees) <= died
  /\ \A t \in Threads :
       /\ pc[t] = "allocations_store" => seen[t] + Cardinality(AtAllocations) <= born
       /\ pc[t] = "frees_store" => seen[t] + Cardinality(AtFrees) <= died

\* Everything erased had been registered.
Alive == IsFiniteSet(registry_) /\ Cardinality(registry_) + died <= born

\* The statistics that a thread got; the number of active buffers comes last.
Reported ==
  /\ report \in [total_allocations : Nat, total_frees : Nat, active_buffers : Nat]
  /\ report.total_allocations <= born /\ report.total_frees <= died
  /\ report.active_buffers + report.total_frees <= born
CountInv == Room /\ Alive /\ Reported

\* A step that counts nothing.
Counts(s) == s \in {"allocations_load", "allocations_store", "frees_load", "frees_store"}
Uncounted(t) == ~Counts(pc[t]) /\ ~Counts(pc'[t]) /\ UNCHANGED <<registry_, born, died, telem_>>

\* What the steps do to the counters.
LEMMA CountingSteps ==
  ASSUME Shape, NEW t \in Threads, Start(t) \/ Continue(t)
  PROVE  \/ Uncounted(t)
         \/ register_control(t) \/ erase(t) \/ total_allocations(t) \/ total_frees(t)
<1> USE DEF tableVars, bufferVars, statVars, Enter, Goto, Keep, Return, FinalizeReturn,
            CallShape, Counts
<1>1. CallShape
  BY DEF Shape
<1>2. CASE Start(t)
  BY <1>1, <1>2, Zenon
     DEF Start, create_namespace, import, import_open, allocate, release, shutdown,
                    telemetry, Uncounted
<1>3. CASE \/ import_target(t) \/ import_source(t) \/ next_id(t) \/ backend(t)
           \/ import_domain(t) \/ import_handle(t)
  BY <1>1, <1>3, Zenon
     DEF import_target, import_source, next_id, backend, import_domain, import_handle, Uncounted
<1>4. CASE finalize(t) \/ note(t)
  BY <1>1, <1>4 DEF finalize, note, Uncounted
<1>5. CASE shutdown_snapshot(t) \/ shutdown_next(t) \/ runtime_stats(t)
  BY <1>1, <1>5, Zenon DEF shutdown_snapshot, shutdown_next, runtime_stats, Uncounted
<1>6. QED
  BY <1>2, <1>3, <1>4, <1>5, Zenon DEF Continue

\* One more, or one fewer.
LEMMA OneMore ==
  ASSUME NEW S, IsFiniteSet(S), NEW x
  PROVE  /\ Cardinality(S) \in Nat
         /\ IsFiniteSet(S \cup {x}) /\ IsFiniteSet(S \ {x})
         /\ Cardinality(S \cup {x}) <= Cardinality(S) + 1
         /\ x \in S => Cardinality(S \ {x}) = Cardinality(S) - 1 /\ Cardinality(S) >= 1
<1>1. Cardinality(S) \in Nat
  BY FS_CardinalityType
<1>2. /\ IsFiniteSet(S \cup {x})
      /\ Cardinality(S \cup {x}) = IF x \in S THEN Cardinality(S) ELSE Cardinality(S) + 1
  BY FS_AddElement
<1>3. /\ IsFiniteSet(S \ {x})
      /\ Cardinality(S \ {x}) = IF x \in S THEN Cardinality(S) - 1 ELSE Cardinality(S)
  BY FS_RemoveElement
<1>4. Cardinality(S \ {x}) \in Nat
  BY <1>3, FS_CardinalityType
<1>5. QED
  BY <1>1, <1>2, <1>3, <1>4

\* Every step leaves room for the increments that are owed.
LEMMA StepRoom ==
  ASSUME Shape, Room, NEW t \in Threads, Start(t) \/ Continue(t)
  PROVE  Room' /\ born <= born' /\ died <= died'
<1> USE DEF tableVars, bufferVars, statVars
<1>1. Frame(t) /\ CallShape
  BY StepFrame, Zenon DEF Shape
<1>2. \A u \in Threads \ {t} : pc'[u] = pc[u] /\ seen'[u] = seen[u]
  BY <1>1 DEF Frame
<1>3. /\ \A u \in Threads : seen[u] \in Nat
      /\ telem_.total_allocations \in Nat /\ telem_.total_frees \in Nat
      /\ telem_ \in [total_allocations : Nat, total_frees : Nat]
  BY Zenon DEF Shape, CallShape, TableShape
<1>4. /\ Cardinality(AtAllocations) \in Nat /\ Cardinality(AtFrees) \in Nat
      /\ born \in Nat /\ died \in Nat /\ IsFiniteSet(AtAllocations) /\ IsFiniteSet(AtFrees)
  BY FS_CardinalityType, Zenon DEF Room
<1>5. /\ telem_.total_allocations + Cardinality(AtAllocations) <= born
      /\ telem_.total_frees + Cardinality(AtFrees) <= died
  BY Zenon DEF Room
<1>6. ASSUME NEW u \in Threads, pc[u] = "allocations_store"
      PROVE  seen[u] \in Nat /\ seen[u] + Cardinality(AtAllocations) <= born
  BY <1>3, <1>6, Zenon DEF Room
<1>7. ASSUME NEW u \in Threads, pc[u] = "frees_store"
      PROVE  seen[u] \in Nat /\ seen[u] + Cardinality(AtFrees) <= died
  BY <1>3, <1>7, Zenon DEF Room
<1>8. CASE Uncounted(t)
  <2>1. AtAllocations' = AtAllocations /\ AtFrees' = AtFrees
    BY <1>2, <1>8, Zenon DEF AtAllocations, AtFrees, Uncounted, Counts
  <2>2. ASSUME NEW u \in Threads, Counts(pc'[u])
        PROVE  pc'[u] = pc[u] /\ seen'[u] = seen[u]
    BY <1>2, <1>8, <2>2, Zenon DEF Uncounted
  <2>3. /\ born' = born /\ died' = died /\ telem_' = telem_
        /\ born <= born /\ died <= died
    BY <1>4, <1>8 DEF Uncounted
  <2>4. QED
    BY <1>4, <1>5, <1>6, <1>7, <2>1, <2>2, <2>3, Zenon DEF Room, Counts
<1>9. CASE register_control(t)
  <2>1. /\ pc[t] = "register_control" /\ pc'[t] = "allocations_load" /\ born' = born + 1
        /\ died' = died /\ telem_' = telem_ /\ seen' = seen
    BY <1>1, <1>9, Zenon DEF register_control, Goto, CallShape
  <2>2. AtAllocations' = AtAllocations \cup {t} /\ AtFrees' = AtFrees
    BY <1>2, <2>1, Zenon DEF AtAllocations, AtFrees
  <2>3. /\ IsFiniteSet(AtAllocations') /\ Cardinality(AtAllocations') \in Nat
        /\ Cardinality(AtAllocations') <= Cardinality(AtAllocations) + 1
    BY <1>4, <2>2, OneMore, FS_CardinalityType, Zenon
  <2>4. ASSUME NEW n \in Nat, n + Cardinality(AtAllocations) <= born
        PROVE  n + Cardinality(AtAllocations') <= born'
    BY <1>4, <2>1, <2>3, <2>4
  <2>5. ASSUME NEW u \in Threads
        PROVE  /\ pc'[u] = "allocations_store" => seen'[u] + Cardinality(AtAllocations') <= born'
               /\ pc'[u] = "frees_store" => seen'[u] + Cardinality(AtFrees') <= died'
    BY <1>2, <1>6, <1>7, <2>1, <2>2, <2>4, Zenon
  <2>6. born' \in Nat /\ died' \in Nat /\ born <= born' /\ died <= died'
    BY <1>4, <2>1
  <2>7. QED
    BY <1>3, <1>4, <1>5, <2>1, <2>2, <2>3, <2>4, <2>5, <2>6, Zenon DEF Room
<1>10. CASE erase(t)
  <2>1. /\ pc[t] = "erase" /\ pc'[t] = "frees_load" /\ died' = died + 1
        /\ born' = born /\ telem_' = telem_ /\ seen' = seen
    BY <1>1, <1>10, Zenon DEF erase, Goto, CallShape
  <2>2. AtFrees' = AtFrees \cup {t} /\ AtAllocations' = AtAllocations
    BY <1>2, <2>1, Zenon DEF AtAllocations, AtFrees
  <2>3. /\ IsFiniteSet(AtFrees') /\ Cardinality(AtFrees') \in Nat
        /\ Cardinality(AtFrees') <= Cardinality(AtFrees) + 1
    BY <1>4, <2>2, OneMore, FS_CardinalityType, Zenon
  <2>4. ASSUME NEW n \in Nat, n + Cardinality(AtFrees) <= died
        PROVE  n + Cardinality(AtFrees') <= died'
    BY <1>4, <2>1, <2>3, <2>4
  <2>5. ASSUME NEW u \in Threads
        PROVE  /\ pc'[u] = "allocations_store" => seen'[u] + Cardinality(AtAllocations') <= born'
               /\ pc'[u] = "frees_store" => seen'[u] + Cardinality(AtFrees') <= died'
    BY <1>2, <1>6, <1>7, <2>1, <2>2, <2>4, Zenon
  <2>6. born' \in Nat /\ died' \in Nat /\ born <= born' /\ died <= died'
    BY <1>4, <2>1
  <2>7. QED
    BY <1>3, <1>4, <1>5, <2>1, <2>2, <2>3, <2>4, <2>5, <2>6, Zenon DEF Room
<1>11. CASE load(t, "allocations_load", "total_allocations", "allocations_store")
  <2>1. /\ pc[t] = "allocations_load" /\ pc'[t] = "allocations_store" /\ telem_' = telem_
        /\ seen'[t] = telem_.total_allocations /\ born' = born /\ died' = died
    BY <1>1, <1>11 DEF load, Keep, CallShape
  <2>2. AtAllocations' = AtAllocations /\ AtFrees' = AtFrees
    BY <1>2, <2>1, Zenon DEF AtAllocations, AtFrees
  <2>3. ASSUME NEW u \in Threads
        PROVE  /\ pc'[u] = "allocations_store" => seen'[u] + Cardinality(AtAllocations') <= born'
               /\ pc'[u] = "frees_store" => seen'[u] + Cardinality(AtFrees') <= died'
    <3>1. CASE u = t
      BY <1>5, <2>1, <2>2, <3>1, Zenon
    <3>2. CASE u # t
      BY <1>2, <1>6, <1>7, <2>1, <2>2, <3>2, Zenon
    <3>3. QED
      BY <3>1, <3>2
  <2>4. born <= born /\ died <= died
    BY <1>4
  <2>5. QED
    BY <1>4, <1>5, <2>1, <2>2, <2>3, <2>4, Zenon DEF Room
<1>12. CASE load(t, "frees_load", "total_frees", "frees_store")
  <2>1. /\ pc[t] = "frees_load" /\ pc'[t] = "frees_store" /\ telem_' = telem_
        /\ seen'[t] = telem_.total_frees /\ born' = born /\ died' = died
    BY <1>1, <1>12 DEF load, Keep, CallShape
  <2>2. AtAllocations' = AtAllocations /\ AtFrees' = AtFrees
    BY <1>2, <2>1, Zenon DEF AtAllocations, AtFrees
  <2>3. ASSUME NEW u \in Threads
        PROVE  /\ pc'[u] = "allocations_store" => seen'[u] + Cardinality(AtAllocations') <= born'
               /\ pc'[u] = "frees_store" => seen'[u] + Cardinality(AtFrees') <= died'
    <3>1. CASE u = t
      BY <1>5, <2>1, <2>2, <3>1, Zenon
    <3>2. CASE u # t
      BY <1>2, <1>6, <1>7, <2>1, <2>2, <3>2, Zenon
    <3>3. QED
      BY <3>1, <3>2
  <2>4. born <= born /\ died <= died
    BY <1>4
  <2>5. QED
    BY <1>4, <1>5, <2>1, <2>2, <2>3, <2>4, Zenon DEF Room
<1>13. CASE total_allocations(t) /\ pc[t] = "allocations_store"
  <2>1. /\ pc'[t] = "idle" /\ telem_'.total_allocations = seen[t] + 1
        /\ telem_'.total_frees = telem_.total_frees /\ born' = born /\ died' = died
    BY <1>1, <1>3, <1>13 DEF total_allocations, load, incremented, Return, CallShape
  <2>2. AtAllocations' = AtAllocations \ {t} /\ AtFrees' = AtFrees /\ t \in AtAllocations
    BY <1>2, <1>13, <2>1, Zenon DEF AtAllocations, AtFrees
  <2>3. /\ IsFiniteSet(AtAllocations') /\ Cardinality(AtAllocations) >= 1
        /\ Cardinality(AtAllocations') = Cardinality(AtAllocations) - 1
    BY <1>4, <2>2, OneMore
  <2>4. ASSUME NEW n \in Nat, n + Cardinality(AtAllocations) <= born
        PROVE  /\ n + Cardinality(AtAllocations') <= born'
               /\ n + 1 + Cardinality(AtAllocations') <= born'
    BY <1>4, <2>1, <2>3, <2>4
  <2>5. telem_'.total_allocations + Cardinality(AtAllocations') <= born'
    BY <1>6, <1>13, <2>1, <2>4, Zenon
  <2>6. ASSUME NEW u \in Threads
        PROVE  /\ pc'[u] = "allocations_store" => seen'[u] + Cardinality(AtAllocations') <= born'
               /\ pc'[u] = "frees_store" => seen'[u] + Cardinality(AtFrees') <= died'
    <3>1. CASE u = t
      BY <2>1, <3>1
    <3>2. CASE u # t
      BY <1>2, <1>6, <1>7, <2>1, <2>2, <2>4, <3>2, Zenon
    <3>3. QED
      BY <3>1, <3>2
  <2>7. born <= born /\ died <= died
    BY <1>4
  <2>8. QED
    BY <1>4, <1>5, <2>1, <2>2, <2>3, <2>5, <2>6, <2>7, Zenon DEF Room
<1>14. CASE total_frees(t) /\ pc[t] = "frees_store"
  <2>1. /\ pc'[t] = "finalize_note" /\ telem_'.total_frees = seen[t] + 1
        /\ telem_'.total_allocations = telem_.total_allocations /\ born' = born /\ died' = died
    BY <1>1, <1>3, <1>14 DEF total_frees, load, incremented, Goto, CallShape
  <2>2. AtFrees' = AtFrees \ {t} /\ AtAllocations' = AtAllocations /\ t \in AtFrees
    BY <1>2, <1>14, <2>1, Zenon DEF AtAllocations, AtFrees
  <2>3. /\ IsFiniteSet(AtFrees') /\ Cardinality(AtFrees) >= 1
        /\ Cardinality(AtFrees') = Cardinality(AtFrees) - 1
    BY <1>4, <2>2, OneMore
  <2>4. ASSUME NEW n \in Nat, n + Cardinality(AtFrees) <= died
        PROVE  /\ n + Cardinality(AtFrees') <= died'
               /\ n + 1 + Cardinality(AtFrees') <= died'
    BY <1>4, <2>1, <2>3, <2>4
  <2>5. telem_'.total_frees + Cardinality(AtFrees') <= died'
    BY <1>7, <1>14, <2>1, <2>4, Zenon
  <2>6. ASSUME NEW u \in Threads
        PROVE  /\ pc'[u] = "allocations_store" => seen'[u] + Cardinality(AtAllocations') <= born'
               /\ pc'[u] = "frees_store" => seen'[u] + Cardinality(AtFrees') <= died'
    <3>1. CASE u = t
      BY <2>1, <3>1
    <3>2. CASE u # t
      BY <1>2, <1>6, <1>7, <2>1, <2>2, <2>4, <3>2, Zenon
    <3>3. QED
      BY <3>1, <3>2
  <2>7. born <= born /\ died <= died
    BY <1>4
  <2>8. QED
    BY <1>4, <1>5, <2>1, <2>2, <2>3, <2>5, <2>6, <2>7, Zenon DEF Room
<1>15. QED
  BY <1>8, <1>9, <1>10, <1>11, <1>12, <1>13, <1>14, CountingSteps, Zenon
  DEF total_allocations, total_frees

\* Every step keeps the number of erased buffers below that of registered ones:
\* an erase takes at least one buffer out of the registry.
LEMMA StepAlive ==
  ASSUME Shape, Room, Alive, EraseInv, NEW t \in Threads, Start(t) \/ Continue(t)
  PROVE  Alive'
<1>1. Cardinality(registry_) \in Nat /\ born \in Nat /\ died \in Nat /\ IsFiniteSet(registry_)
  BY FS_CardinalityType DEF Alive, Room
<1>2. CASE register_control(t)
  <2> DEFINE others == {b \in registry_ : b.id # rec[t].id}
  <2>1. registry_' = others \cup {rec[t]} /\ born' = born + 1 /\ died' = died
    BY <1>2, Zenon DEF register_control
  <2>2. IsFiniteSet(others) /\ Cardinality(others) <= Cardinality(registry_)
    BY <1>1, FS_Subset, Zenon
  <2>3. Cardinality(others) \in Nat
    BY <2>2, FS_CardinalityType
  <2> HIDE DEF others
  <2>4. /\ IsFiniteSet(registry_') /\ Cardinality(registry_') \in Nat
        /\ Cardinality(registry_') <= Cardinality(others) + 1
    BY <2>1, <2>2, OneMore, FS_CardinalityType, Zenon
  <2>5. Cardinality(registry_) + died <= born
    BY Zenon DEF Alive
  <2>6. Cardinality(registry_') + died' <= born'
    BY <1>1, <2>1, <2>2, <2>3, <2>4, <2>5
  <2>7. QED
    BY <2>4, <2>6, Zenon DEF Alive
<1>3. CASE erase(t)
  <2>1. registry_' = {b \in registry_ : b.id # rec[t].id} /\ born' = born /\ died' = died + 1
    BY <1>3, Zenon DEF erase
  <2>2. rec[t] \in registry_
    BY <1>3, Zenon DEF erase, EraseInv, Awaits
  <2>3. /\ IsFiniteSet(registry_ \ {rec[t]})
        /\ Cardinality(registry_ \ {rec[t]}) = Cardinality(registry_) - 1
    BY <1>1, <2>2, OneMore, Zenon
  <2>4. registry_' \subseteq registry_ \ {rec[t]}
    BY <2>1, Zenon
  <2>5. /\ IsFiniteSet(registry_') /\ Cardinality(registry_') \in Nat
        /\ Cardinality(registry_') <= Cardinality(registry_) - 1
    BY <2>3, <2>4, FS_Subset, FS_CardinalityType
  <2>6. Cardinality(registry_) + died <= born
    BY Zenon DEF Alive
  <2>7. Cardinality(registry_') + died' <= born'
    BY <1>1, <2>1, <2>5, <2>6
  <2>8. QED
    BY <2>5, <2>7, Zenon DEF Alive
<1>4. CASE ~register_control(t) /\ ~erase(t)
  <2>1. UNCHANGED <<registry_, born, died>>
    BY <1>4, CountingSteps DEF Uncounted, total_allocations, total_frees, load, bufferVars
  <2>2. QED
    BY <2>1 DEF Alive
<1>5. QED
  BY <1>2, <1>3, <1>4, Zenon

\* The statistics are taken by telemetry and runtime_stats.
LEMMA ReportSteps ==
  ASSUME NEW t \in Threads, Start(t) \/ Continue(t)
  PROVE  telemetry(t) \/ runtime_stats(t) \/ UNCHANGED report
<1> USE DEF statVars
<1>1. CASE Start(t)
  BY <1>1, Zenon DEF Start, create_namespace, import, import_open, allocate, release, shutdown
<1>2. CASE Continue(t)
  BY <1>2, Zenon DEF Continue, import_target, import_source, next_id, backend, import_domain, import_handle,
              register_control, finalize, erase, shutdown_snapshot, shutdown_next,
              total_allocations, total_frees, load, note
<1>3. QED
  BY <1>1, <1>2

\* Every step keeps the statistics below what has happened.  The counters are
\* read before the registry is, and erased buffers are counted after they
\* have left it.
LEMMA StepReported ==
  ASSUME Shape, CountInv, NEW t \in Threads, Start(t) \/ Continue(t)
  PROVE  Reported'
<1>1. /\ born \in Nat /\ died \in Nat /\ born <= born' /\ died <= died'
      /\ born' \in Nat /\ died' \in Nat
  BY StepRoom DEF CountInv, Room
<1>2. /\ report \in [total_allocations : Nat, total_frees : Nat, active_buffers : Nat]
      /\ report.total_allocations \in Nat /\ report.total_frees \in Nat
      /\ report.active_buffers \in Nat
  BY Zenon DEF CountInv, Reported
<1>3. /\ Cardinality(registry_) \in Nat /\ Cardinality(registry_) + died <= born
      /\ Cardinality(AtAllocations) \in Nat /\ Cardinality(AtFrees) \in Nat
  BY FS_CardinalityType, Zenon DEF CountInv, Alive, Room
<1>4. /\ telem_.total_allocations \in Nat /\ telem_.total_frees \in Nat
      /\ telem_.total_allocations <= born /\ telem_.total_frees <= died
  <2>1. telem_.total_allocations \in Nat /\ telem_.total_frees \in Nat
    BY DEF Shape, TableShape
  <2>2. QED
    BY <1>1, <1>3, <2>1 DEF CountInv, Room
<1>5. CASE UNCHANGED report
  BY <1>1, <1>2, <1>5 DEF CountInv, Reported
<1>6. CASE telemetry(t)
  <2>1. report' = [total_allocations |-> telem_.total_allocations,
                   total_frees |-> telem_.total_frees, active_buffers |-> 0]
    BY <1>6 DEF telemetry
  <2>2. telem_.total_frees <= born
    BY <1>1, <1>3, <1>4
  <2>3. QED
    BY <1>1, <1>4, <2>1, <2>2 DEF Reported
<1>7. CASE runtime_stats(t)
  <2>1. CASE report' = NoReport
    BY <1>1, <2>1 DEF Reported, NoReport
  <2>2. CASE report' = [report EXCEPT !.active_buffers = active_buffers]
    <3>1. report' = [report EXCEPT !.active_buffers = Cardinality(registry_)]
      BY <2>2 DEF active_buffers
    <3>2. /\ report'.total_allocations = report.total_allocations
          /\ report'.total_frees = report.total_frees
          /\ report'.active_buffers = Cardinality(registry_)
          /\ report' \in [total_allocations : Nat, total_frees : Nat, active_buffers : Nat]
      BY <1>2, <1>3, <3>1, Zenon
    <3>3. report.total_allocations <= born /\ report.total_frees <= died
      BY DEF CountInv, Reported
    <3>4. QED
      BY <1>1, <1>2, <1>3, <3>2, <3>3 DEF Reported
  <2>3. QED
    BY <1>7, <2>1, <2>2, Zenon DEF runtime_stats
<1>8. QED
  BY <1>5, <1>6, <1>7, ReportSteps, Zenon
-----------------------------------------------------------------------------
(***************************************************************************)
(* The rest of the types.                                                  *)
(***************************************************************************)
Bounds ==
  /\ Len(nss_) \in NamespaceId
  /\ id_counter_ \in 1 .. MaxBuffers + 1
  /\ finalized \subseteq 1 .. MaxBuffers

\* Only these steps touch the namespaces, the next id and the finalized ids.
LEMMA BoundSteps ==
  ASSUME NEW t \in Threads, Start(t) \/ Continue(t)
  PROVE  \/ \E cfg \in Configs : create_namespace(t, cfg)
         \/ next_id(t) \/ finalize(t)
         \/ UNCHANGED <<nss_, id_counter_, finalized>>
<1> USE DEF tableVars, bufferVars
<1>1. CASE Start(t)
  BY <1>1, Zenon DEF Start, import, import_open, allocate, release, shutdown, telemetry
<1>2. CASE Continue(t)
  BY <1>2, Zenon DEF Continue, import_target, import_source, backend, import_domain, import_handle,
              register_control, erase, shutdown_snapshot, shutdown_next,
              total_allocations, total_frees, load, note, runtime_stats
<1>3. QED
  BY <1>1, <1>2

\* Every step stays within the bounds.
LEMMA StepBounds ==
  ASSUME Shape, Bounds, EraseInv, NEW t \in Threads, Start(t) \/ Continue(t)
  PROVE  Bounds'
<1> USE DEF tableVars, bufferVars
<1>1. CASE UNCHANGED <<nss_, id_counter_, finalized>>
  BY <1>1 DEF Bounds
<1>2. ASSUME NEW cfg \in Configs, create_namespace(t, cfg)
      PROVE  Bounds'
  <2>1. cfg \in [allow_import : BOOLEAN] /\ MaxNamespaces \in Nat
    BY RuntimeAssumption
  <2>2. /\ nss_ \in Seq([allow_import : BOOLEAN]) /\ nss_' = Append(nss_, cfg)
        /\ Len(nss_) < MaxNamespaces /\ UNCHANGED <<id_counter_, finalized>>
    BY <1>2 DEF create_namespace, Shape, TableShape
  <2>3. Len(nss_') = Len(nss_) + 1
    BY <2>1, <2>2
  <2>4. QED
    BY <2>1, <2>2, <2>3 DEF Bounds, NamespaceId
<1>3. CASE next_id(t)
  <2>1. id_counter_' = id_counter_ + 1 /\ id_counter_ <= MaxBuffers
        /\ UNCHANGED <<nss_, finalized>>
    BY <1>3 DEF next_id
  <2>2. QED
    BY <2>1, RuntimeAssumption DEF Bounds
<1>4. CASE finalize(t)
  <2>1. finalized' = finalized \cup {rec[t].id} /\ UNCHANGED <<nss_, id_counter_>>
    BY <1>4, Zenon DEF finalize
  <2>2. rec[t].id # 0
    BY <1>4 DEF finalize, EraseInv, Awaits
  <2>3. rec[t].id \in 1 .. MaxBuffers
    <3>1. rec[t] \in Records
      BY DEF Shape, CallShape
    <3>2. rec[t].id \in 0 .. MaxBuffers
      BY <3>1, RecordFacts
    <3>3. QED
      BY <2>2, <3>2, RuntimeAssumption
  <2>4. QED
    BY <2>1, <2>3, Zenon DEF Bounds
<1>5. QED
  BY <1>1, <1>2, <1>3, <1>4, BoundSteps, Zenon
-----------------------------------------------------------------------------
CountingInv == IInv /\ LogInv /\ EraseInv /\ CountInv /\ Bounds

\* Init establishes it.
LEMMA InitCounting == Init => CountingInv
<1> SUFFICES ASSUME Init PROVE CountingInv
  OBVIOUS
<1>1. IInv
  BY InitIInv
<1>2. LogInv
  <2>1. noted = 0 /\ dec_ = << >>
    BY DEF Init
  <2>2. kLog + 1 \in Nat /\ 0 <= kLog + 1
    BY RuntimeAssumption
  <2>3. Min({noted, kLog + 1}) = 0
    BY <2>1, <2>2, LeastOfTwo
  <2>4. dec_ = [i \in 1 .. 0 |-> noted - 0 + i]
    BY <2>1
  <2>5. QED
    BY <2>1, <2>3, <2>4, Zenon DEF LogInv, LogExact
<1>3. EraseInv
  BY DEF Init, EraseInv, Awaits
<1>4. CountInv
  <2>1. AtAllocations = {} /\ AtFrees = {} /\ registry_ = {}
    BY DEF Init, AtAllocations, AtFrees
  <2>2. /\ IsFiniteSet({}) /\ Cardinality({}) = 0
    BY FS_EmptySet, Zenon
  <2>3. Room
    BY <2>1, <2>2 DEF Init, Room
  <2>4. Alive /\ Reported
    BY <2>1, <2>2 DEF Init, Alive, Reported, NoReport
  <2>5. QED
    BY <2>3, <2>4, Zenon DEF CountInv
<1>5. Bounds
  <2>1. namespaces \in Seq(Configs) /\ Len(namespaces) \in Nat
    BY RuntimeAssumption
  <2>2. nss_ = <<Default>> \o namespaces
    BY DEF Init
  <2>3. Len(nss_) = 1 + Len(namespaces)
    <3>1. <<Default>> \in Seq(Configs \cup {Default}) /\ Len(<<Default>>) = 1
      OBVIOUS
    <3>2. namespaces \in Seq(Configs \cup {Default})
      BY <2>1, SeqMonotonic
    <3>3. QED
      BY <2>2, <3>1, <3>2, ConcatProperties, Zenon
  <2>4. Len(nss_) \in NamespaceId
    BY <2>1, <2>3, RuntimeAssumption DEF NamespaceId
  <2>5. id_counter_ \in 1 .. MaxBuffers + 1 /\ finalized = {}
    BY RuntimeAssumption DEF Init
  <2>6. QED
    BY <2>4, <2>5 DEF Bounds
<1>6. QED
  BY <1>1, <1>2, <1>3, <1>4, <1>5, Zenon DEF CountingInv

\* Every step keeps it.
LEMMA NextCounting == CountingInv /\ [Next]_vars => CountingInv'
<1> SUFFICES ASSUME CountingInv, [Next]_vars PROVE CountingInv'
  OBVIOUS
<1>1. IInv'
  BY NextIInv DEF CountingInv
<1>2. CASE UNCHANGED vars
  <2>1. LogInv' /\ Bounds'
    BY <1>2, Zenon DEF CountingInv, LogInv, LogExact, Bounds, vars
  <2>2. EraseInv'
    BY <1>2, Zenon DEF CountingInv, EraseInv, Awaits, vars
  <2>3. AtAllocations' = AtAllocations /\ AtFrees' = AtFrees
    BY <1>2, Zenon DEF AtAllocations, AtFrees, vars
  <2>4. CountInv'
    BY <1>2, <2>3, Zenon DEF CountingInv, CountInv, Room, Alive, Reported, vars
  <2>5. QED
    BY <1>1, <2>1, <2>2, <2>4 DEF CountingInv
<1>3. ASSUME NEW t \in Threads, Start(t) \/ Continue(t)
      PROVE  CountingInv'
  <2>1. Shape /\ IdInv
    BY DEF CountingInv, IInv
  <2>2. LogInv' /\ EraseInv' /\ Bounds'
    BY <1>3, <2>1, StepLog, StepErase, StepBounds, Zenon DEF CountingInv
  <2>3. CountInv'
    BY <1>3, <2>1, StepRoom, StepAlive, StepReported, Zenon DEF CountingInv, CountInv
  <2>4. QED
    BY <1>1, <2>2, <2>3 DEF CountingInv
<1>4. QED
  BY <1>2, <1>3 DEF Next

\* Every variable has its type, within the bounds on namespaces and buffers.
THEOREM TypesHold == Spec => []TypeOK
<1>1. CountingInv => TypeOK
  <2> SUFFICES ASSUME CountingInv PROVE TypeOK
    OBVIOUS
  <2>1. Shape /\ Bounds
    BY DEF CountingInv, IInv
  <2>2. dec_ \in Seq(Nat) /\ noted \in Nat
    <3>1. noted \in Nat /\ kLog + 1 \in Nat
      BY RuntimeAssumption DEF CountingInv, LogInv
    <3>2. PICK kept \in Nat : kept <= noted /\ dec_ = [i \in 1 .. kept |-> noted - kept + i]
      BY <3>1, LeastOfTwo DEF CountingInv, LogInv, LogExact
    <3>3. dec_ \in [1 .. kept -> Nat]
      BY <3>1, <3>2
    <3>4. QED
      BY <3>1, <3>3, SeqDef, Zenon
  <2>3. /\ born \in Nat /\ died \in Nat
        /\ report \in [total_allocations : Nat, total_frees : Nat, active_buffers : Nat]
    BY Zenon DEF CountingInv, CountInv, Room, Reported
  <2>4. QED
    BY <2>1, <2>2, <2>3
    DEF TypeOK, Shape, CallShape, TableShape, Bounds, CallNames
<1>2. QED
  BY <1>1, InitCounting, NextCounting, PTL DEF Spec

\* The counters and the statistics never exceed what happened, with any number
\* of threads that increment without the lock: increments are lost, never
\* invented, and an erase always takes a registered buffer.
THEOREM CountersAreNeverOver == Spec => []CountersNeverOver
<1>1. CountingInv => CountersNeverOver
  <2> SUFFICES ASSUME CountingInv PROVE CountersNeverOver
    OBVIOUS
  <2>1. Cardinality(AtAllocations) \in Nat /\ Cardinality(AtFrees) \in Nat
    BY FS_CardinalityType DEF CountingInv, CountInv, Room
  <2>2. telem_.total_allocations \in Nat /\ telem_.total_frees \in Nat
    BY DEF CountingInv, IInv, Shape, TableShape
  <2>3. QED
    BY <2>1, <2>2 DEF CountingInv, CountInv, Room, Reported, CountersNeverOver
<1>2. QED
  BY <1>1, InitCounting, NextCounting, PTL DEF Spec

\* note keeps the newest entries in order and at least kLog of them, for any
\* capacity of the log.
THEOREM LogKeepsTheNewest == Spec => []LogKeepsNewest
<1>1. CountingInv => LogKeepsNewest
  <2> SUFFICES ASSUME CountingInv PROVE LogKeepsNewest
    OBVIOUS
  <2>1. noted \in Nat /\ kLog \in Nat
    BY RuntimeAssumption DEF CountingInv, LogInv
  <2>2. PICK kept \in Nat : /\ kept <= noted /\ kept >= Min({noted, kLog})
                           /\ dec_ = [i \in 1 .. kept |-> noted - kept + i]
    <3>1. Min({noted, kLog + 1}) \in Nat /\ Min({noted, kLog + 1}) <= noted
          /\ Min({noted, kLog + 1}) >= Min({noted, kLog})
      BY <2>1, LeastOfTwo
    <3>2. QED
      BY <3>1, Zenon DEF CountingInv, LogInv, LogExact
  <2>3. Len(dec_) = kept /\ DOMAIN dec_ = 1 .. kept
    <3>1. dec_ \in [1 .. kept -> Nat]
      BY <2>1, <2>2
    <3>2. QED
      BY <3>1, SeqDef
  <2>4. QED
    BY <2>2, <2>3 DEF LogKeepsNewest
<1>2. QED
  BY <1>1, InitCounting, NextCounting, PTL DEF Spec

\* After shutdown, and once the calls that were making buffers are over, the
\* registry only shrinks.
THEOREM RegistryOnlyDrains == Spec => RegistryDrains
<1>1. ASSUME IInv, [Next]_vars
      PROVE  [closed_ /\ (\A t \in Threads : pc[t] \notin Creating)
                => registry_' \subseteq registry_ /\ \A t \in Threads : pc'[t] \notin Creating
             ]_<<registry_, pc>>
  <2>1. CASE UNCHANGED vars
    BY <2>1, Zenon DEF vars
  <2>2. ASSUME NEW t \in Threads, Start(t) \/ Continue(t),
               closed_, \A u \in Threads : pc[u] \notin Creating
        PROVE  registry_' \subseteq registry_ /\ \A u \in Threads : pc'[u] \notin Creating
    <3>1. Frame(t) /\ registry_' \subseteq registry_ /\ pc'[t] \notin Creating
      BY <1>1, <2>2, StepFrame, CreatingSteps DEF IInv
    <3>2. QED
      BY <2>2, <3>1, Zenon DEF Frame
  <2>3. QED
    BY <1>1, <2>1, <2>2, Zenon DEF Next
<1>2. QED
  BY <1>1, InitIInv, NextIInv, PTL DEF Spec, RegistryDrains
=============================================================================
