-------------------------- MODULE AccountingProofs --------------------------
(***************************************************************************)
(* Proofs about the ledger, for any number of threads, namespaces, domains *)
(* and sizes, with every kind of buffer, migrations and every failure of   *)
(* the backend: the types, and the caps and quotas.                        *)
(***************************************************************************)
EXTENDS Accounting, TLAPS

\* A thread in the middle of creating, migrating or finalizing a buffer has a
\* record.
HasRecord == \A t \in Threads : pc[t] \notin {"idle", "trim"} => rec[t] \in Record

TInv == TypeOK /\ HasRecord

\* What a record's fields are.
LEMMA RecordFields ==
  ASSUME NEW r \in Record
  PROVE  /\ r.ns \in Namespaces
         /\ r.domain \in Domains /\ r.other \in Domains
         /\ Account(r) \in Accounts /\ OtherAccount(r) \in Accounts
         /\ r.kind \in BufferKinds
         /\ r.size \in Sizes /\ r.size \in Nat
         /\ r.bytes \in Sizes /\ r.bytes \in Nat
         /\ r.pooled \in BOOLEAN
         /\ r.last_owner \in Namespaces \cup {NoNamespace}
         /\ r # NoRecord
BY SizesAssumption, NoRecordAssumption, Zenon DEF Record, Account, OtherAccount, Accounts

\* The clamped subtraction stays in Nat and does not grow.
LEMMA MinusNat ==
  ASSUME NEW n \in Nat, NEW m \in Nat
  PROVE  Minus(n, m) \in Nat /\ Minus(n, m) <= n
BY DEF Minus

\* The first slot that fits is taken out of a sequence of slots.
LEMMA RemoveSlot ==
  ASSUME NEW s \in Seq(Slot), NEW i \in 1 .. Len(s)
  PROVE  RemoveAt(s, i) \in Seq(Slot)
BY DEF RemoveAt

\* A slot is put at the end of a sequence of slots.
LEMMA AppendSlot ==
  ASSUME NEW s \in Seq(Slot), NEW x \in Slot
  PROVE  Append(s, x) \in Seq(Slot)
OBVIOUS

\* Every step keeps the types, and a thread in the middle of a call keeps its
\* record.
LEMMA StepTypes ==
  ASSUME TypeOK, HasRecord, NEW t \in Threads, Start(t) \/ Continue(t)
  PROVE  TypeOK' /\ HasRecord'
<1> USE DEF Goto, Done, ledger, poolVars, Steps
<1>1. ASSUME NEW r \in Record, NEW next \in {"reserve_amount", "register_control"},
             reserve_count(t, r, next)
      PROVE  TypeOK' /\ HasRecord'
  BY <1>1, RecordFields DEF reserve_count, TypeOK, HasRecord
<1>2. ASSUME NEW k \in BufferKinds, NEW n \in Namespaces, NEW d \in Domains,
             NEW b \in Sizes, NEW pooled \in BOOLEAN
      PROVE  NewRecord(k, n, d, b, pooled) \in Record
  BY DEF NewRecord, Record
<1>3. CASE allocate_record(t)
  BY <1>1, <1>2, <1>3 DEF allocate_record, BufferKinds
<1>4. CASE wrap_external(t)
  BY <1>1, <1>2, <1>4, NamespacesAssumption, Zenon DEF wrap_external, BufferKinds
<1>5. CASE import_descriptor(t)
  <2>1. PICK r \in Record : rec' = [rec EXCEPT ![t] = r]
    BY <1>2, <1>5, Zenon DEF import_descriptor, BufferKinds
  <2>2. QED
    BY <1>5, <2>1, Zenon DEF import_descriptor, TypeOK, HasRecord
<1>6. ASSUME NEW s \in Slots, finalize(t, s)
      PROVE  TypeOK' /\ HasRecord'
  <2>1. buffers[s] \in Record
    BY <1>6 DEF finalize, TypeOK
  <2>2. QED
    <3>1. buffers[s].bytes \in Nat /\ buffers[s].domain \in Domains
      BY <2>1, RecordFields
    <3>2. TypeOK'
      <4>1. BytesFreed(buffers[s]) \in Nat
        BY <3>1 DEF BytesFreed
      <4>2. heap' \in [Domains -> Int]
        BY <1>6, <3>1, <4>1 DEF finalize, TypeOK
      <4>3. /\ pc' \in [Threads -> Steps]
            /\ rec' \in [Threads -> Record \cup {NoRecord}]
            /\ buffers' \in [Slots -> Record \cup {NoRecord}]
        BY <1>6, <2>1 DEF finalize, TypeOK
      <4>4. QED
        BY <1>6, <4>2, <4>3 DEF finalize, TypeOK
    <3>3. HasRecord'
      BY <1>6, <2>1 DEF finalize, TypeOK, HasRecord
    <3>4. QED
      BY <3>2, <3>3
<1>7. CASE reserve_amount(t)
  <2>1. rec[t] \in Record
    BY <1>7 DEF reserve_amount, HasRecord
  <2>2. /\ rec[t].ns \in Namespaces /\ rec[t].domain \in Domains
        /\ Account(rec[t]) \in Accounts /\ rec[t].bytes \in Sizes /\ rec[t].bytes \in Nat
    BY <2>1, RecordFields
  <2>3. TypeOK'
    <3>1. pc' \in [Threads -> Steps] /\ rec' = rec
      BY <1>7, Zenon DEF reserve_amount, TypeOK
    <3>2. reserved' \in [Accounts -> Nat]
      <4>1. reserved \in [Accounts -> Nat]
        BY DEF TypeOK
      <4>2. \/ reserved' = [reserved EXCEPT ![Account(rec[t])] = reserved[Account(rec[t])] + rec[t].bytes]
            \/ reserved' = reserved
        BY <1>7, Zenon DEF reserve_amount
      <4>3. reserved[Account(rec[t])] + rec[t].bytes \in Nat
        BY <2>2, <4>1
      <4>4. QED
        BY <4>1, <4>2, <4>3
    <3>3. QED
      BY <1>7, <3>1, <3>2 DEF reserve_amount, TypeOK
  <2>4. HasRecord'
    BY <1>7, <2>1, Zenon DEF reserve_amount, TypeOK, HasRecord
  <2>5. QED
    BY <2>3, <2>4
<1>8. CASE pool_take(t)
  <2>1. rec[t] \in Record
    BY <1>8 DEF pool_take, HasRecord
  <2>2. CASE pc' = [pc EXCEPT ![t] = "allocate"] /\ UNCHANGED <<rec, poolVars>>
    BY <1>8, <2>1, <2>2 DEF pool_take, TypeOK, HasRecord
  <2>3. ASSUME NEW i \in DOMAIN pool,
               pool' = RemoveAt(pool, i),
               pool_object_count' = Minus(pool_object_count, 1),
               pool_idle_bytes' = Minus(pool_idle_bytes, pool[i].bytes),
               rec' = [rec EXCEPT ![t].bytes = pool[i].bytes,
                                  ![t].last_owner = pool[i].last_owner],
               pc' = [pc EXCEPT ![t] = "zero"],
               UNCHANGED pool_mtx
        PROVE  TypeOK' /\ HasRecord'
    <3>1. i \in 1 .. Len(pool) /\ pool[i] \in Slot
      BY DEF TypeOK
    <3>2. /\ pool[i].bytes \in Sizes /\ pool[i].bytes \in Nat
          /\ pool[i].last_owner \in Namespaces
      BY <3>1, SizesAssumption, Zenon DEF Slot
    <3>3. pool' \in Seq(Slot)
      BY <2>3, <3>1, RemoveSlot DEF TypeOK
    <3>4. pool_object_count' \in Nat /\ pool_idle_bytes' \in Nat
      BY <2>3, <3>2 DEF TypeOK, Minus
    <3>5. rec'[t] \in Record /\ rec' \in [Threads -> Record \cup {NoRecord}]
      BY <2>1, <2>3, <3>2, Zenon DEF TypeOK, Record
    <3>6. pc' \in [Threads -> Steps]
      BY <2>3 DEF TypeOK
    <3>7. TypeOK'
      BY <1>8, <2>3, <3>3, <3>4, <3>5, <3>6, Zenon DEF pool_take, TypeOK
    <3>8. HasRecord'
      BY <2>3, <3>5 DEF TypeOK, HasRecord
    <3>9. QED
      BY <3>7, <3>8
  <2>4. QED
    BY <1>8, <2>2, <2>3, Zenon DEF pool_take, take
<1>9. CASE allocate(t)
  <2>1. rec[t] \in Record
    BY <1>9 DEF allocate, HasRecord
  <2>2. /\ rec[t].ns \in Namespaces /\ rec[t].domain \in Domains
        /\ Account(rec[t]) \in Accounts /\ rec[t].bytes \in Sizes /\ rec[t].bytes \in Nat
    BY <2>1, RecordFields
  <2>3. TypeOK'
    <3>1. pc' \in [Threads -> Steps] /\ rec' = rec
      BY <1>9, Zenon DEF allocate, TypeOK
    <3>2. heap' \in [Domains -> Int]
      BY <1>9, <2>2 DEF allocate, TypeOK
    <3>3. QED
      BY <1>9, <3>1, <3>2 DEF allocate, TypeOK
  <2>4. HasRecord'
    BY <1>9, <2>1, Zenon DEF allocate, TypeOK, HasRecord
  <2>5. QED
    BY <2>3, <2>4
<1>10. CASE commit_amount(t)
  <2>1. rec[t] \in Record
    BY <1>10 DEF commit_amount, HasRecord
  <2>2. /\ rec[t].ns \in Namespaces /\ rec[t].domain \in Domains
        /\ Account(rec[t]) \in Accounts /\ rec[t].bytes \in Sizes /\ rec[t].bytes \in Nat
    BY <2>1, RecordFields
  <2>3. TypeOK'
    <3>1. pc' \in [Threads -> Steps] /\ rec' = rec
      BY <1>10, Zenon DEF commit_amount, Converted, TypeOK
    <3>2. reserved' \in [Accounts -> Nat] /\ committed' \in [Accounts -> Nat]
      <4>1. /\ reserved[Account(rec[t])] \in Nat /\ committed[Account(rec[t])] \in Nat
        BY <2>2 DEF TypeOK
      <4>2. CASE reserved[Account(rec[t])] >= rec[t].bytes
        <5>1. reserved[Account(rec[t])] - rec[t].bytes \in Nat
          BY <2>2, <4>1, <4>2
        <5>2. /\ reserved' = [reserved EXCEPT ![Account(rec[t])] = @ - rec[t].bytes]
              /\ committed' = [committed EXCEPT ![Account(rec[t])] = @ + rec[t].bytes]
          BY <1>10, <2>2, <4>1, <4>2 DEF commit_amount, Converted
        <5>3. QED
          BY <2>2, <4>1, <5>1, <5>2 DEF TypeOK
      <4>3. CASE ~(reserved[Account(rec[t])] >= rec[t].bytes)
        BY <1>10, <4>3 DEF commit_amount, Converted, TypeOK
      <4>4. QED
        BY <4>2, <4>3
    <3>3. heap' \in [Domains -> Int]
      BY <1>10, <2>2 DEF commit_amount, Converted, TypeOK
    <3>4. QED
      BY <1>10, <3>1, <3>2, <3>3 DEF commit_amount, Converted, TypeOK
  <2>4. HasRecord'
    BY <1>10, <2>1, Zenon DEF commit_amount, Converted, TypeOK, HasRecord
  <2>5. QED
    BY <2>3, <2>4
<1>11. CASE unreserve_amount(t)
  <2>1. rec[t] \in Record
    BY <1>11 DEF unreserve_amount, HasRecord
  <2>2. /\ rec[t].ns \in Namespaces /\ rec[t].domain \in Domains
        /\ Account(rec[t]) \in Accounts /\ rec[t].bytes \in Sizes /\ rec[t].bytes \in Nat
    BY <2>1, RecordFields
  <2>3. TypeOK'
    BY <1>11, <2>1, <2>2 DEF unreserve_amount, TypeOK, Minus, Slot
  <2>4. HasRecord'
    BY <1>11, <2>1 DEF unreserve_amount, TypeOK, HasRecord
  <2>5. QED
    BY <2>3, <2>4
<1>12. CASE zero(t)
  <2>1. rec[t] \in Record
    BY <1>12 DEF zero, HasRecord
  <2>2. /\ rec[t].ns \in Namespaces /\ rec[t].domain \in Domains
        /\ Account(rec[t]) \in Accounts /\ rec[t].bytes \in Sizes /\ rec[t].bytes \in Nat
    BY <2>1, RecordFields
  <2>3. TypeOK'
    BY <1>12, <2>1, <2>2, Zenon DEF zero, TypeOK, Minus, Slot
  <2>4. HasRecord'
    BY <1>12, <2>1 DEF zero, TypeOK, HasRecord
  <2>5. QED
    BY <2>3, <2>4
<1>13. CASE undo_zero(t)
  <2>1. rec[t] \in Record
    BY <1>13 DEF undo_zero, HasRecord
  <2>2. /\ rec[t].ns \in Namespaces /\ rec[t].domain \in Domains
        /\ Account(rec[t]) \in Accounts /\ rec[t].bytes \in Sizes /\ rec[t].bytes \in Nat
    BY <2>1, RecordFields
  <2>3. TypeOK'
    BY <1>13, <2>1, <2>2 DEF undo_zero, TypeOK, Minus, Slot
  <2>4. HasRecord'
    BY <1>13, <2>1 DEF undo_zero, TypeOK, HasRecord
  <2>5. QED
    BY <2>3, <2>4
<1>14. CASE abandon(t)
  <2>1. rec[t] \in Record
    BY <1>14 DEF abandon, HasRecord
  <2>2. /\ rec[t].ns \in Namespaces /\ rec[t].domain \in Domains
        /\ Account(rec[t]) \in Accounts /\ rec[t].bytes \in Sizes /\ rec[t].bytes \in Nat
    BY <2>1, RecordFields
  <2>3. TypeOK'
    BY <1>14, <2>1, <2>2 DEF abandon, TypeOK, Minus, Slot
  <2>4. HasRecord'
    BY <1>14, <2>1 DEF abandon, TypeOK, HasRecord
  <2>5. QED
    BY <2>3, <2>4
<1>15. CASE register_control(t)
  <2>1. rec[t] \in Record
    BY <1>15 DEF register_control, HasRecord
  <2>2. /\ rec[t].ns \in Namespaces /\ rec[t].domain \in Domains
        /\ Account(rec[t]) \in Accounts /\ rec[t].bytes \in Sizes /\ rec[t].bytes \in Nat
    BY <2>1, RecordFields
  <2>3. TypeOK'
    <3>1. [rec[t] EXCEPT !.last_owner = NoNamespace, !.other = rec[t].domain] \in Record
      BY <2>1, Zenon DEF Record
    <3>2. buffers' \in [Slots -> Record \cup {NoRecord}]
      BY <1>15, <3>1 DEF register_control, PutBack, TypeOK
    <3>3. QED
      BY <1>15, <3>2 DEF register_control, PutBack, TypeOK
  <2>4. HasRecord'
    BY <1>15, <2>1 DEF register_control, PutBack, TypeOK, HasRecord
  <2>5. QED
    BY <2>3, <2>4
<1>16. CASE pool_put(t)
  <2>1. rec[t] \in Record
    BY <1>16 DEF pool_put, HasRecord
  <2>2. /\ rec[t].ns \in Namespaces /\ rec[t].domain \in Domains
        /\ Account(rec[t]) \in Accounts /\ rec[t].bytes \in Sizes /\ rec[t].bytes \in Nat
    BY <2>1, RecordFields
  <2>3. TypeOK'
    <3>1. pc' \in [Threads -> Steps] /\ rec' = rec
      BY <1>16, Zenon DEF pool_put, TypeOK
    <3>2. heap' \in [Domains -> Int]
      BY <1>16, <2>2 DEF pool_put, TypeOK
    <3>3. [bytes |-> rec[t].bytes, domain |-> rec[t].domain, last_owner |-> rec[t].ns] \in Slot
      BY <2>2 DEF Slot
    <3>4. pool' \in Seq(Slot)
      <4>1. \/ pool' = pool
            \/ pool' = Append(pool, [bytes |-> rec[t].bytes, domain |-> rec[t].domain, last_owner |-> rec[t].ns])
        BY <1>16 DEF pool_put
      <4>2. pool \in Seq(Slot)
        BY DEF TypeOK
      <4>3. QED
        BY <3>3, <4>1, <4>2, AppendSlot
    <3>5. /\ pool_object_count' \in Nat /\ pool_idle_bytes' \in Nat
          /\ pool_mtx' = pool_mtx
      BY <1>16, <2>2 DEF pool_put, TypeOK
    <3>6. QED
      BY <1>16, <3>1, <3>2, <3>4, <3>5 DEF pool_put, TypeOK
  <2>4. HasRecord'
    BY <1>16, <2>1, Zenon DEF pool_put, TypeOK, HasRecord
  <2>5. QED
    BY <2>3, <2>4
<1>17. CASE free_accounting(t)
  <2>1. rec[t] \in Record
    BY <1>17 DEF free_accounting, HasRecord
  <2>2. /\ rec[t].ns \in Namespaces /\ rec[t].domain \in Domains
        /\ Account(rec[t]) \in Accounts /\ rec[t].bytes \in Sizes /\ rec[t].bytes \in Nat
    BY <2>1, RecordFields
  <2>3. TypeOK'
    BY <1>17, <2>1, <2>2 DEF free_accounting, TypeOK, Minus, Slot
  <2>4. HasRecord'
    BY <1>17, <2>1 DEF free_accounting, TypeOK, HasRecord
  <2>5. QED
    BY <2>3, <2>4
<1>18. CASE release_count(t)
  <2>1. rec[t] \in Record
    BY <1>18 DEF release_count, HasRecord
  <2>2. /\ rec[t].ns \in Namespaces /\ rec[t].domain \in Domains
        /\ Account(rec[t]) \in Accounts /\ rec[t].bytes \in Sizes /\ rec[t].bytes \in Nat
    BY <2>1, RecordFields
  <2>3. TypeOK'
    BY <1>18, <2>1, <2>2 DEF release_count, TypeOK, Minus, Slot
  <2>4. HasRecord'
    BY <1>18, <2>1 DEF release_count, TypeOK, HasRecord
  <2>5. QED
    BY <2>3, <2>4
<1>19. CASE pool_trim(t)
  BY <1>19, MinusNat, SizesAssumption, Zenon DEF pool_trim, TypeOK, HasRecord, Slot
<1>20. CASE trim(t)
  <2>1. CASE pool = <<>>
    BY <1>20, <2>1, Zenon DEF trim, TypeOK, HasRecord
  <2>2. CASE pool # <<>>
    <3>1. Head(pool) \in Slot /\ Tail(pool) \in Seq(Slot)
      BY <2>2 DEF TypeOK
    <3>2. /\ Head(pool).bytes \in Nat /\ Head(pool).domain \in Domains
          /\ <<Head(pool).last_owner, Head(pool).domain>> \in Accounts
      BY <3>1, SizesAssumption, Zenon DEF Slot, Accounts
    <3>3. /\ heap' = [heap EXCEPT ![Head(pool).domain] = @ - Head(pool).bytes] /\ heap' \in [Domains -> Int]
          /\ pool' = Tail(pool) /\ pool' \in Seq(Slot)
      <4>1. heap' = [heap EXCEPT ![Head(pool).domain] = @ - Head(pool).bytes] /\ pool' = Tail(pool)
        BY <1>20, <2>2 DEF trim
      <4>2. QED
        BY <3>1, <3>2, <4>1 DEF TypeOK
    <3>4. committed' \in [Accounts -> Nat]
      <4> DEFINE a == <<Head(pool).last_owner, Head(pool).domain>>
      <4>1. a \in Accounts /\ committed[a] \in Nat
        BY <3>2 DEF TypeOK
      <4>2. Minus(committed[a], Head(pool).bytes) \in Nat
        BY <3>2, <4>1, MinusNat, Zenon
      <4>3. committed' = [committed EXCEPT ![a] = Minus(@, Head(pool).bytes)]
        BY <1>20, <2>2 DEF trim
      <4> HIDE DEF a
      <4>4. QED
        BY <4>1, <4>2, <4>3 DEF TypeOK
    <3>5. pool_object_count' \in Nat /\ pool_idle_bytes' \in Nat
      BY <1>20, <2>2, <3>2 DEF trim, TypeOK, Minus
    <3>6. QED
      BY <1>20, <2>2, <3>3, <3>4, <3>5 DEF trim, TypeOK, HasRecord
  <2>3. QED
    BY <2>1, <2>2
<1>21. ASSUME NEW s \in Slots, migrate(t, s)
       PROVE  TypeOK' /\ HasRecord'
  <2>1. buffers[s] \in Record
    BY <1>21 DEF migrate, TypeOK
  <2>2. PICK target \in Domains :
          LET r == [buffers[s] EXCEPT !.other = target]
          IN /\ reserved' = [reserved EXCEPT ![OtherAccount(r)] = @ + r.bytes]
             /\ rec' = [rec EXCEPT ![t] = r]
    BY <1>21, Zenon DEF migrate
  <2> DEFINE r == [buffers[s] EXCEPT !.other = target]
  <2>3. r \in Record
    BY <2>1 DEF Record
  <2>4. OtherAccount(r) \in Accounts /\ r.bytes \in Nat
    BY <2>3, RecordFields, Zenon
  <2>5. /\ reserved' = [reserved EXCEPT ![OtherAccount(r)] = @ + r.bytes]
        /\ rec' = [rec EXCEPT ![t] = r]
    BY <2>2
  <2> HIDE DEF r
  <2>6. reserved' \in [Accounts -> Nat]
    BY <2>4, <2>5 DEF TypeOK
  <2>7. /\ rec' \in [Threads -> Record \cup {NoRecord}]
        /\ buffers' \in [Slots -> Record \cup {NoRecord}]
        /\ pc' \in [Threads -> Steps]
    BY <1>21, <2>3, <2>5, Zenon DEF migrate, TypeOK
  <2>8. TypeOK'
    BY <1>21, <2>6, <2>7 DEF migrate, TypeOK
  <2>9. HasRecord'
    BY <1>21, <2>3, <2>5, Zenon DEF migrate, TypeOK, HasRecord
  <2>10. QED
    BY <2>8, <2>9
<1>22. ASSUME rec[t] \in Record, PutBack(t), UNCHANGED <<allocs, poolVars, heap>>,
              reserved' \in [Accounts -> Nat], committed' \in [Accounts -> Nat]
       PROVE  TypeOK' /\ HasRecord'
  <2>1. [rec[t] EXCEPT !.last_owner = NoNamespace, !.other = rec[t].domain] \in Record
    BY <1>22, Zenon DEF Record
  <2>2. buffers' \in [Slots -> Record \cup {NoRecord}]
    BY <1>22, <2>1 DEF PutBack, TypeOK
  <2>3. QED
    BY <1>22, <2>2 DEF PutBack, TypeOK, HasRecord
<1>23. CASE migrate_allocate(t) \/ migrate_copy(t)
  <2>1. rec[t] \in Record
    BY <1>23 DEF migrate_allocate, migrate_copy, HasRecord
  <2>2. rec[t].other \in Domains /\ rec[t].bytes \in Nat
    BY <2>1, RecordFields
  <2>3. heap' \in [Domains -> Int]
    BY <1>23, <2>2 DEF migrate_allocate, migrate_copy, Discard, TypeOK
  <2>4. TypeOK'
    BY <1>23, <2>3, Zenon DEF migrate_allocate, migrate_copy, Discard, TypeOK
  <2>5. HasRecord'
    BY <1>23, <2>1, Zenon DEF migrate_allocate, migrate_copy, Discard, TypeOK, HasRecord
  <2>6. QED
    BY <2>4, <2>5
<1>24. CASE migrate_commit(t)
  <2>1. rec[t] \in Record
    BY <1>24 DEF migrate_commit, HasRecord
  <2> DEFINE a == OtherAccount(rec[t])
             b == rec[t].bytes
  <2>2. rec[t].other \in Domains /\ b \in Nat /\ a \in Accounts
    BY <2>1, RecordFields
  <2>3. /\ \/ Converted(a, b) /\ Goto(t, "migrate_verify") /\ UNCHANGED heap
           \/ Discard(t) /\ UNCHANGED <<reserved, committed>>
        /\ UNCHANGED <<allocs, poolVars, buffers>>
    BY <1>24 DEF migrate_commit
  <2> HIDE DEF a, b
  <2>4. reserved' \in [Accounts -> Nat] /\ committed' \in [Accounts -> Nat]
    <3>1. CASE Converted(a, b)
      <4>1. reserved[a] - b \in Nat /\ committed[a] + b \in Nat
        BY <2>2, <3>1 DEF Converted, TypeOK
      <4>2. QED
        BY <2>2, <3>1, <4>1 DEF Converted, TypeOK
    <3>2. CASE UNCHANGED <<reserved, committed>>
      BY <3>2 DEF TypeOK
    <3>3. QED
      BY <2>3, <3>1, <3>2
  <2>5. heap' \in [Domains -> Int]
    BY <2>2, <2>3 DEF Discard, TypeOK, b
  <2>6. TypeOK'
    BY <2>3, <2>4, <2>5, Zenon DEF Discard, TypeOK
  <2>7. HasRecord'
    BY <2>1, <2>3 DEF Discard, TypeOK, HasRecord
  <2>8. QED
    BY <2>6, <2>7
<1>25. CASE migrate_verify(t)
  <2>1. rec[t] \in Record
    BY <1>25 DEF migrate_verify, HasRecord
  <2>2. rec[t].other \in Domains /\ rec[t].domain \in Domains /\ rec[t].bytes \in Nat
    BY <2>1, RecordFields
  <2> DEFINE r == [rec[t] EXCEPT !.domain = rec[t].other, !.other = rec[t].domain,
                                 !.native = TRUE, !.pooled = FALSE]
  <2>3. r \in Record
    BY <2>1, Zenon DEF Record
  <2>4. \/ /\ rec' = [rec EXCEPT ![t] = r]
           /\ heap' = [heap EXCEPT ![rec[t].domain] = @ - BytesFreed(rec[t])]
           /\ pc' = [pc EXCEPT ![t] = "migrate_free"]
        \/ Discard(t)
    BY <1>25 DEF migrate_verify
  <2> HIDE DEF r
  <2>5. heap' \in [Domains -> Int]
    BY <2>2, <2>4 DEF Discard, BytesFreed, TypeOK
  <2>6. pc' \in [Threads -> Steps] /\ rec' \in [Threads -> Record \cup {NoRecord}]
    BY <2>3, <2>4, Zenon DEF Discard, TypeOK
  <2>7. TypeOK'
    BY <1>25, <2>5, <2>6 DEF migrate_verify, TypeOK
  <2>8. HasRecord'
    BY <2>1, <2>3, <2>4, Zenon DEF Discard, TypeOK, HasRecord
  <2>9. QED
    BY <2>7, <2>8
<1>26. CASE migrate_unreserve(t) \/ migrate_free(t)
  <2>1. rec[t] \in Record
    BY <1>26 DEF migrate_unreserve, migrate_free, HasRecord
  <2>2. OtherAccount(rec[t]) \in Accounts /\ rec[t].bytes \in Nat
    BY <2>1, RecordFields
  <2>3. reserved' \in [Accounts -> Nat] /\ committed' \in [Accounts -> Nat]
    BY <1>26, <2>2 DEF migrate_unreserve, migrate_free, TypeOK, Minus
  <2>4. QED
    BY <1>22, <1>26, <2>1, <2>3 DEF migrate_unreserve, migrate_free
<1>27. QED
  BY <1>3, <1>4, <1>5, <1>6, <1>7, <1>8, <1>9, <1>10, <1>11, <1>12, <1>13, <1>14, <1>15,
     <1>16, <1>17, <1>18, <1>19, <1>20, <1>21, <1>23, <1>24, <1>25, <1>26
  DEF Start, Continue

\* Init establishes the types.
LEMMA InitTInv == Init => TInv
<1> SUFFICES ASSUME Init PROVE TInv
  OBVIOUS
<1>1. TypeOK
  BY DEF Init, TypeOK, Steps
<1>2. HasRecord
  BY DEF Init, HasRecord
<1>3. QED
  BY <1>1, <1>2 DEF TInv

\* Every step keeps them.
LEMMA NextTInv == TInv /\ [Next]_vars => TInv'
<1> SUFFICES ASSUME TInv, [Next]_vars PROVE TInv'
  OBVIOUS
<1>1. CASE UNCHANGED vars
  BY <1>1 DEF TInv, TypeOK, HasRecord, vars, ledger, poolVars
<1>2. ASSUME NEW t \in Threads, Start(t) \/ Continue(t)
      PROVE  TInv'
  BY <1>2, StepTypes DEF TInv
<1>3. QED
  BY <1>1, <1>2 DEF Next

\* Type correctness of the ledger, the pool and the records under way.
THEOREM TypeCorrect == Spec => []TypeOK
<1>1. TInv => TypeOK
  BY DEF TInv
<1>2. QED
  BY <1>1, InitTInv, NextTInv, PTL DEF Spec
-----------------------------------------------------------------------------
(***************************************************************************)
(* The ledger stays within the caps and the quotas.                        *)
(***************************************************************************)
IInv == TInv /\ WithinQuota

\* The limits of an account.
LEMMA LimitsOf ==
  ASSUME NEW a \in Accounts
  PROVE  cap_for(a[2]) \subseteq Nat /\ Quota[a] \in Nat
BY LimitsAssumption DEF Accounts, cap_for, capacity_for, capacity, cuda_capacity

\* A step after which no account holds more keeps the ledger within limits.
LEMMA LedgerShrinks ==
  ASSUME TypeOK, TypeOK', WithinQuota,
         \A a \in Accounts : committed'[a] + reserved'[a] <= committed[a] + reserved[a]
  PROVE  WithinQuota'
<1> SUFFICES ASSUME NEW a \in Accounts
             PROVE  /\ \E cap \in cap_for(a[2]) : Within(cap, committed'[a] + reserved'[a])
                    /\ Within(Quota[a], committed'[a] + reserved'[a])
  BY DEF WithinQuota
<1>1. /\ committed[a] \in Nat /\ reserved[a] \in Nat
      /\ committed'[a] \in Nat /\ reserved'[a] \in Nat
      /\ cap_for(a[2]) \subseteq Nat /\ Quota[a] \in Nat
  BY LimitsOf DEF TypeOK
<1>2. QED
  BY <1>1 DEF WithinQuota, Within

\* Every step keeps each account within the cap and its quota: reserving is
\* the one step that charges more, and it looks before it adds.
LEMMA StepWithinQuota ==
  ASSUME IInv, TypeOK', NEW t \in Threads, Start(t) \/ Continue(t)
  PROVE  WithinQuota'
<1> USE DEF ledger
<1>1. TypeOK /\ WithinQuota /\ HasRecord
  BY DEF IInv, TInv
<1>2. CASE UNCHANGED <<reserved, committed>>
  BY <1>1, <1>2 DEF WithinQuota
<1>3. ASSUME NEW a \in Accounts, NEW b \in Nat,
             NEW cap \in cap_for(a[2]), Admitted(a, b, cap),
             reserved' = [reserved EXCEPT ![a] = @ + b], committed' = committed
      PROVE  WithinQuota'
  <2> DEFINE want == committed[a] + reserved[a] + b
  <2>1. committed[a] \in Nat /\ reserved[a] \in Nat
    BY <1>1 DEF TypeOK
  <2>2. Within(cap, want) /\ Within(Quota[a], want)
    BY <1>3 DEF Admitted
  <2>3. committed'[a] + reserved'[a] = want
    BY <1>1, <1>3, <2>1 DEF TypeOK
  <2>4. ASSUME NEW m \in Accounts, m # a
        PROVE  committed'[m] = committed[m] /\ reserved'[m] = reserved[m]
    BY <1>1, <1>3, <2>4 DEF TypeOK
  <2> HIDE DEF want
  <2>5. QED
    BY <1>1, <1>3, <2>2, <2>3, <2>4 DEF WithinQuota
<1>4. ASSUME NEW a \in Accounts, NEW b \in Nat, Converted(a, b)
      PROVE  WithinQuota'
  <2>1. committed[a] \in Nat /\ reserved[a] \in Nat
    BY <1>1 DEF TypeOK
  <2>2. committed'[a] + reserved'[a] = committed[a] + reserved[a]
    BY <1>1, <1>4, <2>1 DEF Converted, TypeOK
  <2>3. ASSUME NEW m \in Accounts, m # a
        PROVE  committed'[m] = committed[m] /\ reserved'[m] = reserved[m]
    BY <1>1, <1>4, <2>3 DEF Converted, TypeOK
  <2>4. QED
    BY <1>1, <2>2, <2>3 DEF WithinQuota
<1>5. ASSUME NEW a \in Accounts, NEW b \in Nat,
             \/ /\ reserved' = [reserved EXCEPT ![a] = Minus(@, b)]
                /\ committed' = committed
             \/ /\ committed' = [committed EXCEPT ![a] = Minus(@, b)]
                /\ reserved' = reserved
      PROVE  WithinQuota'
  <2>1. ASSUME NEW m \in Accounts
        PROVE  committed'[m] + reserved'[m] <= committed[m] + reserved[m]
    <3>1. committed[m] \in Nat /\ reserved[m] \in Nat
      BY <1>1 DEF TypeOK
    <3>2. committed'[m] = committed[m] \/ committed'[m] = Minus(committed[m], b)
      BY <1>1, <1>5 DEF TypeOK
    <3>3. reserved'[m] = reserved[m] \/ reserved'[m] = Minus(reserved[m], b)
      BY <1>1, <1>5 DEF TypeOK
    <3>4. QED
      BY <3>1, <3>2, <3>3 DEF Minus
  <2>2. QED
    BY <1>1, <2>1, LedgerShrinks
<1>6. ASSUME rec[t] \in Record
      PROVE  /\ Account(rec[t]) \in Accounts /\ OtherAccount(rec[t]) \in Accounts
             /\ rec[t].bytes \in Nat
  BY <1>6, RecordFields
<1>7. CASE unreserve_amount(t) \/ undo_zero(t) \/ abandon(t) \/ free_accounting(t)
  <2>1. rec[t] \in Record
    BY <1>1, <1>7 DEF unreserve_amount, undo_zero, abandon, free_accounting, HasRecord
  <2>2. QED
    BY <1>5, <1>6, <1>7, <2>1 DEF unreserve_amount, undo_zero, abandon, free_accounting
<1>8. CASE migrate_unreserve(t) \/ migrate_free(t)
  <2>1. rec[t] \in Record
    BY <1>1, <1>8 DEF migrate_unreserve, migrate_free, HasRecord
  <2>2. QED
    BY <1>5, <1>6, <1>8, <2>1 DEF migrate_unreserve, migrate_free
<1>9. CASE trim(t)
  <2>1. CASE UNCHANGED committed
    BY <1>2, <1>9, <2>1 DEF trim
  <2>2. CASE ~UNCHANGED committed
    <3>1. Head(pool) \in Slot
      BY <1>1, <1>9, <2>2 DEF trim, TypeOK
    <3>2. /\ Head(pool).bytes \in Nat
          /\ <<Head(pool).last_owner, Head(pool).domain>> \in Accounts
      BY <3>1, SizesAssumption, Zenon DEF Slot, Accounts
    <3>3. QED
      BY <1>5, <1>9, <2>2, <3>2 DEF trim
  <2>3. QED
    BY <2>1, <2>2
<1>10. CASE reserve_amount(t)
  <2>1. rec[t] \in Record
    BY <1>1, <1>10 DEF reserve_amount, HasRecord
  <2>2. QED
    BY <1>2, <1>3, <1>6, <1>10, <2>1 DEF reserve_amount, Account
<1>11. ASSUME NEW s \in Slots, migrate(t, s)
       PROVE  WithinQuota'
  <2>1. buffers[s] \in Record
    BY <1>1, <1>11 DEF migrate, TypeOK
  <2>2. PICK target \in Domains :
          LET r == [buffers[s] EXCEPT !.other = target]
          IN /\ \E cap \in cap_for(target) : Admitted(OtherAccount(r), r.bytes, cap)
             /\ reserved' = [reserved EXCEPT ![OtherAccount(r)] = @ + r.bytes]
    BY <1>11, Zenon DEF migrate
  <2> DEFINE r == [buffers[s] EXCEPT !.other = target]
  <2>3. r \in Record /\ OtherAccount(r)[2] = target
    BY <2>1 DEF Record, OtherAccount
  <2>4. OtherAccount(r) \in Accounts /\ r.bytes \in Nat
    BY <2>3, RecordFields, Zenon
  <2>5. PICK cap \in cap_for(OtherAccount(r)[2]) : Admitted(OtherAccount(r), r.bytes, cap)
    BY <2>2, <2>3, Zenon
  <2>6. /\ reserved' = [reserved EXCEPT ![OtherAccount(r)] = @ + r.bytes]
        /\ committed' = committed
    BY <1>11, <2>2, Zenon DEF migrate
  <2> HIDE DEF r
  <2>7. QED
    BY <1>3, <2>4, <2>5, <2>6, Zenon
<1>12. CASE commit_amount(t)
  <2>1. rec[t] \in Record
    BY <1>1, <1>12 DEF commit_amount, HasRecord
  <2>2. Converted(Account(rec[t]), rec[t].bytes) \/ UNCHANGED <<reserved, committed>>
    BY <1>12 DEF commit_amount
  <2>3. QED
    BY <1>2, <1>4, <1>6, <2>1, <2>2
<1>13. CASE migrate_commit(t)
  <2>1. rec[t] \in Record
    BY <1>1, <1>13 DEF migrate_commit, HasRecord
  <2>2. Converted(OtherAccount(rec[t]), rec[t].bytes) \/ UNCHANGED <<reserved, committed>>
    BY <1>13 DEF migrate_commit
  <2>3. QED
    BY <1>2, <1>4, <1>6, <2>1, <2>2
<1>14. CASE allocate_record(t) \/ wrap_external(t)
  <2>1. ASSUME NEW r, NEW next, reserve_count(t, r, next)
        PROVE  UNCHANGED <<reserved, committed>>
    BY <2>1 DEF reserve_count
  <2>2. UNCHANGED <<reserved, committed>>
    BY <1>14, <2>1, Zenon DEF allocate_record, wrap_external
  <2>3. QED
    BY <1>2, <2>2
<1>15. CASE import_descriptor(t) \/ pool_trim(t)
  BY <1>2, <1>15, Zenon DEF import_descriptor, pool_trim
<1>16. CASE \E s \in Slots : finalize(t, s)
  BY <1>2, <1>16 DEF finalize
<1>17. CASE pool_take(t) \/ allocate(t) \/ zero(t)
  BY <1>2, <1>17 DEF pool_take, allocate, zero
<1>18. CASE register_control(t) \/ pool_put(t) \/ release_count(t)
  BY <1>2, <1>18 DEF register_control, pool_put, release_count
<1>19. CASE migrate_allocate(t) \/ migrate_copy(t) \/ migrate_verify(t)
  BY <1>2, <1>19 DEF migrate_allocate, migrate_copy, migrate_verify
<1>20. QED
  BY <1>7, <1>8, <1>9, <1>10, <1>11, <1>12, <1>13, <1>14, <1>15, <1>16, <1>17, <1>18, <1>19
  DEF Start, Continue

\* The ledger starts empty.
LEMMA InitWithinQuota == Init => WithinQuota
<1> SUFFICES ASSUME Init, NEW a \in Accounts
             PROVE  /\ \E cap \in cap_for(a[2]) : Within(cap, committed[a] + reserved[a])
                    /\ Within(Quota[a], committed[a] + reserved[a])
  BY DEF WithinQuota
<1>1. committed[a] + reserved[a] = 0
  BY DEF Init
<1>2. PICK total \in capacity(a[2]) : TRUE
  BY Zenon DEF capacity, cuda_capacity
<1>3. PICK cap \in cap_for(a[2]) : cap \in Nat
  BY <1>2, LimitsOf, Zenon DEF cap_for
<1>4. Quota[a] \in Nat /\ \A n \in Nat : Within(n, 0)
  BY LimitsOf DEF Within
<1>5. QED
  BY <1>1, <1>3, <1>4, Zenon

\* Every step keeps the inductive invariant.
LEMMA NextIInv == IInv /\ [Next]_vars => IInv'
<1> SUFFICES ASSUME IInv, [Next]_vars PROVE IInv'
  OBVIOUS
<1>1. CASE UNCHANGED vars
  BY <1>1 DEF IInv, TInv, TypeOK, HasRecord, WithinQuota, vars, ledger, poolVars
<1>2. ASSUME NEW t \in Threads, Start(t) \/ Continue(t)
      PROVE  IInv'
  <2>1. TInv'
    BY NextTInv DEF IInv
  <2>2. QED
    BY <1>2, <2>1, StepWithinQuota DEF IInv, TInv
<1>3. QED
  BY <1>1, <1>2 DEF Next

\* reserve_amount, commit_amount and the clamped releases never take a
\* namespace beyond the cap or its quota, whatever the threads interleave and
\* the backend fails: migrations, which charge two domains, included.
THEOREM LedgerWithinQuota == Spec => []WithinQuota
<1>1. IInv => WithinQuota
  BY DEF IInv
<1>2. Init => IInv
  BY InitTInv, InitWithinQuota DEF IInv
<1>3. QED
  BY <1>1, <1>2, NextIInv, PTL DEF Spec
=============================================================================
