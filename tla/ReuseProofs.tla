---------------------------- MODULE ReuseProofs ----------------------------
(***************************************************************************)
(* Proofs about Reuse, for every width, request, pool configuration and    *)
(* policy.  What a buffer needs of its backing does not follow from the    *)
(* step that hands the backing out: the slot must have kept it while it    *)
(* was idle.  IInv therefore says of every slot what its key promises, and *)
(* of every buffer that its backing is no smaller than its size.           *)
(***************************************************************************)
EXTENDS Reuse, SequenceTheorems, TLAPS

\* The address fits the alignment, as far as the backend promises.
Fitting(domain, alignment, aligned) ==
  \/ aligned % alignment = 0
  \/ domain \in CudaDomains /\ alignment > kCudaAlignment

BufferOK(r) ==
  /\ r \in Record
  /\ r.size \in 1..MaxSize /\ r.size <= r.committed
  /\ r.alignment # 0 /\ r.alignment <= MaxAlignment /\ PowerOfTwo(r.alignment)
  /\ Fitting(r.domain, r.alignment, r.aligned)

\* The bytes of a namespace that is not lax are its own.
OwnBytes(ns, bytes) == ns \notin lax => bytes \subseteq {ns}

SlotOK(s) ==
  /\ s.committed \in SizeT /\ s.last_owner \in Namespaces
  /\ s.aligned \in Nat /\ s.bytes \subseteq Namespaces
  /\ s.key.alignment \in SizeT \ {0}
  /\ Fitting(s.key.domain, s.key.alignment, s.aligned)
  /\ OwnBytes(s.last_owner, s.bytes)

IInv ==
  /\ lax \subseteq Namespaces
  /\ \E S : pool \in Seq(S)
  /\ \A i \in DOMAIN pool : SlotOK(pool[i])
  /\ \A h \in Live :
       /\ BufferOK(buffers[h])
       /\ OwnBytes(buffers[h].ns, buffers[h].bytes)
       /\ buffers[h].policy \in {"ON_ALLOCATE", "ALWAYS"}
            => buffers[h].bytes \subseteq {buffers[h].ns}
-----------------------------------------------------------------------------
(***************************************************************************)
(* Arithmetic.                                                             *)
(***************************************************************************)
\* A remainder is less than its divisor.
LEMMA ModBound ==
  ASSUME NEW x \in Nat, NEW y \in Nat \ {0}
  PROVE  x % y \in 0..(y - 1) /\ x % y <= x /\ y % y = 0
OBVIOUS

\* align_up never rounds down, and its result is a size_t.
LEMMA AlignUpBounds ==
  ASSUME NEW v \in SizeT, NEW al \in SizeT, NEW u \in align_up(v, al)
  PROVE  u \in SizeT /\ v <= u /\ al # 0 /\ PowerOfTwo(al)
<1>1. /\ al # 0 /\ PowerOfTwo(al) /\ ~(v > kMaxSizeT - (al - 1))
      /\ u = ClearLow(v + (al - 1), al)
  BY DEF align_up
<1>2. kMaxSizeT \in Nat /\ v \in Nat /\ al \in Nat \ {0}
  BY <1>1, WidthAssumption DEF SizeT
<1>3. v + (al - 1) \in Nat
  BY <1>2
<1>4. (v + (al - 1)) % al \in 0..(al - 1) /\ (v + (al - 1)) % al <= v + (al - 1)
  BY <1>2, <1>3, ModBound
<1>5. QED
  BY <1>1, <1>2, <1>4 DEF ClearLow, SizeT

\* range_in_bounds and the backends' form of the test let exactly the ranges
\* through that end within the total, although neither adds beyond size_t.
LEMMA BoundsExact ==
  ASSUME NEW offset \in SizeT, NEW len \in SizeT, NEW total \in SizeT
  PROVE  /\ range_in_bounds(offset, len, total) <=> offset + len <= total
         /\ within_committed(offset, len, total) <=> offset + len <= total
BY WidthAssumption DEF SizeT, range_in_bounds, add_overflow, within_committed
-----------------------------------------------------------------------------
(***************************************************************************)
(* Requests.                                                               *)
(***************************************************************************)
\* An address from a backend fits every alignment that validate_request admits.
LEMMA AddressFits ==
  ASSUME NEW domain, NEW al \in SizeT \ {0}, PowerOfTwo(al), al <= MaxAlignment
  PROVE  Fitting(domain, al, address_alignment(domain, al))
<1>0. /\ al \in Nat \ {0} /\ kMaxSizeT \in Nat /\ MaxAlignment \in Nat
      /\ kWord \in Nat /\ kCudaAlignment \in Nat /\ kPage \in Nat
  BY WidthAssumption, RequestAssumption, AlignmentAssumption DEF SizeT
<1>1. CASE domain \in CudaDomains
  BY <1>0, <1>1, AlignmentAssumption DEF Fitting, address_alignment
<1>2. CASE domain = "HOST"
  <2>1. domain \notin CudaDomains
    BY <1>2 DEF CudaDomains
  <2>2. al % al = 0
    BY <1>0, ModBound
  <2>3. al < kWord => kWord % al = 0
    BY <1>0, AlignmentAssumption
  <2>4. QED
    BY <1>2, <2>1, <2>2, <2>3 DEF Fitting, address_alignment
<1>3. CASE domain \notin CudaDomains /\ domain # "HOST"
  <2>1. kPage % al = 0
    BY <1>0, AlignmentAssumption
  <2>2. QED
    BY <1>3, <2>1 DEF Fitting, address_alignment
<1>4. QED
  BY <1>1, <1>2, <1>3

\* The record of a request that is let through fits its fresh backing.
LEMMA NewRecordOK ==
  ASSUME NEW ns \in Namespaces, NEW domain \in Domains, NEW size \in Sizes,
         NEW al \in SizeT, NEW exportable \in Exportable, NEW pooled \in Pooled,
         NEW policy \in Policies, NEW class_size \in validate_request(size, al)
  PROVE  BufferOK(NewRecord(ns, domain, size, al, exportable, pooled, policy, class_size))
<1> DEFINE r == NewRecord(ns, domain, size, al, exportable, pooled, policy, class_size)
<1>1. /\ r.ns = ns /\ r.domain = domain /\ r.size = size /\ r.alignment = al
      /\ r.policy = policy /\ r.committed = class_size
      /\ r.aligned = address_alignment(domain, al)
  BY DEF NewRecord
<1>2. /\ size # 0 /\ ~(size > MaxSize) /\ ~(al > MaxAlignment)
      /\ class_size \in align_up(size, al)
  BY DEF validate_request
<1>3. size \in SizeT
  BY RequestAssumption
<1>4. class_size \in SizeT /\ size <= class_size /\ al # 0 /\ PowerOfTwo(al)
  BY <1>2, <1>3, AlignUpBounds
<1>5. size \in 1..MaxSize /\ al <= MaxAlignment
  BY <1>2, <1>3, WidthAssumption, RequestAssumption DEF SizeT
<1>6. Fitting(domain, al, address_alignment(domain, al))
  BY <1>4, <1>5, AddressFits
<1>7. address_alignment(domain, al) \in Nat
  BY AlignmentAssumption, WidthAssumption DEF address_alignment, SizeT
<1>8. r \in Record
  BY <1>3, <1>4, <1>7 DEF NewRecord, Record, pool_eligible
<1> HIDE DEF r
<1>9. QED
  BY <1>1, <1>4, <1>5, <1>6, <1>8 DEF BufferOK, r
-----------------------------------------------------------------------------
(***************************************************************************)
(* Steps.                                                                  *)
(***************************************************************************)
\* What holds of every buffer after a step that sets one of them.
LEMMA SetBufferKeeps ==
  ASSUME NEW h, NEW r, SetBuffer(h, r), IInv, lax \subseteq lax', lax' \subseteq Namespaces,
         BufferOK(r),
         r.ns \notin lax' => r.bytes \subseteq {r.ns},
         r.policy \in {"ON_ALLOCATE", "ALWAYS"} => r.bytes \subseteq {r.ns}
  PROVE  \A k \in Live' :
           /\ BufferOK(buffers[k])'
           /\ OwnBytes(buffers[k].ns, buffers[k].bytes)'
           /\ buffers'[k].policy \in {"ON_ALLOCATE", "ALWAYS"}
                => buffers'[k].bytes \subseteq {buffers'[k].ns}
<1> TAKE k \in Live'
<1>1. k \in Live \cup {h} /\ buffers'[k] = IF k = h THEN r ELSE buffers[k]
  BY DEF SetBuffer, Live
<1>2. CASE k = h
  BY <1>1, <1>2 DEF BufferOK, OwnBytes, Fitting
<1>3. CASE k # h
  <2>1. k \in Live /\ buffers'[k] = buffers[k]
    BY <1>1, <1>3
  <2>2. QED
    BY <2>1 DEF IInv, BufferOK, OwnBytes, Fitting
<1>4. QED
  BY <1>2, <1>3

\* Slots stay as they are when the pool does and no namespace stops being lax.
LEMMA SlotKeeps ==
  ASSUME NEW s, SlotOK(s), lax \subseteq lax'
  PROVE  SlotOK(s)'
BY DEF SlotOK, OwnBytes, Fitting

\* pool_take removes one slot and leaves the others.
LEMMA RemoveKeeps ==
  ASSUME NEW S, NEW s \in Seq(S), NEW i \in DOMAIN s
  PROVE  /\ RemoveAt(s, i) \in Seq(S)
         /\ \A j \in DOMAIN RemoveAt(s, i) : \E k \in DOMAIN s : RemoveAt(s, i)[j] = s[k]
<1> DEFINE front == SubSeq(s, 1, i - 1)
           back == SubSeq(s, i + 1, Len(s))
<1>1. RemoveAt(s, i) = front \o back
  BY DEF RemoveAt
<1>2. /\ Len(s) \in Nat /\ i \in 1..Len(s) /\ DOMAIN s = 1..Len(s)
  OBVIOUS
<1>3. /\ front \in Seq(S) /\ Len(front) = i - 1
      /\ \A j \in 1..(i - 1) : front[j] = s[j]
  BY <1>2
<1>4. /\ back \in Seq(S) /\ Len(back) = Len(s) - i
      /\ \A j \in 1..(Len(s) - i) : back[j] = s[i + j]
  BY <1>2
<1> HIDE DEF front, back
<1>5. /\ front \o back \in Seq(S) /\ DOMAIN (front \o back) = 1..(Len(s) - 1)
      /\ \A j \in 1..(Len(s) - 1) :
           (front \o back)[j] = IF j <= i - 1 THEN front[j] ELSE back[j - (i - 1)]
  <2>1. Len(front) + Len(back) = Len(s) - 1
    BY <1>2, <1>3, <1>4
  <2>2. Len(front \o back) = Len(s) - 1 /\ front \o back \in Seq(S)
    BY <1>3, <1>4, <2>1, ConcatProperties
  <2>3. DOMAIN (front \o back) = 1..(Len(s) - 1)
    BY <2>2
  <2>4. \A j \in 1..(Len(front) + Len(back)) :
          (front \o back)[j] = IF j <= Len(front) THEN front[j] ELSE back[j - Len(front)]
    BY <1>3, <1>4, ConcatProperties, Zenon
  <2>5. QED
    BY <1>3, <2>1, <2>2, <2>3, <2>4, Zenon
<1> DEFINE rest == front \o back
<1> HIDE DEF rest
<1>6. ASSUME NEW j \in 1..(Len(s) - 1)
      PROVE  \E k \in DOMAIN s : rest[j] = s[k]
  <2>1. rest[j] = IF j <= i - 1 THEN front[j] ELSE back[j - (i - 1)]
    BY <1>5 DEF rest
  <2>2. CASE j <= i - 1
    <3>1. j \in 1..(i - 1) /\ j \in DOMAIN s
      BY <1>2, <2>2
    <3>2. QED
      BY <1>3, <2>1, <2>2, <3>1
  <2>3. CASE ~(j <= i - 1)
    <3>1. j - (i - 1) \in 1..(Len(s) - i) /\ i + (j - (i - 1)) \in DOMAIN s
      BY <1>2, <2>3
    <3>2. QED
      BY <1>4, <2>1, <2>3, <3>1
  <2>4. QED
    BY <2>2, <2>3
<1>7. QED
  BY <1>1, <1>5, <1>6 DEF rest

\* A slot that goes to the end of the pool.
LEMMA AppendKeeps ==
  ASSUME NEW S, NEW s \in Seq(S), NEW x
  PROVE  /\ Append(s, x) \in Seq(S \cup {x})
         /\ \A j \in DOMAIN Append(s, x) :
              \/ Append(s, x)[j] = x
              \/ j \in DOMAIN s /\ Append(s, x)[j] = s[j]
<1>1. s \in Seq(S \cup {x}) /\ x \in S \cup {x}
  OBVIOUS
<1>2. QED
  BY <1>1, AppendProperties

\* A buffer comes to live on a backing whose bytes are those of last_owner.
LEMMA RegisterKeeps ==
  ASSUME IInv, NEW h, NEW r, NEW last_owner, register(h, r, last_owner),
         BufferOK(r),
         r.bytes = {} \/ \E o \in last_owner : o \notin lax => r.bytes \subseteq {o}
  PROVE  /\ lax \subseteq lax' /\ lax' \subseteq Namespaces
         /\ \A k \in Live' :
              /\ BufferOK(buffers[k])'
              /\ OwnBytes(buffers[k].ns, buffers[k].bytes)'
              /\ buffers'[k].policy \in {"ON_ALLOCATE", "ALWAYS"}
                   => buffers'[k].bytes \subseteq {buffers'[k].ns}
<1>0. r \in Record /\ r.ns \in Namespaces /\ lax \subseteq Namespaces
  BY DEF BufferOK, IInv, Record
<1>1. CASE UNCHANGED <<buffers, lax>>
  BY <1>0, <1>1 DEF IInv, Live, OwnBytes, BufferOK, Fitting
<1>2. CASE lax' = IF r.policy \in {"NEVER", "ON_RELEASE"} THEN lax \cup {r.ns} ELSE lax
  <2>1. lax \subseteq lax' /\ lax' \subseteq Namespaces
    BY <1>0, <1>2
  <2>2. CASE want_zero(r.policy, r.ns, last_owner) /\ SetBuffer(h, [r EXCEPT !.bytes = {}])
    <3> DEFINE z == [r EXCEPT !.bytes = {}]
    <3>1. /\ z \in Record /\ z.ns = r.ns /\ z.domain = r.domain /\ z.size = r.size
          /\ z.alignment = r.alignment /\ z.committed = r.committed
          /\ z.aligned = r.aligned /\ z.bytes = {} /\ z.policy = r.policy
      BY <1>0 DEF Record
    <3> HIDE DEF z
    <3>2. BufferOK(z)
      BY <3>1 DEF BufferOK
    <3>3. SetBuffer(h, z)
      BY <2>2 DEF z
    <3>4. QED
      BY <2>1, <3>1, <3>2, <3>3, SetBufferKeeps
  <2>3. CASE ~want_zero(r.policy, r.ns, last_owner) /\ SetBuffer(h, r)
    <3>1. r.policy \notin {"ON_ALLOCATE", "ALWAYS"}
      BY <2>3 DEF want_zero
    <3>2. ASSUME r.ns \notin lax' PROVE r.bytes \subseteq {r.ns}
      <4>1. r.policy = "ON_CROSS_OWNER_REUSE" /\ r.ns \notin lax
        BY <1>0, <1>2, <3>1, <3>2 DEF Record, Policies
      <4>2. \A o \in last_owner : o = r.ns
        BY <2>3, <4>1 DEF want_zero
      <4>3. QED
        BY <4>1, <4>2
    <3>3. QED
      BY <2>1, <2>3, <3>1, <3>2, SetBufferKeeps
  <2>4. QED
    BY <1>1, <2>1, <2>2, <2>3 DEF register
<1>3. QED
  BY <1>1, <1>2 DEF register

\* The key tells the alignment and the domain.
LEMMA KeyFields ==
  ASSUME NEW r, r.alignment # 0
  PROVE  make_pool_key(r).alignment = r.alignment /\ make_pool_key(r).domain = r.domain
BY DEF make_pool_key

\* allocate_record: a fresh backing fits by NewRecordOK, one from the pool by
\* what its slot has kept.
LEMMA AllocateKeeps ==
  ASSUME IInv, NEW h \in Handles, NEW ns \in Namespaces, NEW domain \in Domains,
         NEW size \in Sizes, NEW al \in Alignments, NEW exportable \in Exportable,
         NEW pooled \in Pooled, NEW override \in Overrides,
         allocate_record(h, ns, domain, size, al, exportable, pooled, override)
  PROVE  IInv'
<1> DEFINE alignment == alignment_of(domain, al)
           policy == IF override = {} THEN zeroing[ns] ELSE CHOOSE p \in override : TRUE
<1>1. alignment \in SizeT
  BY RequestAssumption DEF alignment_of
<1>2. policy \in Policies
  <2>1. CASE override = {}
    BY <2>1, PolicyAssumption
  <2>2. CASE override # {}
    <3>1. PICK p \in Policies : override = {p}
      BY <2>2, PolicyAssumption
    <3>2. QED
      BY <2>2, <3>1
  <2>3. QED
    BY <2>1, <2>2
<1> HIDE DEF alignment, policy
<1>3. PICK class_size \in validate_request(size, alignment) :
        LET r == NewRecord(ns, domain, size, alignment, exportable, pooled, policy,
                           class_size)
            fits == IF pooled /\ pool_cfg.enabled
                      THEN Fits(make_pool_key(r), class_size) ELSE {}
        IN \/ /\ fits = {}
              /\ register(h, r, {})
              /\ UNCHANGED pool
           \/ \E i \in fits :
                /\ \A j \in fits : i <= j
                /\ pool' = RemoveAt(pool, i)
                /\ register(h, [r EXCEPT !.committed = pool[i].committed,
                                         !.aligned = pool[i].aligned,
                                         !.bytes = pool[i].bytes],
                            {pool[i].last_owner})
  BY DEF allocate_record, alignment, policy
<1> DEFINE r == NewRecord(ns, domain, size, alignment, exportable, pooled, policy,
                          class_size)
<1>4. BufferOK(r) /\ r.bytes = {} /\ r.committed = class_size
  BY <1>1, <1>2, NewRecordOK DEF NewRecord
<1> HIDE DEF r
<1>5. CASE register(h, r, {}) /\ UNCHANGED pool
  <2>1. /\ lax \subseteq lax' /\ lax' \subseteq Namespaces
        /\ \A k \in Live' :
             /\ BufferOK(buffers[k])'
             /\ OwnBytes(buffers[k].ns, buffers[k].bytes)'
             /\ buffers'[k].policy \in {"ON_ALLOCATE", "ALWAYS"}
                  => buffers'[k].bytes \subseteq {buffers'[k].ns}
    BY <1>4, <1>5, RegisterKeeps
  <2>2. \A i \in DOMAIN pool : SlotOK(pool[i])'
    BY <1>5, <2>1, SlotKeeps DEF IInv
  <2>3. QED
    BY <1>5, <2>1, <2>2 DEF IInv
<1>6. ASSUME NEW i \in Fits(make_pool_key(r), class_size),
             pool' = RemoveAt(pool, i),
             register(h, [r EXCEPT !.committed = pool[i].committed,
                                   !.aligned = pool[i].aligned,
                                   !.bytes = pool[i].bytes],
                      {pool[i].last_owner})
      PROVE  IInv'
  <2> DEFINE q == [r EXCEPT !.committed = pool[i].committed,
                            !.aligned = pool[i].aligned, !.bytes = pool[i].bytes]
  <2>1. /\ i \in DOMAIN pool /\ pool[i].key = make_pool_key(r)
        /\ pool[i].committed >= class_size /\ SlotOK(pool[i])
    BY <1>6 DEF Fits, IInv
  <2>2. /\ r \in Record /\ r.size <= r.committed /\ r.size \in SizeT
        /\ r.alignment # 0
    BY <1>4 DEF BufferOK, Record
  <2>3. /\ q \in Record /\ q.ns = r.ns /\ q.domain = r.domain /\ q.size = r.size
        /\ q.alignment = r.alignment /\ q.policy = r.policy
        /\ q.committed = pool[i].committed /\ q.aligned = pool[i].aligned
        /\ q.bytes = pool[i].bytes
    BY <2>1, <2>2 DEF Record, SlotOK
  <2> HIDE DEF q
  <2>4. q.size <= q.committed
    <3>1. /\ q.size \in Nat /\ q.committed \in Nat /\ class_size \in Nat
          /\ pool[i].committed \in Nat
      BY <1>4, <2>1, <2>2, <2>3, WidthAssumption DEF SlotOK, SizeT, Record
    <3>2. QED
      BY <1>4, <2>1, <2>2, <2>3, <3>1
  <2>5. Fitting(q.domain, q.alignment, q.aligned)
    BY <2>1, <2>2, <2>3, KeyFields DEF SlotOK
  <2>6. BufferOK(q)
    BY <1>4, <2>3, <2>4, <2>5 DEF BufferOK
  <2>7. \E o \in {pool[i].last_owner} : o \notin lax => q.bytes \subseteq {o}
    BY <2>1, <2>3 DEF SlotOK, OwnBytes
  <2>8. register(h, q, {pool[i].last_owner})
    BY <1>6 DEF q
  <2>9. /\ lax \subseteq lax' /\ lax' \subseteq Namespaces
        /\ \A k \in Live' :
             /\ BufferOK(buffers[k])'
             /\ OwnBytes(buffers[k].ns, buffers[k].bytes)'
             /\ buffers'[k].policy \in {"ON_ALLOCATE", "ALWAYS"}
                  => buffers'[k].bytes \subseteq {buffers'[k].ns}
    BY <2>6, <2>7, <2>8, RegisterKeeps
  <2>10. PICK S : pool \in Seq(S)
    BY DEF IInv
  <2>11. /\ pool' \in Seq(S)
         /\ \A j \in DOMAIN pool' : \E k \in DOMAIN pool : pool'[j] = pool[k]
    BY <1>6, <2>1, <2>10, RemoveKeeps
  <2>12. ASSUME NEW j \in DOMAIN pool' PROVE SlotOK(pool[j])'
    <3>1. PICK k \in DOMAIN pool : pool'[j] = pool[k]
      BY <2>11
    <3>2. SlotOK(pool[k])
      BY <3>1 DEF IInv
    <3>3. QED
      BY <2>9, <3>1, <3>2 DEF SlotOK, OwnBytes, Fitting
  <2>13. QED
    BY <2>9, <2>11, <2>12 DEF IInv
<1>7. QED
  BY <1>3, <1>5, <1>6 DEF r

\* write and migrate change one buffer; the pool and lax stay.
LEMMA ReplaceKeeps ==
  ASSUME IInv, NEW h \in Live, NEW r, SetBuffer(h, r), UNCHANGED <<pool, lax>>,
         BufferOK(r), r.ns = buffers[h].ns, r.policy = buffers[h].policy,
         r.bytes \subseteq buffers[h].bytes \cup {r.ns}
  PROVE  IInv'
<1>1. r.ns \notin lax' => r.bytes \subseteq {r.ns}
  BY DEF IInv, OwnBytes
<1>2. r.policy \in {"ON_ALLOCATE", "ALWAYS"} => r.bytes \subseteq {r.ns}
  BY DEF IInv
<1>3. lax \subseteq lax' /\ lax' \subseteq Namespaces
  BY DEF IInv
<1>4. \A k \in Live' :
        /\ BufferOK(buffers[k])'
        /\ OwnBytes(buffers[k].ns, buffers[k].bytes)'
        /\ buffers'[k].policy \in {"ON_ALLOCATE", "ALWAYS"}
             => buffers'[k].bytes \subseteq {buffers'[k].ns}
  BY <1>1, <1>2, <1>3, SetBufferKeeps
<1>5. QED
  BY <1>3, <1>4 DEF IInv, SlotOK, OwnBytes, Fitting

\* write adds the buffer's own namespace.
LEMMA WriteKeeps == ASSUME IInv, NEW h, write(h) PROVE IInv'
<1> DEFINE r == [buffers[h] EXCEPT !.bytes = @ \cup {buffers[h].ns}]
<1>1. h \in Live /\ SetBuffer(h, r) /\ UNCHANGED <<pool, lax>>
  BY DEF write
<1>2. BufferOK(buffers[h])
  BY <1>1 DEF IInv
<1>3. buffers[h] \in Record
  BY <1>2 DEF BufferOK
<1>4. /\ r \in Record /\ r.ns = buffers[h].ns /\ r.policy = buffers[h].policy
      /\ r.domain = buffers[h].domain /\ r.size = buffers[h].size
      /\ r.alignment = buffers[h].alignment /\ r.committed = buffers[h].committed
      /\ r.aligned = buffers[h].aligned
      /\ r.bytes = buffers[h].bytes \cup {buffers[h].ns}
  BY <1>3 DEF Record
<1> HIDE DEF r
<1>5. BufferOK(r)
  BY <1>2, <1>4 DEF BufferOK
<1>6. QED
  BY <1>1, <1>4, <1>5, ReplaceKeeps

\* migrate takes as much memory, aligned as the target domain aligns it.
LEMMA MigrateKeeps ==
  ASSUME IInv, NEW h, NEW target \in Domains, migrate(h, target) PROVE IInv'
<1> DEFINE aligned == address_alignment(target, buffers[h].alignment)
           r == [buffers[h] EXCEPT !.domain = target, !.pool_eligible = FALSE,
                                   !.aligned = aligned]
<1>1. h \in Live /\ SetBuffer(h, r) /\ UNCHANGED <<pool, lax>>
  BY DEF migrate
<1>2. BufferOK(buffers[h])
  BY <1>1 DEF IInv
<1>3. buffers[h] \in Record /\ buffers[h].alignment \in SizeT \ {0}
  BY <1>2 DEF BufferOK, Record
<1>4. aligned \in Nat /\ Fitting(target, buffers[h].alignment, aligned)
  <2>1. aligned \in Nat
    BY <1>3, AlignmentAssumption, WidthAssumption DEF address_alignment, SizeT
  <2>2. QED
    BY <1>2, <1>3, <2>1, AddressFits DEF BufferOK
<1> HIDE DEF aligned
<1>5. /\ r \in Record /\ r.ns = buffers[h].ns /\ r.policy = buffers[h].policy
      /\ r.domain = target /\ r.size = buffers[h].size
      /\ r.alignment = buffers[h].alignment /\ r.committed = buffers[h].committed
      /\ r.aligned = aligned /\ r.bytes = buffers[h].bytes
  BY <1>3, <1>4 DEF Record
<1> HIDE DEF r
<1>6. BufferOK(r)
  BY <1>2, <1>4, <1>5 DEF BufferOK
<1>7. QED
  BY <1>1, <1>5, <1>6, ReplaceKeeps

\* finalize: the slot promises what the buffer had; a zeroed slot shows nothing.
LEMMA FinalizeKeeps == ASSUME IInv, NEW h, finalize(h) PROVE IInv'
<1> DEFINE r == buffers[h]
           slot(bytes) == [key |-> make_pool_key(r), committed |-> r.committed,
                           aligned |-> r.aligned, last_owner |-> r.ns, bytes |-> bytes]
<1>1. h \in Live /\ buffers' = [k \in Live \ {h} |-> buffers[k]] /\ lax' = lax
  BY DEF finalize
<1>2. \/ UNCHANGED pool
      \/ \E bytes \in {{}, r.bytes} : pool' = Append(pool, slot(bytes))
  BY DEF finalize
<1>3. \A k \in Live' :
        /\ BufferOK(buffers[k])'
        /\ OwnBytes(buffers[k].ns, buffers[k].bytes)'
        /\ buffers'[k].policy \in {"ON_ALLOCATE", "ALWAYS"}
             => buffers'[k].bytes \subseteq {buffers'[k].ns}
  <2> TAKE k \in Live'
  <2>1. k \in Live /\ buffers'[k] = buffers[k]
    BY <1>1 DEF Live
  <2>2. QED
    BY <1>1, <2>1 DEF IInv, BufferOK, OwnBytes, Fitting
<1>4. CASE UNCHANGED pool
  BY <1>1, <1>3, <1>4 DEF IInv, SlotOK, OwnBytes, Fitting
<1>5. ASSUME NEW bytes \in {{}, r.bytes}, pool' = Append(pool, slot(bytes))
      PROVE  IInv'
  <2>1. /\ BufferOK(r) /\ OwnBytes(r.ns, r.bytes)
        /\ r \in Record /\ r.alignment \in SizeT \ {0} /\ r.committed \in SizeT
        /\ r.aligned \in Nat /\ r.ns \in Namespaces /\ r.bytes \subseteq Namespaces
    <3>1. BufferOK(r) /\ OwnBytes(r.ns, r.bytes)
      BY <1>1 DEF IInv
    <3>2. QED
      BY <3>1 DEF BufferOK, Record
  <2>2. SlotOK(slot(bytes))
    BY <1>5, <2>1, KeyFields DEF SlotOK, OwnBytes, BufferOK
  <2>3. PICK S : pool \in Seq(S)
    BY DEF IInv
  <2> DEFINE x == slot(bytes)
  <2> HIDE DEF x
  <2>4. /\ pool' \in Seq(S \cup {x})
        /\ \A j \in DOMAIN pool' :
             pool'[j] = x \/ (j \in DOMAIN pool /\ pool'[j] = pool[j])
    BY <1>5, <2>3, AppendKeeps DEF x
  <2>5. ASSUME NEW j \in DOMAIN pool' PROVE SlotOK(pool[j])'
    <3>1. SlotOK(pool'[j])
      BY <2>2, <2>4 DEF IInv, x
    <3>2. QED
      BY <1>1, <3>1 DEF SlotOK, OwnBytes, Fitting
  <2>6. lax' \subseteq Namespaces
    BY <1>1 DEF IInv
  <2>7. QED
    BY <1>3, <2>4, <2>5, <2>6 DEF IInv
<1>6. QED
  BY <1>2, <1>4, <1>5

\* pool_trim leaves no slot.
LEMMA TrimKeeps == ASSUME IInv, pool_trim PROVE IInv'
<1>1. pool' = <<>> /\ UNCHANGED <<buffers, lax>>
  BY DEF pool_trim
<1>2. pool' \in Seq({}) /\ DOMAIN pool' = {}
  BY <1>1
<1>3. QED
  BY <1>1, <1>2 DEF IInv, Live, BufferOK, OwnBytes, Fitting
-----------------------------------------------------------------------------
\* A new runtime has no slot and no buffer.
LEMMA InitIInv == Init => IInv
<1> SUFFICES ASSUME Init PROVE IInv
  OBVIOUS
<1>1. pool \in Seq({}) /\ DOMAIN pool = {} /\ Live = {} /\ lax = {}
  BY DEF Init, Live
<1>2. QED
  BY <1>1 DEF IInv

\* IInv is inductive.
LEMMA NextIInv == IInv /\ [Next]_vars => IInv'
<1> SUFFICES ASSUME IInv, [Next]_vars PROVE IInv'
  OBVIOUS
<1>1. CASE UNCHANGED vars
  BY <1>1 DEF vars, IInv, Live, SlotOK, BufferOK, OwnBytes, Fitting
<1>2. CASE Next
  BY <1>2, TrimKeeps, WriteKeeps, FinalizeKeeps, MigrateKeeps, AllocateKeeps DEF Next
<1>3. QED
  BY <1>1, <1>2

\* Every record and slot keeps its type and the limits of validate_request.
THEOREM TypeCorrect == Spec => []TypeOK
<1>1. IInv => TypeOK
  BY DEF IInv, TypeOK, SlotOK, BufferOK
<1>2. QED
  BY <1>1, InitIInv, NextIInv, PTL DEF Spec

\* For every width of size_t, whatever size classes the pool is configured
\* with: no offset and length that view, copy_to, copy_from, checksum or a
\* backend's zero and verify let through reaches outside the backing.
THEOREM RangesStayInBacking == Spec => []RangesInBacking
<1>1. ASSUME IInv PROVE RangesInBacking
  <2>1. SUFFICES ASSUME NEW h \in Live
        PROVE LET r == buffers[h]
              IN /\ checksum_bytes(r) \subseteq Backing(r)
                 /\ \A len \in SizeT :
                      /\ copy_from_bytes(r, len) \subseteq Backing(r)
                      /\ \A offset \in SizeT :
                           /\ view_bytes(r, offset, len) \subseteq Backing(r)
                           /\ copy_to_bytes(r, offset, len) \subseteq Backing(r)
                           /\ backend_bytes(r, offset, len) \subseteq Backing(r)
    BY DEF RangesInBacking
  <2> DEFINE r == buffers[h]
  <2>2. BufferOK(r)
    BY <1>1 DEF IInv
  <2>3. r.committed \in SizeT /\ r.size \in SizeT /\ r.size <= r.committed
    BY <2>2 DEF BufferOK, Record
  <2> HIDE DEF r
  <2>4. /\ kMaxSizeT \in Nat /\ r.committed \in Nat /\ r.size \in Nat
        /\ \A n \in SizeT : n \in Nat
    BY <2>3, WidthAssumption DEF SizeT
  <2>5. checksum_bytes(r) \subseteq Backing(r)
    BY <2>3, <2>4 DEF checksum_bytes, Bytes, Backing
  <2>6. ASSUME NEW len \in SizeT
        PROVE  copy_from_bytes(r, len) \subseteq Backing(r)
    BY <2>3, <2>4 DEF copy_from_bytes, Bytes, Backing
  <2>7. ASSUME NEW len \in SizeT, NEW offset \in SizeT
        PROVE  /\ view_bytes(r, offset, len) \subseteq Backing(r)
               /\ copy_to_bytes(r, offset, len) \subseteq Backing(r)
               /\ backend_bytes(r, offset, len) \subseteq Backing(r)
    <3>1. view_bytes(r, offset, len) \subseteq Backing(r)
      BY <2>3, <2>4, BoundsExact DEF view_bytes, Bytes, Backing
    <3>2. copy_to_bytes(r, offset, len) \subseteq Backing(r)
      BY <2>3, <2>4 DEF copy_to_bytes, Bytes, Backing
    <3>3. backend_bytes(r, offset, len) \subseteq Backing(r)
      BY <2>3, <2>4, BoundsExact DEF backend_bytes, Bytes, Backing
    <3>4. QED
      BY <3>1, <3>2, <3>3
  <2>8. QED
    BY <2>5, <2>6, <2>7 DEF r
<1>2. QED
  BY <1>1, InitIInv, NextIInv, PTL DEF Spec

\* Pool keys keep memory of different alignments apart, and every backend but
\* CUDA's returns an address that fits any alignment up to the limit.
THEOREM AlignmentStays == Spec => []AlignmentKept
<1>1. IInv => AlignmentKept
  BY DEF IInv, AlignmentKept, BufferOK, Fitting
<1>2. QED
  BY <1>1, InitIInv, NextIInv, PTL DEF Spec

\* The zeroing policies keep the bytes of other namespaces out, for any number
\* of namespaces, any mixture of policies and any failures of zero.
THEOREM ForeignBytesStayOut == Spec => []NoForeignBytes
<1>1. IInv => NoForeignBytes
  BY DEF IInv, NoForeignBytes, OwnBytes
<1>2. QED
  BY <1>1, InitIInv, NextIInv, PTL DEF Spec
=============================================================================
