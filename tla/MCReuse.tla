------------------------------ MODULE MCReuse ------------------------------
(***************************************************************************)
(* Reuse on size_t values of four bits: sizes up to 8, alignments up to 4, *)
(* two namespaces with different zeroing policies, a pool of two slots.    *)
(* The checksum has bytes of two bits and a register of four.  An initial  *)
(* state also fixes a message to checksum; the runtime runs beside the     *)
(* empty one.                                                              *)
(***************************************************************************)
EXTENDS Reuse, Integrity, TLC

CONSTANTS a, b
VARIABLE message

MCSizes == {0, 1, 3, 6, 9, 15}
MCAlignments == {0, 3, 4, 8}
MCOverrides == {{}, {"NEVER"}}
MCZeroing == a :> "ON_CROSS_OWNER_REUSE" @@ b :> "ALWAYS"
MCPreferred == "HOST" :> 2 @@ "DEVICE" :> 0
MCPool == [enabled |-> TRUE, min_class_size |-> 2, max_class_size |-> 4,
           max_objects |-> 2, max_idle_bytes |-> 10]

MCInit == Init /\ message \in Messages(4)

MCNext == message = <<>> /\ Next /\ UNCHANGED message

MCSpec == MCInit /\ [][MCNext]_<<vars, message>>

\* align_up in CheckedMath is the code's bitwise form.
ASSUME AlignUpBitwise ==
  \A x, y \in SizeT :
    align_up(x, y) =
      IF y = 0 \/ (y & (y - 1)) # 0 \/ x > kMaxSizeT - (y - 1) THEN {}
      ELSE {(x + (y - 1)) & (kMaxSizeT - (y - 1))}

\* Limits that are powers of two in order, 0 for the default among them; and
\* odd or crossed ones.
PowerLimits ==
  {cfg \in [min_class_size : {0, 1, 2, 4, 8}, max_class_size : {0, 1, 2, 4, 8}] :
     \/ 0 < cfg.min_class_size /\ cfg.min_class_size <= cfg.max_class_size
     \/ cfg.min_class_size = 0 /\ cfg.max_class_size >= kMinClass
     \/ cfg.max_class_size = 0}
OddLimits == [min_class_size : {3, 5, 8}, max_class_size : {2, 6}]

\* size_class_for against its definition, for every size in use and every pool
\* configuration whose limits are powers of two: "the next power-of-two within
\* [min_class_size, max_class_size]" (docs/ARCHITECTURE.md), the greatest one
\* for a request that exceeds them all.
ClassesLeast ==
  \A h \in Live, cfg \in PowerLimits : ClassLeast(cfg, buffers[h].size)

\* What the document says and the code does not do (README): the same for any
\* other limits.
ClassesWithinLimits ==
  \A h \in Live, cfg \in OddLimits : ClassLeast(cfg, buffers[h].size)

\* The table-driven checksum is the remainder of the polynomial division that
\* defines it, also when the checksum of a first part is passed as the seed of
\* the rest: meta_crc_of covers all of its fields as one message
\* (crc32c_self_test compares one message).
ChecksumIsRemainder ==
  \A i \in 0..Len(message) :
    meta_crc_of(<<SubSeq(message, 1, i), SubSeq(message, i + 1, Len(message))>>)
      = Reference(message)
=============================================================================
