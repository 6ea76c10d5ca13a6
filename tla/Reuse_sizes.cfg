CONSTANTS
  Width = 4
  kMaxSizeT = 15
  a = a
  b = b
  Namespaces = {a, b}
  Handles = {h1}
  Domains = {"HOST", "DEVICE"}
  Sizes <- MCSizes
  Alignments <- MCAlignments
  Exportable = {FALSE}
  Pooled = {TRUE}
  Overrides <- MCOverrides
  zeroing <- MCZeroing
  MaxSize = 8
  MaxAlignment = 4
  preferred_alignment <- MCPreferred
  kDefaultAlignment = 4
  kWord = 1
  kCudaAlignment = 2
  kPage = 4
  kMinClass = 2
  kMaxClass = 8
  pool_cfg <- MCPool
  ZeroFails = TRUE
  ByteBits = 2
  CrcBits = 4
  kCrc32cPoly = 12
SPECIFICATION MCSpec
INVARIANTS
  RangesInBacking
  AlignmentKept
  NoForeignBytes
  ClassesLeast
  ChecksumIsRemainder
CHECK_DEADLOCK FALSE
