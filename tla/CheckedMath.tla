---------------------------- MODULE CheckedMath ----------------------------
(***************************************************************************)
(* The overflow-safe helpers of core/checked_math.hpp on size_t values of  *)
(* Width bits, and the way the backends write the same bounds test.        *)
(* std::optional is a set with at most one element.  x & ~mask, for a mask *)
(* of low bits, is ClearLow; MCReuse compares it with the bitwise form.    *)
(* mul_overflow, is_aligned and align_down have no caller and are left     *)
(* out.                                                                    *)
(***************************************************************************)
EXTENDS Integers

CONSTANTS
  Width,       \* bits of std::size_t
  kMaxSizeT    \* its largest value

ASSUME WidthAssumption ==
  Width \in Nat \ {0} /\ kMaxSizeT \in Nat /\ kMaxSizeT + 1 = 2^Width

SizeT == 0..kMaxSizeT

add_overflow(a, b) == b > kMaxSizeT - a

range_in_bounds(offset, length, total) ==
  ~add_overflow(offset, length) /\ offset + length <= total

\* "offset > committed || len > committed - offset" refuses, in the backends.
within_committed(offset, len, committed) ==
  ~(offset > committed \/ len > committed - offset)

PowerOfTwo(a) == \E k \in 0..(Width - 1) : a = 2^k

ClearLow(x, a) == x - (x % a)

align_up(value, alignment) ==
  IF alignment = 0 \/ ~PowerOfTwo(alignment) \/ value > kMaxSizeT - (alignment - 1)
    THEN {} ELSE {ClearLow(value + (alignment - 1), alignment)}
=============================================================================
