----------------------------- MODULE Integrity -----------------------------
(***************************************************************************)
(* The checksum of core/integrity.cpp and the metadata checksum built from *)
(* it, on bytes of ByteBits bits and a register of CrcBits bits (8 and 32  *)
(* in the code): the table, the loop over the bytes and the chaining by    *)
(* the seed are the code's, the widths are parameters.  Messages are       *)
(* sequences of bytes.                                                     *)
(***************************************************************************)
EXTENDS Integers, Sequences, Bitwise, SequencesExt

CONSTANTS
  ByteBits, CrcBits,
  kCrc32cPoly       \* the generator without its top term, bits reversed

Byte == 0..(2^ByteBits - 1)
Flip(c) == c ^^ (2^CrcBits - 1)

\* One bit of the division, as in the loop that fills the table.
DivideBit(c) == IF c % 2 = 1 THEN kCrc32cPoly ^^ (c \div 2) ELSE c \div 2

table == [i \in Byte |-> FoldLeft(LAMBDA c, k : DivideBit(c), i, [k \in 1..ByteBits |-> k])]

\* A seed that is used as it is.
crc32c_raw_seed(data, seed) ==
  Flip(FoldLeft(LAMBDA c, b : table[(c ^^ b) % 2^ByteBits] ^^ (c \div 2^ByteBits),
                seed, data))

crc32c(data, seed) ==
  Flip(FoldLeft(LAMBDA c, b : table[(c ^^ b) % 2^ByteBits] ^^ (c \div 2^ByteBits),
                Flip(seed), data))

\* The fields id, generation, domain, size and alignment, each as its bytes.
meta_crc_of(fields) == FoldLeft(LAMBDA c, f : crc32c(f, c), 0, fields)
-----------------------------------------------------------------------------
Bit(x, i) == (x \div 2^i) % 2

\* The bits of a message in the order in which they are sent.
BitsOf(data) ==
  [i \in 1..(Len(data) * ByteBits) |->
     Bit(data[1 + ((i - 1) \div ByteBits)], (i - 1) % ByteBits)]

\* Long division over GF(2) in its schoolbook form, on sequences of bits with
\* the highest power first: wherever the leading bit is one, the generator is
\* subtracted.  The remainder is the last CrcBits bits.
Generator == <<1>> \o [i \in 1..CrcBits |-> Bit(kCrc32cPoly, i - 1)]

Remainder(bits) ==
  LET n == Len(bits) - CrcBits
      Subtract(s, i) ==
        IF s[i] = 0 THEN s
        ELSE [j \in DOMAIN s |->
                IF j \in i..(i + CrcBits) THEN (s[j] + Generator[j - i + 1]) % 2 ELSE s[j]]
  IN SubSeq(FoldLeft(Subtract, bits, [i \in 1..n |-> i]), n + 1, Len(bits))

\* What the checksum of a message is: the message, its first CrcBits bits
\* inverted, times x^CrcBits, is divided; the remainder is inverted.
Reference(data) ==
  LET bits == BitsOf(data) \o [i \in 1..CrcBits |-> 0]
      rem == Remainder([i \in DOMAIN bits |->
                          IF i <= CrcBits THEN 1 - bits[i] ELSE bits[i]])
  IN FoldLeft(LAMBDA c, i : c + (1 - rem[i]) * 2^(i - 1), 0, [i \in 1..CrcBits |-> i])

Messages(n) == UNION {[1..m -> Byte] : m \in 0..n}
=============================================================================
