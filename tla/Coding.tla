------------------------------- MODULE Coding -------------------------------
(***************************************************************************)
(* The integer codings of src/util/coding.cpp that every entry, segment    *)
(* header and segment index is written with.  A byte string is a sequence  *)
(* of numbers in 0..255 and a position p is the number of bytes before it *)
(* (a char* minus the buffer start).  A uint32_t shift drops the bits past *)
(* bit 31; TLC's integers stop at 2^31 - 1, which bounds the values used.  *)
(* kLittleEndian (endian.cpp) is a constant TRUE, so the fixed-width       *)
(* codings are the memcpy of a little-endian host.                         *)
(***************************************************************************)
EXTENDS Integers, Sequences, Bitwise

\* x << s on a uint32_t: the bits shifted past bit 31 are lost.
Shl32(x, s) == IF s = 0 THEN x ELSE (x % 2^(32 - s)) * 2^s

\* A store through an unsigned char*: the low 8 bits.
Byte(x) == x % 256

B == 128

\* Mutant: the one-byte range also takes 128 (<= in place of <).
EncodeVarint32OffByOne(v) ==
    CASE v <= 2^7 -> <<Byte(v)>>
      [] v < 2^14 -> <<Byte(v | B), Byte(shiftR(v, 7))>>
      [] v < 2^21 -> <<Byte(v | B), Byte(shiftR(v, 7) | B), Byte(shiftR(v, 14))>>
      [] v < 2^28 -> <<Byte(v | B), Byte(shiftR(v, 7) | B), Byte(shiftR(v, 14) | B),
                       Byte(shiftR(v, 21))>>
      [] OTHER    -> <<Byte(v | B), Byte(shiftR(v, 7) | B), Byte(shiftR(v, 14) | B),
                       Byte(shiftR(v, 21) | B), Byte(shiftR(v, 28))>>

\* EncodeVarint32: the bytes it stores, least significant 7 bits first.
EncodeVarint32(v) ==
    CASE v < 2^7  -> <<Byte(v)>>
      [] v < 2^14 -> <<Byte(v | B), Byte(shiftR(v, 7))>>
      [] v < 2^21 -> <<Byte(v | B), Byte(shiftR(v, 7) | B), Byte(shiftR(v, 14))>>
      [] v < 2^28 -> <<Byte(v | B), Byte(shiftR(v, 7) | B), Byte(shiftR(v, 14) | B),
                       Byte(shiftR(v, 21))>>
      [] OTHER    -> <<Byte(v | B), Byte(shiftR(v, 7) | B), Byte(shiftR(v, 14) | B),
                       Byte(shiftR(v, 21) | B), Byte(shiftR(v, 28))>>

\* EncodeFixed32 / GetFixed32 (memcpy of a uint32_t on a little-endian host).
EncodeFixed32(v) == [i \in 1..4 |-> Byte(shiftR(v, 8 * (i - 1)))]
GetFixed32(buf, p) == buf[p + 1] + 256 * buf[p + 2] + 65536 * buf[p + 3] + 16777216 * buf[p + 4]

\* Mutant: the loop stops one group early (shift < 28).
RECURSIVE GetVarint32PtrShort(_, _, _, _, _)
GetVarint32PtrShort(buf, p, limit, shift, result) ==
    IF shift < 28 /\ p < limit
    THEN LET byte == buf[p + 1]
         IN  IF (byte & 128) # 0
             THEN GetVarint32PtrShort(buf, p + 1, limit, shift + 7,
                                      result | Shl32(byte & 127, shift))
             ELSE [ok |-> TRUE, value |-> result | Shl32(byte, shift), next |-> p + 1]
    ELSE [ok |-> FALSE, value |-> 0, next |-> p]

\* Mutant: the loop does not stop at limit.
RECURSIVE GetVarint32PtrNoLimit(_, _, _, _, _)
GetVarint32PtrNoLimit(buf, p, limit, shift, result) ==
    IF shift <= 28
    THEN LET byte == buf[p + 1]
         IN  IF (byte & 128) # 0
             THEN GetVarint32PtrNoLimit(buf, p + 1, limit, shift + 7,
                                        result | Shl32(byte & 127, shift))
             ELSE [ok |-> TRUE, value |-> result | Shl32(byte, shift), next |-> p + 1]
    ELSE [ok |-> FALSE, value |-> 0, next |-> p]

\* GetVarint32Ptr from position p, the loop state being (shift, result):
\* ok = FALSE is the NULL return.
RECURSIVE GetVarint32Ptr(_, _, _, _, _)
GetVarint32Ptr(buf, p, limit, shift, result) ==
    IF shift <= 28 /\ p < limit
    THEN LET byte == buf[p + 1]
         IN  IF (byte & 128) # 0
             THEN GetVarint32Ptr(buf, p + 1, limit, shift + 7,
                                 result | Shl32(byte & 127, shift))
             ELSE [ok |-> TRUE, value |-> result | Shl32(byte, shift), next |-> p + 1]
    ELSE [ok |-> FALSE, value |-> 0, next |-> p]

\* GetVarint32(data, size, &value): <<bytes read or -1, value>>.
GetVarint32(buf, p, size) ==
    LET r == GetVarint32Ptr(buf, p, p + size, 0, 0)
    IN  IF r.ok THEN <<r.next - p, r.value>> ELSE <<-1, 0>>

\* Mutant: the loop runs while v > 128.
RECURSIVE VarintLengthFrom128(_, _)
VarintLengthFrom128(v, len) == IF v > 128 THEN VarintLengthFrom128(shiftR(v, 7), len + 1) ELSE len

\* VarintLength: len = 1; while (v >= 128) { v >>= 7; ++len; }
RECURSIVE VarintLengthLoop(_, _)
VarintLengthLoop(v, len) == IF v >= 128 THEN VarintLengthLoop(shiftR(v, 7), len + 1) ELSE len

VarintLength(v) == VarintLengthLoop(v, 1)

=============================================================================
