-------------------------- MODULE CodingRoundTrip --------------------------
(***************************************************************************)
(* The codings of Coding.tla over a set S of uint32 values: the operators  *)
(* compare the code's encoder, decoder and length function with the LEB128 *)
(* reference and with each other for every value of S.  SegmentFormat     *)
(* states them as properties over the values its files encode.             *)
(***************************************************************************)
EXTENDS Coding

\* Reference: unsigned LEB128, low 7-bit group first, high bit = "more".
RECURSIVE LEB128(_)
LEB128(x) == IF x < 128 THEN <<x>> ELSE <<(x % 128) + 128>> \o LEB128(x \div 128)

\* EncodeVarint32's unrolled branches write the LEB128 (and LevelDB) varint
\* of every uint32, at each of the four 7-bit boundaries included.
EncodeMatchesLEB128On(S) == \A v \in S : EncodeVarint32(v) = LEB128(v)

\* StorageBuffer::Add and Get size their buffers with VarintLength and then
\* write with EncodeVarint32 (assert at storage_buffer.cpp:31): the two
\* always agree on the number of bytes.
VarintLengthMatchesOn(S) == \A v \in S : VarintLength(v) = Len(EncodeVarint32(v))

\* GetVarint32(p, 5, &x) on an encoding followed by more data (as in an
\* entry, a header or the index) reads back v and the bytes it wrote, and
\* so does GetFixed32 on EncodeFixed32 (the header's index offset).
DecodeInvertsEncodeOn(S) ==
  \A v \in S :
    /\ GetVarint32(EncodeVarint32(v) \o <<255, 1, 0, 0, 0>>, 0, 5) = <<Len(EncodeVarint32(v)), v>>
    /\ GetFixed32(EncodeFixed32(v), 0) = v

\* GetVarint32Ptr never reads past limit: an encoding cut short is
\* rejected (-1) rather than decoded from the bytes after the limit.
TruncatedRejectedOn(S) ==
  \A v \in S :
    \A n \in 0..Len(EncodeVarint32(v)) - 1 : GetVarint32(EncodeVarint32(v), 0, n)[1] = -1

=============================================================================
