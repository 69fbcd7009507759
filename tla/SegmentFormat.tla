--------------------------- MODULE SegmentFormat ---------------------------
(***************************************************************************)
(* The byte format of a segment file: how StorageBuffer::Flush writes it   *)
(* (for the flush daemon's FlushBuffer and for NWayCompaction's            *)
(* FlushCompactedFile alike), and the four readers of it: the File         *)
(* constructor's bounds, StorageEngine::LoadKeyOffset, GetValueByOffset    *)
(* and the entry stream of NWayCompaction.  A key or value is a byte       *)
(* string (a sequence of numbers in 0..255) and a position p counts the    *)
(* bytes before it.  Each state holds one buffer content (its key/value    *)
(* pairs in key order) and the order in which the unordered_map key_offset *)
(* hands its keys to the index writer.                                     *)
(***************************************************************************)
EXTENDS CodingRoundTrip, SequencesExt, FiniteSets

CONSTANTS
    UserKeys,     \* a finite set of keys (byte strings)
    UserValues,   \* a finite set of values (byte strings), TombValue among them
    TombValue,    \* Constant::TombValue
    Samples       \* uint32 values to check the codings on (below 2^31)

ASSUME Samples \subseteq 0..(2^30 - 1) + 2^30

VARIABLES
    pairs,   \* the buffer's <<key, value>> pairs, in the skip list's order
    order,   \* key_offset's iteration order when the index is written
    file     \* the bytes FlushBuffer writes for them

vars == <<pairs, order, file>>

\* std::string's operator< (Compare in utils.h): lexicographic on bytes.
RECURSIVE LexLess(_, _)
LexLess(a, b) ==
    /\ b # <<>>
    /\ \/ a = <<>>
       \/ a[1] < b[1]
       \/ a[1] = b[1] /\ LexLess(Tail(a), Tail(b))

\* StorageBuffer::Add: the encoded entry it inserts into the skip list.
EncodeEntry(k, v) == EncodeVarint32(Len(k)) \o k \o EncodeVarint32(Len(v)) \o v

\* ExtractUserKey and EntrySize (utils.h) on an encoded entry.
ExtractUserKey(e) == LET kl == GetVarint32(e, 0, 5) IN SubSeq(e, kl[1] + 1, kl[1] + kl[2])
EntrySize(e) ==
    LET kl == GetVarint32(e, 0, 5)
        vl == GetVarint32(e, kl[1] + kl[2], 5)
    IN  kl[1] + kl[2] + vl[1] + vl[2]

\* The varint length and the key of an entry: what Flush copies of
\* content.front() and content.back() as the lower and upper bounds.
KeyRecord(e) == LET kl == GetVarint32(e, 0, 5) IN SubSeq(e, 1, kl[1] + kl[2])

\* Mutant: the upper bound is copied from content.front() as well.
FlushHeaderUpperFromFront(content) == KeyRecord(Head(content)) \o KeyRecord(Head(content))

FlushHeader(content) == KeyRecord(Head(content)) \o KeyRecord(content[Len(content)])

\* Mutant: offset is advanced past the entry before key_offset records it.
EntryOffsetAfter(content, i) ==
    Len(FlushHeader(content)) + 4 + Len(FlattenSeq(SubSeq(content, 1, i)))

\* The offset Flush records for the i-th entry: header, index offset and
\* the entries before it.
EntryOffset(content, i) ==
    Len(FlushHeader(content)) + 4 + Len(FlattenSeq(SubSeq(content, 1, i - 1)))

\* key_offset after the entry loop: key_offset[user_key] = offset, the
\* last entry of a key winning.
KeyOffset(content) ==
    LET keyAt(i) == ExtractUserKey(content[i])
    IN  [k \in {keyAt(i) : i \in DOMAIN content} |->
            EntryOffset(content, Max({i \in DOMAIN content : keyAt(i) = k}))]

\* Flush(stream, content, key_offset, data_size): header, fixed32
\* index_offset = offset + 4 + data_size, the entries, then one index
\* record per key in key_offset's iteration order idx.
Flush(content, dataSize, idx) ==
    LET hdr == FlushHeader(content)
        ko  == KeyOffset(content)
        rec(k) == EncodeVarint32(Len(k)) \o k \o EncodeVarint32(ko[k])
    IN  hdr \o EncodeFixed32(Len(hdr) + 4 + dataSize) \o FlattenSeq(content)
            \o FlattenSeq([i \in 1..Len(idx) |-> rec(idx[i])])

\* FlushBuffer: the skip list's entries in order, data_size their sum.
FlushBuffer(entries, idx) ==
    LET content == [i \in DOMAIN entries |-> SubSeq(entries[i], 1, EntrySize(entries[i]))]
    IN  Flush(content, FoldLeft(LAMBDA s, e : s + Len(e), 0, content), idx)

\* The File constructor: lower_bound_ and upper_bound_ from the header.
FileBounds(buf) ==
    LET l  == GetVarint32(buf, 0, 5)
        u  == GetVarint32(buf, l[1] + l[2], 5)
        up == l[1] + l[2] + u[1]
    IN  <<SubSeq(buf, l[1] + 1, l[1] + l[2]), SubSeq(buf, up + 1, up + u[2])>>

\* One index record at p: its key, its offset, and where the next begins.
IndexRecord(buf, p) ==
    LET kl == GetVarint32(buf, p, 5)
        kp == p + kl[1]
        o  == GetVarint32(buf, kp + kl[2], 5)
    IN  [key |-> SubSeq(buf, kp + 1, kp + kl[2]), offset |-> o[2], next |-> kp + kl[2] + o[1]]

\* LoadKeyOffset's loop from p to the end of the file (each record is
\* decoded once and bound as r).
RECURSIVE LoadIndex(_, _, _)
LoadIndex(buf, p, acc) ==
    IF p < Len(buf)
    THEN CHOOSE m \in {LoadIndex(buf, r.next, (r.key :> r.offset) @@ acc) : r \in {IndexRecord(buf, p)}} : TRUE
    ELSE acc

\* LoadKeyOffset: skip both bounds, read index_offset, load the index.
LoadKeyOffset(buf) ==
    LET l == GetVarint32(buf, 0, 5)
        u == GetVarint32(buf, l[1] + l[2], 5)
    IN  LoadIndex(buf, GetFixed32(buf, l[1] + l[2] + u[1] + u[2]), <<>>)

\* GetValueByOffset: skip the key of the entry at offset, read its value.
GetValueByOffset(buf, offset) ==
    LET kl == GetVarint32(buf, offset, 5)
        vp == offset + kl[1] + kl[2]
        vl == GetVarint32(buf, vp, 5)
    IN  SubSeq(buf, vp + vl[1] + 1, vp + vl[1] + vl[2])

\* Mutant: is_delete_ is decided on the value's size alone.
ExtractEntrySizeOnly(buf, p) ==
    LET kl == GetVarint32(buf, p, 5)
        vp == p + kl[1] + kl[2]
        vl == GetVarint32(buf, vp, 5)
    IN  [key |-> SubSeq(buf, p + kl[1] + 1, vp), is_delete |-> vl[2] = Len(TombValue),
         p |-> p, size |-> vp + vl[1] + vl[2] - p]

\* StorageEngine::ExtractEntry at p: the key, whether the value is the
\* tombstone, and the entry's start and size (p then advances by size).
ExtractEntry(buf, p) ==
    LET kl == GetVarint32(buf, p, 5)
        vp == p + kl[1] + kl[2]
        vl == GetVarint32(buf, vp, 5)
        value == SubSeq(buf, vp + vl[1] + 1, vp + vl[1] + vl[2])
    IN  [key |-> SubSeq(buf, p + kl[1] + 1, vp),
         is_delete |-> vl[2] = Len(TombValue) /\ value = TombValue,
         p |-> p, size |-> vp + vl[1] + vl[2] - p]

\* NWayCompaction's stream of one input file, from p up to index_offset
\* (each entry is extracted once and bound as e).
RECURSIVE EntriesFrom(_, _, _)
EntriesFrom(buf, p, indexOffset) ==
    IF p < indexOffset
    THEN CHOOSE es \in {<<e>> \o EntriesFrom(buf, p + e.size, indexOffset) : e \in {ExtractEntry(buf, p)}} : TRUE
    ELSE <<>>

\* NWayCompaction on one file: the header skipped with ExtractEntry, then
\* the fixed32 index_offset, then the entries.
NWayEntries(buf) ==
    LET h == ExtractEntry(buf, 0)
    IN  EntriesFrom(buf, h.size + 4, GetFixed32(buf, h.size))

----------------------------------------------------------------------------

\* The states: every content a buffer or a merge can flush (keys strictly
\* increasing), with every iteration order of its key_offset.
SortedPairs ==
    UNION {{[i \in 1..Cardinality(S) |-> <<SetToSortSeq(S, LexLess)[i], f[SetToSortSeq(S, LexLess)[i]]>>]
             : f \in [S -> UserValues]} : S \in SUBSET UserKeys \ {{}}}

\* The skip list's entries, as StorageBuffer::Add encoded them.
Entries == [i \in DOMAIN pairs |-> EncodeEntry(pairs[i][1], pairs[i][2])]

Init ==
    /\ pairs \in SortedPairs
    /\ order \in SetToSeqs({pairs[i][1] : i \in DOMAIN pairs})
    /\ file = FlushBuffer(Entries, order)

Next == UNCHANGED vars

Spec == Init /\ [][Next]_vars

KeyOf(i) == pairs[i][1]
ValueOf(i) == pairs[i][2]

----------------------------------------------------------------------------

\* Type invariant: a content is a sequence of key/value pairs, the index
\* order a sequence of its keys, and the file Flush writes a string of
\* bytes (every stored number fits its char).
TypeOK ==
    /\ pairs \in Seq(UserKeys \X UserValues) /\ pairs # <<>>
    /\ order \in Seq(UserKeys)
    /\ file \in Seq(0..255)

\* The lengths the current content's entries encode.  Every coding
\* property holds of these and of all of Samples; the Samples conjunct is
\* a constant that TLC evaluates once.
Lengths == {Len(KeyOf(i)) : i \in DOMAIN pairs} \cup {Len(ValueOf(i)) : i \in DOMAIN pairs}
SamplesEncodeOK == EncodeMatchesLEB128On(Samples)
SamplesLengthOK == VarintLengthMatchesOn(Samples)
SamplesDecodeOK == DecodeInvertsEncodeOn(Samples)
SamplesTruncOK  == TruncatedRejectedOn(Samples)

\* EncodeVarint32's unrolled branches write the LEB128 (and LevelDB)
\* varint of every value, at each of the four 7-bit boundaries included.
EncodeMatchesLEB128 == SamplesEncodeOK /\ EncodeMatchesLEB128On(Lengths)

\* StorageBuffer::Add sizes an entry with VarintLength and then writes it
\* with EncodeVarint32 (assert at storage_buffer.cpp:31): the two always
\* agree on the number of bytes.
VarintLengthMatches == SamplesLengthOK /\ VarintLengthMatchesOn(Lengths)

\* GetVarint32(p, 5, &x) on an encoding followed by more data reads back
\* the value and the bytes it wrote, and GetFixed32 inverts EncodeFixed32.
DecodeInvertsEncode == SamplesDecodeOK /\ DecodeInvertsEncodeOn(Lengths)

\* GetVarint32Ptr never reads past limit: an encoding cut short is
\* rejected (-1) rather than decoded from the bytes after the limit.
TruncatedRejected == SamplesTruncOK /\ TruncatedRejectedOn(Lengths)

\* The File constructor reads back, as lower_bound_ and upper_bound_, the
\* first and the last key Flush wrote; GetContainsFiles and the
\* compaction's overlap tests rely on these bounds.
BoundsParsed == FileBounds(file) = <<KeyOf(1), KeyOf(Len(pairs))>>

\* NWayCompaction's stream of a file (header skipped by ExtractEntry, then
\* the fixed32 index_offset, then ExtractEntry up to index_offset) yields
\* exactly the entries Flush wrote, in order, each byte for byte, and
\* marks an entry deleted exactly when its value is TombValue.
EntryStreamMatches ==
    LET es == NWayEntries(file)
    IN  /\ Len(es) = Len(pairs)
        /\ \A i \in DOMAIN pairs :
               /\ es[i].key = KeyOf(i)
               /\ es[i].is_delete = (ValueOf(i) = TombValue)
               /\ SubSeq(file, es[i].p + 1, es[i].p + es[i].size) = Entries[i]

\* LoadKeyOffset reads back one offset per key, whatever order the
\* unordered_map wrote the index in; each is the start of that key's entry
\* and never 0 (DataBase::Get's not-found value), and GetValueByOffset
\* there returns the key's value.
IndexLocatesValues ==
    LET ko == LoadKeyOffset(file)
        es == NWayEntries(file)
    IN  /\ DOMAIN ko = {KeyOf(i) : i \in DOMAIN pairs}
        /\ \A i \in DOMAIN pairs :
               /\ ko[KeyOf(i)] = es[i].p
               /\ ko[KeyOf(i)] # 0
               /\ GetValueByOffset(file, ko[KeyOf(i)]) = ValueOf(i)

=============================================================================
