------------------------------ MODULE SkipList ------------------------------
(***************************************************************************)
(* SkipList (src/structure/skip_list.h) as StorageBuffer uses it: Insert   *)
(* from Add, Iterator::Seek from Get, SeekToFirst / Valid / Next from      *)
(* FlushBuffer.  All of them run under StorageBuffer's mutex_ or on a      *)
(* flush buffer no one inserts into, so each call is one step.  Node 0 is  *)
(* head_; node i is the i-th node NewNode allocated; a node's key is the   *)
(* user key of the entry it points to (the Comparator compares only user  *)
(* keys) and its value that entry's value.  Node heights come from Random  *)
(* (src/structure/random.h) seeded with 0xdeadbeef, computed exactly.      *)
(* Contains, Prev, SeekToLast, FindLessThan and FindLast have no caller.   *)
(* The list's Memory arena (MemoryArena) is composed in: the constructor  *)
(* allocates head_, Add allocates the encoded entry before Insert, and     *)
(* Insert allocates each new node; regions records what was handed out.   *)
(***************************************************************************)
EXTENDS Integers, Sequences, SequencesExt, FiniteSets, Coding, MemoryArena

CONSTANTS
    Keys,        \* user keys (integers, ordered as the Comparator orders them)
    Vals,        \* values
    Nil,         \* nullptr
    MaxInserts,  \* bound on the number of Insert calls
    KeySize,     \* KeySize[k]: the byte length of user key k
    ValueSize    \* ValueSize[v]: the byte length of value v

ASSUME Keys \subseteq Int /\ MaxInserts \in Nat
ASSUME KeySize \in [Keys -> 1..2^14] /\ ValueSize \in [Vals -> 0..2^14]

kMaxHeight == 12
kBranching == 4
HeadNode == 0
Levels == 0..kMaxHeight - 1
NodeIds == 0..Cardinality(Keys)   \* Insert allocates a node per distinct key

\* Random (random.h): the Lehmer generator seed' = seed * 16807 mod M,
\* computed as (product >> 31) + (product & M) on a uint64_t product.
M == 2^30 + (2^30 - 1)
A == 16807

\* The constructor: seed_ = s & 0x7fffffff (0xdeadbeef gives 0x5eadbeef),
\* with 0 and M replaced by 1.
RandomInit(s) == IF s = 0 \/ s = M THEN 1 ELSE s
kSeed == RandomInit(1588444911)

\* Mutant: the product is taken in 32 bits (A declared uint32_t), so
\* product >> 31 keeps only bit 31.
ProductSplit32(s) ==
    LET ph == (s \div 2^16) * A
        pl == (s % 2^16) * A
        a  == (ph % 2^15) * 2^16
        carry == a > M - pl
    IN  [hi |-> ((ph \div 2^15) + (IF carry THEN 1 ELSE 0)) % 2,
         lo |-> IF carry THEN a - (M - pl) - 1 ELSE a + pl]

\* product >> 31 and product & M of the 46-bit product seed_ * A, from its
\* 16-bit halves so that every intermediate value stays below 2^31.
ProductSplit(s) ==
    LET ph == (s \div 2^16) * A
        pl == (s % 2^16) * A
        a  == (ph % 2^15) * 2^16
        carry == a > M - pl
    IN  [hi |-> (ph \div 2^15) + (IF carry THEN 1 ELSE 0),
         lo |-> IF carry THEN a - (M - pl) - 1 ELSE a + pl]

\* Random::Next: seed_ = hi + lo; if (seed_ > M) seed_ -= M.
RandomNext(s) ==
    LET p == ProductSplit(s)
    IN  IF p.lo > M - p.hi THEN p.lo - (M - p.hi) ELSE p.lo + p.hi

\* RandomHeight: while (height < kMaxHeight && rand_.Next() % kBranching
\* == 0) height++; the result and the seed it leaves.
RECURSIVE HeightFrom(_, _)
HeightFrom(h, s) ==
    IF h < kMaxHeight /\ RandomNext(s) % kBranching = 0
    THEN HeightFrom(h + 1, RandomNext(s))
    ELSE [height |-> h, seed |-> IF h < kMaxHeight THEN RandomNext(s) ELSE s]

RandomHeight(s) == HeightFrom(1, s)

\* StorageBuffer::Add's encoded_len: VarintLength(key_size) + key_size +
\* VarintLength(value_size) + value_size.
EncodedLen(k, v) ==
    VarintLength(KeySize[k]) + KeySize[k] + VarintLength(ValueSize[v]) + ValueSize[v]

\* NewNode: AllocateAligned(sizeof(Node) + sizeof(void*) * (height - 1)),
\* a Node being its key pointer and next_[1].
NodeSize(height) == 16 + 8 * (height - 1)
NewNode(m, height) == AllocateAligned(m, NodeSize(height))

VARIABLES
    nkey,      \* nkey[i]: the user key of node i's entry
    nval,      \* nval[i]: the value of node i's entry
    next,      \* next[n][l]: node n's next_[l]
    maxHeight, \* max_height_
    seed,      \* rand_.seed_
    itNode,    \* the iterator's node_
    inserts,   \* the number of Insert calls so far
    mem,       \* income_memory_, the list's arena
    regions,   \* history: every region the arena handed out, in order
    call       \* history: the last call and its arguments

vars == <<nkey, nval, next, maxHeight, seed, itNode, inserts, mem, regions, call>>

\* A region [addr, addr + len) handed out for an entry or for a node.
Region(a, len, isNode) == [addr |-> a, len |-> len, node |-> isNode]

\* The constructor: head_ = NewNode("00000", kMaxHeight) from a new arena,
\* kMaxHeight nil links, max_height_ = 1.
Init ==
    /\ nkey = <<>> /\ nval = <<>>
    /\ next = [n \in NodeIds |-> [l \in Levels |-> Nil]]
    /\ maxHeight = 1 /\ seed = kSeed /\ itNode = Nil /\ inserts = 0
    /\ LET h == NewNode(NewMemory, kMaxHeight)
       IN  mem = h.mem /\ regions = <<Region(h.result, NodeSize(kMaxHeight), TRUE)>>
    /\ call = <<"none">>

\* KeyIsAfterNode: n != nullptr && compare_(n->key, key) < 0.
KeyIsAfterNode(key, n) == n # Nil /\ nkey[n] < key

\* FindGreaterOrEqual's loop from node x at level, prev[] filled so far.
RECURSIVE FindFrom(_, _, _, _)
FindFrom(key, x, level, prev) ==
    LET nx == next[x][level]
    IN  IF KeyIsAfterNode(key, nx) THEN FindFrom(key, nx, level, prev)
        ELSE IF level = 0 THEN [node |-> nx, prev |-> [prev EXCEPT ![0] = x]]
        ELSE FindFrom(key, x, level - 1, [prev EXCEPT ![level] = x])

\* FindGreaterOrEqual(key, prev): the first node at or after key, and
\* prev[l] for every l < max_height_ (the rest uninitialised: Nil).
FindGreaterOrEqual(key) == FindFrom(key, HeadNode, maxHeight - 1, [l \in Levels |-> Nil])

\* Equal: compare_(a, b) == 0.
Equal(a, b) == a = b

\* Mutant: x->next_[i] is set after prev[i]->next_[i] = x.
SpliceSwapped(x, h, prev) ==
    [n \in NodeIds |-> [l \in Levels |->
        IF l < h /\ n \in {x, prev[l]} THEN x ELSE next[n][l]]]

\* The splice loop: x->SetNext(i, prev[i]->Next(i)); prev[i]->SetNext(i, x).
Splice(x, h, prev) ==
    [n \in NodeIds |-> [l \in Levels |->
        CASE l < h /\ n = x       -> next[prev[l]][l]
          [] l < h /\ n = prev[l] -> x
          [] OTHER                -> next[n][l]]]

\* Mutant: an equal key returns without replacing the node's entry.
InsertNoOverwrite(k, v, buf) ==
    LET f == FindGreaterOrEqual(k)
        entry == Region(buf.result, EncodedLen(k, v), FALSE)
    IN  IF f.node # Nil /\ Equal(nkey[f.node], k)
        THEN /\ mem' = buf.mem /\ regions' = Append(regions, entry)
             /\ UNCHANGED <<nkey, nval, next, maxHeight, seed>>
        ELSE LET r == RandomHeight(seed)
                 x == Len(nkey) + 1
                 prev == [l \in Levels |-> IF l >= maxHeight /\ l < r.height THEN HeadNode ELSE f.prev[l]]
                 node == NewNode(buf.mem, r.height)
             IN  /\ nkey' = Append(nkey, k) /\ nval' = Append(nval, v)
                 /\ next' = Splice(x, r.height, prev)
                 /\ maxHeight' = IF r.height > maxHeight THEN r.height ELSE maxHeight
                 /\ seed' = r.seed
                 /\ mem' = node.mem
                 /\ regions' = regions \o <<entry, Region(node.result, NodeSize(r.height), TRUE)>>

\* Insert of the entry Add allocated as buf: on an equal key the node takes
\* the new entry (x->key = key); otherwise a node of RandomHeight() is
\* allocated by NewNode and spliced in after prev[] at each of its levels,
\* the levels above max_height_ after head_.
InsertBody(k, v, buf) ==
    LET f == FindGreaterOrEqual(k)
        entry == Region(buf.result, EncodedLen(k, v), FALSE)
    IN  IF f.node # Nil /\ Equal(nkey[f.node], k)
        THEN /\ nval' = [nval EXCEPT ![f.node] = v]
             /\ mem' = buf.mem /\ regions' = Append(regions, entry)
             /\ UNCHANGED <<nkey, next, maxHeight, seed>>
        ELSE LET r == RandomHeight(seed)
                 x == Len(nkey) + 1
                 prev == [l \in Levels |-> IF l >= maxHeight /\ l < r.height THEN HeadNode ELSE f.prev[l]]
                 node == NewNode(buf.mem, r.height)
             IN  /\ nkey' = Append(nkey, k) /\ nval' = Append(nval, v)
                 /\ next' = Splice(x, r.height, prev)
                 /\ maxHeight' = IF r.height > maxHeight THEN r.height ELSE maxHeight
                 /\ seed' = r.seed
                 /\ mem' = node.mem
                 /\ regions' = regions \o <<entry, Region(node.result, NodeSize(r.height), TRUE)>>

\* StorageBuffer::Add: buf = income_memory_->Allocate(encoded_len), the
\* entry encoded into it, income_buffer_->Insert(buf).
Insert(k, v) ==
    /\ inserts < MaxInserts
    /\ InsertBody(k, v, Allocate(mem, EncodedLen(k, v)))
    /\ inserts' = inserts + 1
    /\ call' = <<"insert", k, v>>
    /\ UNCHANGED itNode

\* Iterator::Seek (StorageBuffer::Get): node_ = FindGreaterOrEqual(target),
\* reset to nullptr unless its key equals the target.
Seek(k) ==
    /\ LET n == FindGreaterOrEqual(k).node
       IN  itNode' = IF n # Nil /\ ~Equal(nkey[n], k) THEN Nil ELSE n
    /\ call' = <<"seek", k>>
    /\ UNCHANGED <<nkey, nval, next, maxHeight, seed, inserts, mem, regions>>

\* Mutant: SeekToFirst leaves node_ at head_.
SeekToFirstAtHead ==
    /\ itNode' = HeadNode
    /\ call' = <<"first">>
    /\ UNCHANGED <<nkey, nval, next, maxHeight, seed, inserts, mem, regions>>

\* Iterator::SeekToFirst (FlushBuffer): node_ = head_->Next(0).
SeekToFirst ==
    /\ itNode' = next[HeadNode][0]
    /\ call' = <<"first">>
    /\ UNCHANGED <<nkey, nval, next, maxHeight, seed, inserts, mem, regions>>

\* Iterator::Next while Valid(): node_ = node_->Next(0).
IterNext ==
    /\ itNode # Nil
    /\ itNode' = next[itNode][0]
    /\ call' = <<"next">>
    /\ UNCHANGED <<nkey, nval, next, maxHeight, seed, inserts, mem, regions>>

Next ==
    \/ \E k \in Keys, v \in Vals : Insert(k, v)
    \/ \E k \in Keys : Seek(k)
    \/ SeekToFirst
    \/ IterNext

Spec == Init /\ [][Next]_vars

----------------------------------------------------------------------------

\* The nodes met following next_[l] from head_ (at most |NodeIds| of them).
RECURSIVE Walk(_, _, _)
Walk(n, l, fuel) ==
    IF n = Nil \/ fuel = 0 THEN <<>> ELSE <<n>> \o Walk(next[n][l], l, fuel - 1)

LevelList(l) == Walk(next[HeadNode][l], l, Cardinality(NodeIds))

\* Type invariant; the iterator is nullptr or on a node, never on head_.
TypeOK ==
    /\ nkey \in Seq(Keys) /\ nval \in Seq(Vals) /\ Len(nval) = Len(nkey)
    /\ next \in [NodeIds -> [Levels -> NodeIds \cup {Nil}]]
    /\ maxHeight \in 1..kMaxHeight /\ seed \in 1..M - 1
    /\ itNode \in (DOMAIN nkey) \cup {Nil}
    /\ inserts \in 0..MaxInserts
    /\ mem \in [ptr : Nat, remaining : 0..kBlockSize, memory : Nat,
                blocks : Seq([base : Nat, size : Nat])]
    /\ regions \in Seq([addr : Nat, len : Nat, node : BOOLEAN])

\* After any sequence of inserts, with the heights the seeded generator
\* really produces: every level is a nil-terminated list in strictly
\* increasing key order, each level is a sub-list of the one below, level
\* 0 holds every node, the levels from max_height_ up are empty and level
\* max_height_ - 1 is not (so searches start at the highest used level).
LevelsSorted ==
    /\ \A l \in Levels :
           LET s == LevelList(l)
           IN  /\ s = <<>> \/ next[s[Len(s)]][l] = Nil
               /\ \A i \in 1..Len(s) - 1 : nkey[s[i]] < nkey[s[i + 1]]
               /\ l > 0 => ToSet(s) \subseteq ToSet(LevelList(l - 1))
    /\ ToSet(LevelList(0)) = DOMAIN nkey
    /\ \A l \in Levels : l >= maxHeight => next[HeadNode][l] = Nil
    /\ maxHeight = 1 \/ next[HeadNode][maxHeight - 1] # Nil

\* Random::Next computes the Lehmer generator seed * 16807 mod (2^31 - 1),
\* checked against Schrage's evaluation of it, on every seed the list
\* reaches and on seeds at both ends of the range.
LehmerNext(s) ==
    LET t == A * (s % 127773) - 2836 * (s \div 127773)
    IN  IF t > 0 THEN t ELSE t + M
SeedSamples == (1..200) \cup (M - 200..M - 1) \cup {2^k : k \in 1..30}
SamplesMatchLehmer == \A s \in SeedSamples : RandomNext(s) = LehmerNext(s)
RandomIsLehmer == SamplesMatchLehmer /\ RandomNext(seed) = LehmerNext(seed)

\* The arena hands no byte out twice and none outside its blocks: through
\* every sequence of Add calls, with the entry sizes and the node heights
\* the list really produces, head_, each entry buffer and each node lies
\* inside one block of blocks_ and overlaps no other, across the bump,
\* the quarter-block dedicated blocks and the fresh-block fallback of
\* Allocate and AllocateAligned.  blocks_memory_ counts every block.
AllocationsDisjoint ==
    /\ \A i \in DOMAIN regions :
           \E b \in ToSet(mem.blocks) :
               b.base <= regions[i].addr /\ regions[i].addr + regions[i].len <= b.base + b.size
    /\ \A i, j \in DOMAIN regions :
           i < j => \/ regions[i].addr + regions[i].len <= regions[j].addr
                   \/ regions[j].addr + regions[j].len <= regions[i].addr
    /\ mem.memory = FoldSeq(LAMBDA b, acc : b.size + acc, 0, mem.blocks)

\* Every node NewNode places, head_ included, starts on a multiple of
\* sizeof(void*), as AllocateAligned asserts (memory.cpp), although Add's
\* unaligned entry buffers of odd lengths are bumped from the same block.
NodesAligned == \A i \in DOMAIN regions : regions[i].node => regions[i].addr % Align = 0

\* The skip list implements OrderedMap: through inserts of new and of
\* existing keys, Seek finds exactly the present keys with their last
\* value, and SeekToFirst / Next visit the keys in order.
AbsMap == [k \in Keys |-> LET s == SelectSeq(LevelList(0), LAMBDA n : nkey[n] = k)
                          IN  IF s = <<>> THEN Nil ELSE nval[s[1]]]
AbsPos == IF itNode \in DOMAIN nkey THEN nkey[itNode] ELSE Nil
Abstract == INSTANCE OrderedMap WITH map <- AbsMap, pos <- AbsPos, Absent <- Nil, None <- Nil
OrderedMapRefinement == Abstract!Spec

=============================================================================
