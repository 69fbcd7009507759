------------------------------ MODULE LRUCache ------------------------------
(***************************************************************************)
(* LRUCache (src/structure/cache.cpp): an unordered_map from segment id to *)
(* a node, and a doubly linked recency list between the sentinels head and *)
(* tail.  Every public method holds mutex_ for its whole body, so each is  *)
(* one step.  A node is named by its key (m[key] is the only node of that  *)
(* key); a table is the set of user keys it has an offset for.            *)
(***************************************************************************)
EXTENDS Integers, Sequences, SequencesExt, FiniteSets, Functions

CONSTANTS Ids, KeyStrs, Tables, Capacity, head, tail, Null

ASSUME Capacity \in Nat \ {0} /\ Tables \subseteq SUBSET KeyStrs
ASSUME {head, tail, Null} \cap Ids = {}

Nodes == Ids \cup {head, tail}

VARIABLES
    m,       \* the ids in m
    val,     \* node->value of each node in m
    nx, pv,  \* node->next and node->prev of every node (Null: nullptr)
    count,   \* LRUCache::count
    call     \* history: the last call and its arguments

vars == <<m, val, nx, pv, count, call>>

\* The list as a record [nx, pv]: the helpers run their statements in
\* order, each reading the pointers the previous one left.

\* DetachNode: node->prev->next = node->next; node->next->prev = node->prev;
DetachNode(l, n) ==
    LET nx1 == [l.nx EXCEPT ![l.pv[n]] = l.nx[n]]
    IN  [nx |-> nx1, pv |-> [l.pv EXCEPT ![nx1[n]] = l.pv[n]]]

\* InsertToFront: node->next = head->next; node->prev = head;
\* head->next = node; node->next->prev = node;
InsertToFront(l, n) ==
    LET nx1 == [l.nx EXCEPT ![n] = l.nx[head]]
        pv1 == [l.pv EXCEPT ![n] = head]
        nx2 == [nx1 EXCEPT ![head] = n]
    IN  [nx |-> nx2, pv |-> [pv1 EXCEPT ![nx2[n]] = n]]

List == [nx |-> nx, pv |-> pv]

Init ==
    /\ m = {} /\ val = [id \in {} |-> {}] /\ count = 0
    /\ nx = [n \in Nodes |-> IF n = head THEN tail ELSE Null]
    /\ pv = [n \in Nodes |-> IF n = tail THEN head ELSE Null]
    /\ call = <<"none">>

\* Get: on a node of the id whose table has the key, the offset is
\* returned and the node moved to the front; otherwise nothing changes.
Get(id, ks) ==
    /\ IF id \in m /\ ks \in val[id]
       THEN LET l == InsertToFront(DetachNode(List, id), id)
            IN  nx' = l.nx /\ pv' = l.pv
       ELSE UNCHANGED <<nx, pv>>
    /\ call' = <<"get", id, ks>>
    /\ UNCHANGED <<m, val, count>>

\* Mutant: the full check is off by one and never fires.
IsFullLate == count > Capacity

\* if (count == capacity)
IsFull == count = Capacity

\* Mutant: the evicted node is erased from m but left in the list.
RemoveLRUNodeNoDetach(l, mm) == <<l, mm \ {l.pv[tail]}>>

\* RemoveLRUNode: detach tail->prev, erase it from m (and --count).
RemoveLRUNode(l, mm) == LET lru == l.pv[tail] IN <<DetachNode(l, lru), mm \ {lru}>>

\* Set of a new id: evict the LRU node when the cache is full, then insert
\* the new node at the front and count it.
SetNew(id, t) ==
    LET ev == IF IsFull THEN RemoveLRUNode(List, m) ELSE <<List, m>>
        l  == InsertToFront(ev[1], id)
    IN  /\ m' = ev[2] \cup {id}
        /\ val' = (id :> t) @@ Restrict(val, ev[2])
        /\ nx' = l.nx /\ pv' = l.pv
        /\ count' = (IF IsFull THEN count - 1 ELSE count) + 1

\* Mutant: a cached id gets its new table but is not moved to the front.
SetExistingNoMove(id, t) ==
    /\ val' = [val EXCEPT ![id] = t]
    /\ UNCHANGED <<m, count, nx, pv>>

\* Set of a cached id: detach, replace the table, insert at the front.
SetExisting(id, t) ==
    LET l == InsertToFront(DetachNode(List, id), id)
    IN  /\ val' = [val EXCEPT ![id] = t]
        /\ nx' = l.nx /\ pv' = l.pv
        /\ UNCHANGED <<m, count>>

Set(id, t) ==
    /\ IF id \notin m THEN SetNew(id, t) ELSE SetExisting(id, t)
    /\ call' = <<"set", id, t>>

\* Clear: delete every node, empty m, count = 0, head <-> tail.
Clear ==
    /\ m' = {} /\ val' = [id \in {} |-> {}] /\ count' = 0
    /\ nx' = [nx EXCEPT ![head] = tail] /\ pv' = [pv EXCEPT ![tail] = head]
    /\ call' = <<"clear">>

Next ==
    \/ \E id \in Ids, t \in Tables : Set(id, t)
    \/ \E id \in Ids, ks \in KeyStrs : Get(id, ks)
    \/ Clear

Spec == Init /\ [][Next]_vars

----------------------------------------------------------------------------

\* The nodes met following next from head, stopping at tail (or after
\* |Nodes| steps on a broken list).
RECURSIVE Walk(_, _)
Walk(n, fuel) ==
    IF n = tail \/ n = Null \/ fuel = 0 THEN <<>> ELSE <<n>> \o Walk(nx[n], fuel - 1)

Recency == Walk(nx[head], Cardinality(Nodes))

\* Type invariant.
TypeOK ==
    /\ m \subseteq Ids /\ DOMAIN val = m /\ \A id \in m : val[id] \in Tables
    /\ nx \in [Nodes -> Nodes \cup {Null}] /\ pv \in [Nodes -> Nodes \cup {Null}]
    /\ count \in 0..Capacity

\* The list stays well formed through every sequence of Get, Set, evictions
\* and Clear: from head, next reaches tail through exactly the nodes of m,
\* each once, prev links each of them (and tail) back to its predecessor,
\* and count is the size of m.
ListWellFormed ==
    LET s == <<head>> \o Recency \o <<tail>>
    IN  /\ ToSet(Recency) = m /\ Len(Recency) = Cardinality(m)
        /\ Recency = <<>> \/ nx[Recency[Len(Recency)]] = tail
        /\ \A i \in 2..Len(s) : pv[s[i]] = s[i - 1]
        /\ count = Cardinality(m)

\* The recency list is an LRU cache: walking it from head gives the order
\* of LRUSpec, so an eviction always removes the id used least recently,
\* where Get counts as a use only when the table has the key.
LRU == INSTANCE LRUSpec WITH order <- Recency, table <- val
LRURefinement == LRU!Spec

=============================================================================
