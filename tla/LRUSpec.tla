------------------------------ MODULE LRUSpec ------------------------------
(***************************************************************************)
(* The index cache as a recency order: a fixed-capacity map from segment   *)
(* id to that segment's key -> offset table, most recently used first.     *)
(* A lookup moves a segment to the front only when its table has the key  *)
(* (spec.md 4.6 promotes on every lookup of a cached segment; the code     *)
(* does not, and this is the code's rule).                                 *)
(***************************************************************************)
EXTENDS Sequences, SequencesExt, Functions

CONSTANTS Ids, KeyStrs, Tables, Capacity

VARIABLES
    order,   \* the cached ids, most recently used first
    table,   \* id -> its key table
    call     \* the last call and its arguments

Init == order = <<>> /\ table = [id \in {} |-> {}] /\ call = <<"none">>

ToFront(id) == <<id>> \o Remove(order, id)

Get(id, ks) ==
    /\ IF id \in ToSet(order) /\ ks \in table[id]
       THEN order' = ToFront(id)
       ELSE UNCHANGED order
    /\ call' = <<"get", id, ks>>
    /\ UNCHANGED table

\* set: a new id evicts the least recently used one when the cache is full.
Set(id, t) ==
    /\ call' = <<"set", id, t>>
    /\ IF id \in ToSet(order)
       THEN order' = ToFront(id) /\ table' = [table EXCEPT ![id] = t]
       ELSE LET kept == IF Len(order) = Capacity THEN Front(order) ELSE order
            IN  /\ order' = <<id>> \o kept
                /\ table' = (id :> t) @@ Restrict(table, ToSet(kept))

Clear == order' = <<>> /\ table' = [id \in {} |-> {}] /\ call' = <<"clear">>

Next ==
    \/ \E id \in Ids, t \in Tables : Set(id, t)
    \/ \E id \in Ids, ks \in KeyStrs : Get(id, ks)
    \/ Clear

Spec == Init /\ [][Next]_<<order, table, call>>

=============================================================================
