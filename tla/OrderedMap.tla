----------------------------- MODULE OrderedMap -----------------------------
(***************************************************************************)
(* What a StorageBuffer's skip list promises its callers: an ordered map   *)
(* from user key to the last value added for it, with an iterator that     *)
(* Seek places on a key only when that key is present, SeekToFirst on the  *)
(* smallest key, and Next on the following key.  Keys are ordered by <,   *)
(* the order of the Comparator on user keys.                               *)
(***************************************************************************)
EXTENDS Integers, FiniteSetsExt

CONSTANTS Keys, Vals, Absent, None

VARIABLES
    map,   \* key -> its value, or Absent
    pos,   \* the iterator's key, or None (not Valid)
    call   \* the last call and its arguments

Present == {k \in Keys : map[k] # Absent}

\* The smallest present key greater than k (None past the last one).
After(k) == IF {j \in Present : j > k} = {} THEN None ELSE Min({j \in Present : j > k})

Init == map = [k \in Keys |-> Absent] /\ pos = None /\ call = <<"none">>

Put(k, v) == map' = [map EXCEPT ![k] = v] /\ call' = <<"insert", k, v>> /\ UNCHANGED pos

Seek(k) == pos' = (IF map[k] # Absent THEN k ELSE None) /\ call' = <<"seek", k>> /\ UNCHANGED map

SeekToFirst ==
    pos' = (IF Present = {} THEN None ELSE Min(Present)) /\ call' = <<"first">> /\ UNCHANGED map

Step == pos # None /\ pos' = After(pos) /\ call' = <<"next">> /\ UNCHANGED map

Next ==
    \/ \E k \in Keys, v \in Vals : Put(k, v) \/ Seek(k)
    \/ SeekToFirst
    \/ Step

Spec == Init /\ [][Next]_<<map, pos, call>>

=============================================================================
