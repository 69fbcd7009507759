------------------------------ MODULE KVStore ------------------------------
(***************************************************************************)
(* What the store promises its callers (DataBase::Add with Put or Delete): *)
(* a single map from keys to values in which every write replaces the     *)
(* value of one key and a delete makes the key absent.  A store opened on *)
(* an existing data folder starts from whatever that folder holds, and so *)
(* does a store opened again after its process died (Reopen): the writes  *)
(* still in memory are lost (spec 7), and which map the folder gives back  *)
(* is stated by LSMStore's restart properties.                             *)
(* applied counts the writes and opened the reopens: a step that changes   *)
(* the map is a write or a reopen, and flushes and compactions, which are *)
(* neither, leave the map as it was.                                      *)
(***************************************************************************)
EXTENDS Naturals

CONSTANTS Keys, Vals, Absent

ASSUME Absent \notin Vals

VARIABLES store, applied, opened

Init == store \in [Keys -> Vals \cup {Absent}] /\ applied = 0 /\ opened = 0

Put(k, v) == applied' = applied + 1 /\ store' = [store EXCEPT ![k] = v] /\ opened' = opened

Delete(k) == applied' = applied + 1 /\ store' = [store EXCEPT ![k] = Absent] /\ opened' = opened

Reopen == opened' = opened + 1 /\ store' \in [Keys -> Vals \cup {Absent}] /\ applied' = applied

Next == \/ \E k \in Keys : Delete(k) \/ \E v \in Vals : Put(k, v)
        \/ Reopen

Spec == Init /\ [][Next]_<<store, applied, opened>>
=============================================================================
