----------------------------- MODULE RWLockSpec -----------------------------
(***************************************************************************)
(* What a reader/writer lock promises: any number of threads may hold it   *)
(* for reading at once, a thread holds it for writing alone, and taking or *)
(* releasing it is one step.  LSMStore relies on exactly this when it      *)
(* models each read-locked lookup and each write-locked update of the      *)
(* StorageEngine as a single action.                                       *)
(***************************************************************************)
CONSTANTS Threads

VARIABLES held   \* held[t]: "none", "read" or "write"

Init == held = [t \in Threads |-> "none"]

NoWriter == \A t \in Threads : held[t] # "write"
NoHolder == \A t \in Threads : held[t] = "none"

AcquireRead(t) ==
    /\ held[t] = "none" /\ NoWriter
    /\ held' = [held EXCEPT ![t] = "read"]

AcquireWrite(t) ==
    /\ held[t] = "none" /\ NoHolder
    /\ held' = [held EXCEPT ![t] = "write"]

Release(t) ==
    /\ held[t] # "none"
    /\ held' = [held EXCEPT ![t] = "none"]

Next == \E t \in Threads : AcquireRead(t) \/ AcquireWrite(t) \/ Release(t)

Spec == Init /\ [][Next]_held

=============================================================================
