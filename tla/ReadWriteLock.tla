--------------------------- MODULE ReadWriteLock ---------------------------
(***************************************************************************)
(* ReadWriteLock (src/structure/read_write_lock.h), the lock of            *)
(* StorageEngine.  Each method body runs under mutex_ and is one step; a   *)
(* cond_.wait releases mutex_ and puts the thread in the wait set, and a   *)
(* notified (or spuriously woken) thread re-runs its while test.           *)
(* stat == 0: free; > 0: the number of readers; < 0: write-locked.         *)
(***************************************************************************)
EXTENDS Integers, FiniteSets

CONSTANTS Threads

VARIABLES
    stat,   \* ReadWriteLock::stat
    pc      \* each thread: "idle", "rlock"/"wlock" (testing the while
            \* condition under mutex_), "rwait"/"wwait" (blocked in
            \* cond_.wait), "reading", "writing"

vars == <<stat, pc>>

Waiting == {t \in Threads : pc[t] \in {"rwait", "wwait"}}

\* Mutant: a woken reader leaves ReadLock without re-testing (an if in
\* place of the while).
WokenNoRetest(t) == IF pc[t] = "rwait" THEN "reading" ELSE "wlock"

\* A thread leaves the wait set and will re-test its condition.
Woken(t) == IF pc[t] = "rwait" THEN "rlock" ELSE "wlock"

\* cond_.notify_one: one waiting thread, if any, is woken.
NotifyOne(p) ==
    IF Waiting = {} THEN {p}
    ELSE {[p EXCEPT ![w] = Woken(w)] : w \in Waiting}

\* cond_.notify_all: every waiting thread is woken.
NotifyAll(p) == [t \in Threads |-> IF t \in Waiting THEN Woken(t) ELSE p[t]]

Init == stat = 0 /\ pc = [t \in Threads |-> "idle"]

\* A StorageEngine method calls ReadLock or WriteLock.
CallReadLock(t)  == pc[t] = "idle" /\ pc' = [pc EXCEPT ![t] = "rlock"] /\ UNCHANGED stat
CallWriteLock(t) == pc[t] = "idle" /\ pc' = [pc EXCEPT ![t] = "wlock"] /\ UNCHANGED stat

\* ReadLock: while (stat < 0) cond_.wait(lock); ++stat;
ReadLock(t) ==
    /\ pc[t] = "rlock"
    /\ IF stat < 0 THEN pc' = [pc EXCEPT ![t] = "rwait"] /\ UNCHANGED stat
       ELSE pc' = [pc EXCEPT ![t] = "reading"] /\ stat' = stat + 1

\* Mutant: the last reader does not notify.
ReadUnlockNoNotify(t) ==
    /\ pc[t] = "reading"
    /\ stat' = stat - 1
    /\ pc' = [pc EXCEPT ![t] = "idle"]

\* ReadUnlock: --stat; if (stat == 0) cond_.notify_one();
ReadUnlock(t) ==
    /\ pc[t] = "reading"
    /\ stat' = stat - 1
    /\ LET p == [pc EXCEPT ![t] = "idle"]
       IN  IF stat - 1 = 0 THEN pc' \in NotifyOne(p) ELSE pc' = p

\* WriteLock: while (stat != 0) cond_.wait(lock); --stat;
WriteLock(t) ==
    /\ pc[t] = "wlock"
    /\ IF stat # 0 THEN pc' = [pc EXCEPT ![t] = "wwait"] /\ UNCHANGED stat
       ELSE pc' = [pc EXCEPT ![t] = "writing"] /\ stat' = stat - 1

\* Mutant: WriteUnlock decrements stat again instead of incrementing it.
WriteUnlockDecrement(t) ==
    /\ pc[t] = "writing"
    /\ stat' = stat - 1
    /\ pc' = NotifyAll([pc EXCEPT ![t] = "idle"])

\* WriteUnlock: ++stat; cond_.notify_all();
WriteUnlock(t) ==
    /\ pc[t] = "writing"
    /\ stat' = stat + 1
    /\ pc' = NotifyAll([pc EXCEPT ![t] = "idle"])

\* condition_variable::wait may return without a notify.
SpuriousWakeup(t) ==
    /\ t \in Waiting
    /\ pc' = [pc EXCEPT ![t] = Woken(t)]
    /\ UNCHANGED stat

Next ==
    \E t \in Threads :
        \/ CallReadLock(t) \/ CallWriteLock(t)
        \/ ReadLock(t) \/ ReadUnlock(t) \/ WriteLock(t) \/ WriteUnlock(t)
        \/ SpuriousWakeup(t)

Spec == Init /\ [][Next]_vars

\* A thread that can take mutex_ runs its method body, and the engine's
\* read- and write-locked sections always end in the matching unlock.
\* Callers and spurious wakeups get no fairness.
FairSpec ==
    /\ Spec
    /\ \A t \in Threads : /\ WF_vars(ReadLock(t)) /\ WF_vars(WriteLock(t))
                          /\ WF_vars(ReadUnlock(t)) /\ WF_vars(WriteUnlock(t))

----------------------------------------------------------------------------

\* Type invariant: stat stays within -1 (one writer) and the number of
\* threads (all reading), and every thread is at a point of the methods.
TypeOK ==
    /\ stat \in -1..Cardinality(Threads)
    /\ pc \in [Threads -> {"idle", "rlock", "rwait", "reading", "wlock", "wwait", "writing"}]

\* The lock implements RWLockSpec: readers share it, a writer holds it
\* alone, and stat's single counter never lets a writer in beside a reader
\* or another writer, under every interleaving of waits, notify_one,
\* notify_all and spurious wakeups.
Abstract == INSTANCE RWLockSpec WITH
    held <- [t \in Threads |-> CASE pc[t] = "reading" -> "read"
                                 [] pc[t] = "writing" -> "write"
                                 [] OTHER             -> "none"]
RWLockRefinement == Abstract!Spec

\* No lost wakeup: while some thread is blocked in ReadLock or WriteLock,
\* some thread eventually holds the lock.  ReadUnlock's notify_one reaches
\* a waiting writer, and WriteUnlock's notify_all every waiter.
NoLostWakeup ==
    (\E t \in Threads : pc[t] \in {"rlock", "rwait", "wlock", "wwait"})
        ~> (\E t \in Threads : pc[t] \in {"reading", "writing"})

=============================================================================
