----------------------------- MODULE ThreadPool -----------------------------
(***************************************************************************)
(* ThreadPool (src/structure/thread_pool.h) as the multithread test and    *)
(* the benchmarks drive it: Start, AddTask for each task, then             *)
(* BlockUntilAllTaskHaveCompleted, then Stop.  A section run under mutex_  *)
(* is one step; the reads of stop_requested_ in ProcessingLoop's outer     *)
(* test and Stop's write of it take no lock and are steps of their own.    *)
(* cv_.wait releases mutex_; a notified or spuriously woken worker retakes *)
(* it and goes on at line 39.  Every caller passes a new task, so the      *)
(* nullptr branch at line 52 is never taken and is left out.               *)
(***************************************************************************)
EXTENDS Sequences, SequencesExt, FiniteSets

CONSTANTS
    Workers,   \* the threads Start creates
    Tasks,     \* the Task objects the caller creates, each added once
    NoTask     \* no entry in tid_to_task_

VARIABLES
    stop,      \* stop_requested_
    queue,     \* queue_
    wpc,       \* each worker's point in ProcessingLoop
    cur,       \* tid_to_task_: the task a worker is running, or NoTask
    mpc,       \* the caller: "adding", "blocking", "stopping", "notifying",
               \* "joining", "stopped"
    added,     \* history: the tasks passed to AddTask
    completed, \* history: the tasks whose Run returned
    dropped    \* history: the tasks Stop deleted

vars == <<stop, queue, wpc, cur, mpc, added, completed, dropped>>

WorkerStates == {"top", "lock", "waiting", "woken", "running", "done", "exited"}

Waiting == {w \in Workers : wpc[w] = "waiting"}

Init ==
    /\ stop = FALSE /\ queue = <<>>
    /\ wpc = [w \in Workers |-> "top"] /\ cur = [w \in Workers |-> NoTask]
    /\ mpc = "adding" /\ added = {} /\ completed = {} /\ dropped = {}

\* Line 33: while (!IsStopRequested()), read without mutex_.
LoopTest(w) ==
    /\ wpc[w] = "top"
    /\ wpc' = [wpc EXCEPT ![w] = IF stop THEN "exited" ELSE "lock"]
    /\ UNCHANGED <<stop, queue, cur, mpc, added, completed, dropped>>

\* Mutant: the task is read with queue_.front() but never popped.
TakeOrWaitNoPop(w) ==
    IF queue = <<>>
    THEN wpc' = [wpc EXCEPT ![w] = "waiting"] /\ UNCHANGED <<queue, cur>>
    ELSE IF stop
         THEN wpc' = [wpc EXCEPT ![w] = "exited"] /\ UNCHANGED <<queue, cur>>
         ELSE /\ wpc' = [wpc EXCEPT ![w] = "running"]
              /\ cur' = [cur EXCEPT ![w] = Head(queue)]
              /\ UNCHANGED queue

\* Under mutex_, lines 36-59: wait while queue_ is empty; otherwise leave
\* if a stop was requested (line 45), else pop the front task and record
\* it in tid_to_task_ (RunInLock does nothing in the pool's tasks).
TakeOrWait(w) ==
    IF queue = <<>>
    THEN wpc' = [wpc EXCEPT ![w] = "waiting"] /\ UNCHANGED <<queue, cur>>
    ELSE IF stop
         THEN wpc' = [wpc EXCEPT ![w] = "exited"] /\ UNCHANGED <<queue, cur>>
         ELSE /\ wpc' = [wpc EXCEPT ![w] = "running"]
              /\ cur' = [cur EXCEPT ![w] = Head(queue)]
              /\ queue' = Tail(queue)

\* Line 35: the lock is taken, then the inner loop's first test.
Acquire(w) ==
    /\ wpc[w] = "lock"
    /\ TakeOrWait(w)
    /\ UNCHANGED <<stop, mpc, added, completed, dropped>>

\* cv_.wait returns with mutex_ held: line 39 leaves on a stop request,
\* otherwise the inner loop tests queue_.empty() again.
Woken(w) ==
    /\ wpc[w] = "woken"
    /\ IF stop THEN wpc' = [wpc EXCEPT ![w] = "exited"] /\ UNCHANGED <<queue, cur>>
       ELSE TakeOrWait(w)
    /\ UNCHANGED <<stop, mpc, added, completed, dropped>>

\* condition_variable::wait may return without a notify.
SpuriousWakeup(w) ==
    /\ wpc[w] = "waiting"
    /\ wpc' = [wpc EXCEPT ![w] = "woken"]
    /\ UNCHANGED <<stop, queue, cur, mpc, added, completed, dropped>>

\* Line 62: task->Run(tid) outside the lock.
RunTask(w) ==
    /\ wpc[w] = "running"
    /\ wpc' = [wpc EXCEPT ![w] = "done"]
    /\ completed' = completed \cup {cur[w]}
    /\ UNCHANGED <<stop, queue, cur, mpc, added, dropped>>

\* Mutant: tid_to_task_.erase(tid) is left out.
FinishNoErase(w) ==
    /\ wpc[w] = "done"
    /\ wpc' = [wpc EXCEPT ![w] = "top"]
    /\ UNCHANGED <<stop, queue, cur, mpc, added, completed, dropped>>

\* Lines 64-67: under mutex_, delete the task and erase tid_to_task_[tid].
Finish(w) ==
    /\ wpc[w] = "done"
    /\ wpc' = [wpc EXCEPT ![w] = "top"]
    /\ cur' = [cur EXCEPT ![w] = NoTask]
    /\ UNCHANGED <<stop, queue, mpc, added, completed, dropped>>

\* cv_.notify_one: one waiting worker, if any, is woken.
NotifyOne ==
    \/ Waiting = {} /\ UNCHANGED wpc
    \/ \E w \in Waiting : wpc' = [wpc EXCEPT ![w] = "woken"]

\* Mutant: AddTask pushes without cv_.notify_one().
AddTaskNoNotify(t) ==
    /\ mpc = "adding" /\ t \in Tasks \ added
    /\ queue' = Append(queue, t)
    /\ added' = added \cup {t}
    /\ UNCHANGED <<stop, wpc, cur, mpc, completed, dropped>>

\* AddTask: under mutex_, push the task and notify one worker.
AddTask(t) ==
    /\ mpc = "adding" /\ t \in Tasks \ added
    /\ queue' = Append(queue, t)
    /\ NotifyOne
    /\ added' = added \cup {t}
    /\ UNCHANGED <<stop, cur, mpc, completed, dropped>>

\* The caller has added its tasks and calls BlockUntilAllTaskHaveCompleted.
CallBlock ==
    /\ mpc = "adding"
    /\ mpc' = "blocking"
    /\ UNCHANGED <<stop, queue, wpc, cur, added, completed, dropped>>

\* BlockUntilAllTaskHaveCompleted: it returns once queue_.empty() (read
\* without mutex_) holds; until then it sleeps and tests again.
BlockReturns ==
    /\ mpc = "blocking" /\ queue = <<>>
    /\ mpc' = "stopping"
    /\ UNCHANGED <<stop, queue, wpc, cur, added, completed, dropped>>

\* Stop, line 88: stop_requested_ = true, without mutex_.
StopRequest ==
    /\ mpc = "stopping"
    /\ stop' = TRUE /\ mpc' = "notifying"
    /\ UNCHANGED <<queue, wpc, cur, added, completed, dropped>>

\* Stop, line 89: cv_.notify_all() wakes the workers waiting now.
StopNotify ==
    /\ mpc = "notifying"
    /\ wpc' = [w \in Workers |-> IF w \in Waiting THEN "woken" ELSE wpc[w]]
    /\ mpc' = "joining"
    /\ UNCHANGED <<stop, queue, cur, added, completed, dropped>>

\* Stop, lines 90-110: every join returns, then under mutex_ the tasks
\* left in tid_to_task_ are stopped and deleted and the queue is emptied.
StopJoin ==
    /\ mpc = "joining"
    /\ \A w \in Workers : wpc[w] = "exited"
    /\ dropped' = ToSet(queue) \cup ({cur[w] : w \in Workers} \ {NoTask})
    /\ queue' = <<>>
    /\ mpc' = "stopped"
    /\ UNCHANGED <<stop, wpc, cur, added, completed>>

WorkerStep(w) ==
    LoopTest(w) \/ Acquire(w) \/ Woken(w) \/ RunTask(w) \/ Finish(w)

Next ==
    \/ \E t \in Tasks : AddTask(t)
    \/ CallBlock \/ BlockReturns \/ StopRequest \/ StopNotify \/ StopJoin
    \/ \E w \in Workers : WorkerStep(w) \/ SpuriousWakeup(w)

Spec == Init /\ [][Next]_vars

\* Worker threads run while they can; the caller's loop adding tasks ends
\* and it then runs BlockUntilAllTaskHaveCompleted and Stop to the end.
\* Which task is added, and spurious wakeups, get no fairness.
FairSpec ==
    /\ Spec
    /\ \A w \in Workers : WF_vars(WorkerStep(w))
    /\ WF_vars(CallBlock) /\ WF_vars(BlockReturns) /\ WF_vars(StopRequest)
    /\ WF_vars(StopNotify) /\ WF_vars(StopJoin)

----------------------------------------------------------------------------

\* Type invariant, with tid_to_task_ holding a worker's entry exactly from
\* the pop to the erase after Run (Stop deletes every task left in it).
TypeOK ==
    /\ stop \in BOOLEAN /\ queue \in Seq(Tasks)
    /\ wpc \in [Workers -> WorkerStates] /\ cur \in [Workers -> Tasks \cup {NoTask}]
    /\ mpc \in {"adding", "blocking", "stopping", "notifying", "joining", "stopped"}
    /\ added \subseteq Tasks /\ completed \subseteq Tasks /\ dropped \subseteq Tasks
    /\ \A w \in Workers : (cur[w] # NoTask) <=> wpc[w] \in {"running", "done"}

\* The number of places task t is in: queue_, a worker running it, the
\* tasks whose Run returned, the tasks Stop deleted.
TaskPlaces(t) ==
    Cardinality({i \in DOMAIN queue : queue[i] = t})
      + Cardinality({w \in Workers : wpc[w] = "running" /\ cur[w] = t})
      + (IF t \in completed THEN 1 ELSE 0) + (IF t \in dropped THEN 1 ELSE 0)

\* Each task passed to AddTask is in exactly one place at a time: however
\* the workers interleave their pops under mutex_, no task is run twice,
\* run by two workers, or lost.
EachTaskOnce == \A t \in Tasks : TaskPlaces(t) = IF t \in added THEN 1 ELSE 0

\* Every added task is eventually run to completion: AddTask's notify_one
\* reaches a waiting worker, and a busy worker re-tests queue_ before it
\* waits, so no task stays queued while workers sleep.
EveryTaskCompletes == \A t \in Tasks : t \in added ~> t \in completed

\* Stop returns: every worker leaves ProcessingLoop and every join returns.
StopCompletes == mpc = "stopping" ~> mpc = "stopped"

=============================================================================
