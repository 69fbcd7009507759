--------------------------- MODULE BenchmarkClient ---------------------------
(***************************************************************************)
(* The benchmark client (src/benchmark/client_main.cpp) as a composition   *)
(* of ThreadPool and ConcurrentQueue.  Each round main adds the round's    *)
(* ClientTasks, calls BlockUntilAllTaskHaveCompleted, then drains          *)
(* timedelay_queue with while (!empty()) pop(); after the last round it    *)
(* calls Stop.  A ClientTask's Run ends by pushing its delay, which stands *)
(* here for the task itself.  The assert at line 216 is compiled out       *)
(* (NDEBUG) and changes no state.  ThreadPool's mpc is main's position in  *)
(* the pool calls: "stopping" there means Block has returned.              *)
(***************************************************************************)
EXTENDS ThreadPool, Integers

CONSTANTS
    Rounds,       \* the number of test rounds main runs
    RoundTasks    \* RoundTasks[r]: the ClientTasks added in round r

ASSUME Rounds \in Nat \ {0} /\ RoundTasks \in [1..Rounds -> SUBSET Tasks]

VARIABLES
    cq,      \* timedelay_queue.queue_
    csize,   \* timedelay_queue.size_
    cpc,     \* main: "tasks", "draining", "popping", "done"
    round    \* the round main is in

clientVars == <<cq, csize, cpc, round>>
allVars == <<vars, clientVars>>

TQ == INSTANCE ConcurrentQueue WITH items <- cq, size <- csize

ClientInit ==
    /\ Init
    /\ cq = <<>> /\ csize = 0 /\ cpc = "tasks" /\ round = 1

\* Line 208: thread_pool.AddTask for each of the round's tasks.
ClientAddTask(t) ==
    /\ cpc = "tasks" /\ t \in RoundTasks[round]
    /\ AddTask(t)
    /\ UNCHANGED clientVars

\* Line 211: all the round's tasks are added; Block is called.
ClientCallBlock ==
    /\ cpc = "tasks" /\ RoundTasks[round] \subseteq added
    /\ CallBlock
    /\ UNCHANGED clientVars

\* BlockUntilAllTaskHaveCompleted returns; main goes to the drain loop.
ClientBlockReturns ==
    /\ BlockReturns
    /\ cpc' = "draining"
    /\ UNCHANGED <<cq, csize, round>>

\* ClientTask::Run (line 62 of the pool): the request, then line 111
\* timedelay_queue_->push(...), under the queue's own mutex.
ClientRunTask(w) ==
    /\ RunTask(w)
    /\ TQ!Push(cur[w])
    /\ UNCHANGED <<cpc, round>>

\* Line 219: !timedelay_queue.empty() holds, so main pops next.
DrainTest ==
    /\ cpc = "draining" /\ ~TQ!Empty
    /\ cpc' = "popping"
    /\ UNCHANGED <<vars, cq, csize, round>>

\* Lines 221-222: delay = timedelay_queue.pop(); delay_sum += delay.
PopDelay ==
    /\ cpc = "popping" /\ cq # <<>>
    /\ TQ!Pop
    /\ cpc' = "draining"
    /\ UNCHANGED <<vars, round>>

\* empty() holds and a round is left: the loops at lines 185-187 go on.
NextRound ==
    /\ cpc = "draining" /\ TQ!Empty /\ round < Rounds
    /\ round' = round + 1 /\ cpc' = "tasks" /\ mpc' = "adding"
    /\ UNCHANGED <<stop, queue, wpc, cur, added, completed, dropped, cq, csize>>

\* empty() holds after the last round: main goes on to fclose and Stop.
LastRoundEnds ==
    /\ cpc = "draining" /\ TQ!Empty /\ round = Rounds
    /\ cpc' = "done"
    /\ UNCHANGED <<vars, cq, csize, round>>

\* Line 238: thread_pool.Stop().
ClientStopRequest ==
    /\ cpc = "done"
    /\ StopRequest
    /\ UNCHANGED clientVars

ClientWorkerStep(w) ==
    \/ (LoopTest(w) \/ Acquire(w) \/ Woken(w) \/ Finish(w)) /\ UNCHANGED clientVars
    \/ ClientRunTask(w)

ClientNext ==
    \/ \E t \in Tasks : ClientAddTask(t)
    \/ ClientCallBlock \/ ClientBlockReturns
    \/ DrainTest \/ PopDelay \/ NextRound \/ LastRoundEnds
    \/ ClientStopRequest
    \/ (StopNotify \/ StopJoin) /\ UNCHANGED clientVars
    \/ \E w \in Workers : ClientWorkerStep(w) \/ (SpuriousWakeup(w) /\ UNCHANGED clientVars)

ClientSpec == ClientInit /\ [][ClientNext]_allVars

\* The pool's threads and main run while they can; spurious wakeups and
\* the choice of task get no fairness.
ClientFairSpec ==
    /\ ClientSpec
    /\ \A w \in Workers : WF_allVars(ClientWorkerStep(w))
    /\ WF_allVars(ClientCallBlock) /\ WF_allVars(ClientBlockReturns)
    /\ WF_allVars(DrainTest) /\ WF_allVars(PopDelay) /\ WF_allVars(NextRound)
    /\ WF_allVars(LastRoundEnds) /\ WF_allVars(ClientStopRequest)
    /\ WF_allVars(StopNotify /\ UNCHANGED clientVars)
    /\ WF_allVars(StopJoin /\ UNCHANGED clientVars)

----------------------------------------------------------------------------

\* Type invariant of main and timedelay_queue.
ClientTypeOK ==
    /\ TypeOK
    /\ cq \in Seq(Tasks) /\ csize \in Nat
    /\ cpc \in {"tasks", "draining", "popping", "done"} /\ round \in 1..Rounds

\* BlockUntilAllTaskHaveCompleted returns while popped tasks still run
\* (thread_pool.h:115), so workers push delays while main drains.  Main
\* pops only when timedelay_queue holds a delay: the unlocked empty() it
\* tested cannot have seen a push that front() then misses, nor a count
\* a pop has already taken.
PopOnNonEmpty == cpc = "popping" => cq # <<>>

=============================================================================
