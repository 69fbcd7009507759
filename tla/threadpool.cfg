\* The pool as the benchmark client drives it, with timedelay_queue: tasks
\* are never lost or run twice, each one completes, and main's drain loop
\* pops only from a non-empty queue while late tasks still push.  The
\* states in which Stop's notify_all was lost and main waits in join for
\* ever have no successor; they are the subject of threadpool_stop_hang,
\* so deadlock is not reported here.
CONSTANTS
    w1 = w1  w2 = w2  t1 = t1  t2 = t2  t3 = t3
    NoTask = NoTask
    Workers <- MCWorkers
    Tasks <- MCTasks
    Rounds <- MCRounds
    RoundTasks <- MCRoundTasks
SPECIFICATION ClientFairSpec
INVARIANT ClientTypeOK
INVARIANT EachTaskOnce
INVARIANT PopOnNonEmpty
PROPERTY EveryTaskCompletes
CHECK_DEADLOCK FALSE
