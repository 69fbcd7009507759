----------------------------- MODULE MCThreadPool -----------------------------
EXTENDS ThreadPool

CONSTANTS w1, w2, t1, t2

\* Two workers, so one can run a task while the other waits, and two tasks,
\* so a notify_one can meet a worker that is busy.
MCWorkers == {w1, w2}
MCTasks == {t1, t2}

=============================================================================
