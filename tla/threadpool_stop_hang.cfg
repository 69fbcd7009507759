\* Stop's notify_all against a worker between its stop_requested_ test
\* and cv_.wait.  The caller ends after Stop, so a state with no successor
\* is not reported as a deadlock; the hang shows as StopCompletes failing.
CONSTANTS
    w1 = w1  w2 = w2  t1 = t1  t2 = t2
    NoTask = NoTask
    Workers <- MCWorkers
    Tasks <- MCTasks
SPECIFICATION FairSpec
PROPERTY StopCompletes
CHECK_DEADLOCK FALSE
