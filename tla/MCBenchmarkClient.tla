-------------------------- MODULE MCBenchmarkClient --------------------------
EXTENDS BenchmarkClient

CONSTANTS w1, w2, t1, t2, t3

\* Two workers and two rounds: two tasks in the first round, so one can
\* still run after Block returns while the other's delay is drained, and
\* one in the second, whose drain can meet the first round's late delay.
MCWorkers == {w1, w2}
MCTasks == {t1, t2, t3}
MCRounds == 2
MCRoundTasks == [r \in 1..2 |-> IF r = 1 THEN {t1, t2} ELSE {t3}]

=============================================================================
