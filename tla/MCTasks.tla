------------------------------ MODULE MCTasks ------------------------------
\* Instances of Tasks for TLC.
EXTENDS Tasks, TLC

CONSTANTS t1, t2, k1, A, B, i1, i2

BothThreads == {t1, t2}
OneTask == {k1}
TwoDispatches == {A, B}
TwoIds == {i1, i2}

Symmetry == Permutations(Threads) \cup Permutations(Tasks)
              \cup Permutations(Dispatches) \cup Permutations(Ids)
=============================================================================
