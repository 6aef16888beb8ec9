------------------------------ MODULE MCRolling ------------------------------
\* Instances of Rolling for TLC.
EXTENDS Rolling, TLC

CONSTANTS t1, t2

TwoThreads == {t1, t2}
Symmetry == Permutations(TwoThreads)

\* An empty directory, the logs of two earlier periods, and the log of the
\* current period after one of an earlier period.
MCOldLogs == {<<>>, <<-1, 1>>, <<1, 3>>}
==============================================================================
