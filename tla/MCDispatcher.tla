---------------------------- MODULE MCDispatcher ----------------------------
\* Instances of Dispatcher for TLC.
EXTENDS Dispatcher, TLC

CONSTANTS t1, t2, d1, d2

MCThreads == {t1, t2}
MCDispatches == {d1, d2}
Symmetry == Permutations(MCThreads) \cup Permutations(MCDispatches)
=============================================================================
