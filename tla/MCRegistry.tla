----------------------------- MODULE MCRegistry -----------------------------
\* Instances of Registry for TLC.
EXTENDS Registry

CONSTANTS t1, t2, s1, s2, s3

BothThreads == {t1, t2}
ThreeSpans == {s1, s2, s3}
=============================================================================
