---------------------------- MODULE MCNonBlocking ----------------------------
(* Instances of NonBlocking for TLC: two producers.                        *)
EXTENDS NonBlocking

CONSTANTS p1, p2

TwoProducers == {p1, p2}
==============================================================================
