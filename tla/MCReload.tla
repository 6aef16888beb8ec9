------------------------------- MODULE MCReload -------------------------------
(* An instance of Reload for TLC.                                          *)
EXTENDS Reload, TLC

CONSTANTS t1, t2

Site == [name |-> "site", level |-> 2]

\* Two targets that take turns in one slot, and a record that is not cached.
Ham == [target |-> "ham", slot |-> 1, level |-> 2]
Ram == [target |-> "ram", slot |-> 1, level |-> 2]
Quiet == [target |-> "hyper", slot |-> 2, level |-> 2]

MCSites == {Site}
MCRecords == {Ham, Ram, Quiet}

MCFilters ==
  {[hint |-> 1, on |-> {}, sure |-> TRUE],
   [hint |-> 2, on |-> {Site, Ham}, sure |-> TRUE]}



Symmetry == Permutations(Threads)

\* Bound: a behaviour has a poisoned layer, a dropped subscriber or rebuilds that
\* overlap, not two of them.
OneFault == Cardinality({i \in 1 .. 3 : <<poisoned, ~alive, overlapped>>[i]}) <= 1

MCCacheConfigs == {[size |-> 1, min |-> 2], [size |-> 2, min |-> 3]}
=============================================================================
