------------------------------- MODULE LineLog -------------------------------
(***************************************************************************)
(* What a non-blocking writer and its guard promise: lines are taken over  *)
(* in one order, they settle (reach the output or fail there) in that      *)
(* order, and a guard whose drop was acknowledged leaves behind no earlier *)
(* line that has not settled.                                              *)
(***************************************************************************)
EXTENDS Integers, Sequences

CONSTANTS Lines,
          Last    \* what the guard sends when it is dropped

VARIABLES log,      \* what was taken over, in order
          settled,  \* how many of the oldest have settled
          guard     \* held, waiting, acknowledged, abandoned

Init == log = <<>> /\ settled = 0 /\ guard = "held"

TakeOver(m) == log' = Append(log, m) /\ UNCHANGED <<settled, guard>>

Settle(n) == n > settled /\ settled' = n /\ UNCHANGED <<log, guard>>

\* The drop of the guard puts a last message into the log and waits for it.
Shut ==
  /\ guard = "held" /\ guard' = "waiting"
  /\ log' = Append(log, Last) /\ UNCHANGED settled

\* Nothing before the message is unsettled.
Acknowledge ==
  /\ guard = "waiting" /\ guard' = "acknowledged"
  /\ \E i \in 1..settled : log[i] = Last
  /\ UNCHANGED <<log, settled>>

Abandon ==
  /\ guard \in {"held", "waiting"} /\ guard' = "abandoned"
  /\ UNCHANGED <<log, settled>>

Next ==
  \/ \E m \in Lines : TakeOver(m)
  \/ \E n \in 1..Len(log) : Settle(n)
  \/ Shut \/ Acknowledge \/ Abandon

Spec == Init /\ [][Next]_<<log, settled, guard>>
==============================================================================
