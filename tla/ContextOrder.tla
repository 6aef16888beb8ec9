---------------------------- MODULE ContextOrder ----------------------------
(***************************************************************************)
(* What a thread's span context promises: a span that was entered more     *)
(* often than exited is in the context once, at the place of the entry     *)
(* that brought it in, and the last of them is the current span.           *)
(***************************************************************************)
EXTENDS Naturals, Sequences

CONSTANTS Ids, NoSpan

VARIABLES order,  \* the spans in the context, the current one last
          depth   \* how many entries of a span have no exit yet

Init == order = <<>> /\ depth = [id \in Ids |-> 0]

Enter(id) ==
  /\ depth' = [depth EXCEPT ![id] = @ + 1]
  /\ order' = IF depth[id] = 0 THEN Append(order, id) ELSE order

Exit(id) ==
  /\ depth[id] > 0
  /\ depth' = [depth EXCEPT ![id] = @ - 1]
  /\ order' = IF depth[id] = 1
              THEN SelectSeq(order, LAMBDA o : o # id) ELSE order

Next == \E id \in Ids : Enter(id) \/ Exit(id)

Spec == Init /\ [][Next]_<<order, depth>>

Current == IF order = <<>> THEN NoSpan ELSE order[Len(order)]
=============================================================================
