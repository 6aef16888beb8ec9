------------------------------ MODULE SpanStack ------------------------------
(***************************************************************************)
(* The stack of entered spans that the Registry keeps for each thread      *)
(* (tracing-subscriber/src/registry/stack.rs).  Only the thread itself     *)
(* uses it.  Spans are exited in any order, and may be entered again while *)
(* they are entered.                                                       *)
(***************************************************************************)
EXTENDS Integers, Sequences

CONSTANTS Ids,       \* span ids
          NoSpan,    \* no current span
          MaxStack   \* bound: entries on the stack

ASSUME SpanStackAssumption == NoSpan \notin Ids /\ MaxStack \in Nat

VARIABLE stack

ContextId == [id : Ids, duplicate : BOOLEAN]

-----------------------------------------------------------------------------
\* Occurrences of an id on a stack.
At(s, id) == {i \in DOMAIN s : s[i].id = id}

\* SpanStack::push.
Push(s, id) == Append(s, [id |-> id, duplicate |-> At(s, id) # {}])

\* Vec::remove.
VecRemove(s, i) == [j \in 1..Len(s) - 1 |-> IF j < i THEN s[j] ELSE s[j + 1]]

\* Mutant: the first entry of the span is taken, not the last.
PopAtFirst(s, id, i) == i \in At(s, id) /\ \A j \in At(s, id) : i <= j

\* The entry that SpanStack::pop finds from the top.
PopAt(s, id, i) == i \in At(s, id) /\ \A j \in At(s, id) : j <= i

\* SpanStack::iter, from the oldest entry on.
Iter(s) ==
  LET first == SelectSeq(s, LAMBDA e : ~e.duplicate)
  IN  [i \in 1..Len(first) |-> first[i].id]

\* SpanStack::current: the first that iter() yields, from the newest entry on.
IsCurrent(s, id) ==
  \E i \in DOMAIN s : /\ s[i].id = id /\ ~s[i].duplicate
                      /\ \A j \in DOMAIN s : j > i => s[j].duplicate
Current(s) ==
  IF \E id \in Ids : IsCurrent(s, id) THEN CHOOSE id \in Ids : IsCurrent(s, id) ELSE NoSpan

-----------------------------------------------------------------------------
Init == stack = <<>>

\* Registry::enter.
Enter(id) == Len(stack) < MaxStack /\ stack' = Push(stack, id)

\* Registry::exit; a span that is not on the stack is ignored.
Exit(id) ==
  \/ \E i \in DOMAIN stack : PopAt(stack, id, i) /\ stack' = VecRemove(stack, i)
  \/ At(stack, id) = {} /\ UNCHANGED stack

Next == \E id \in Ids : Enter(id) \/ Exit(id)

Spec == Init /\ [][Next]_stack

-----------------------------------------------------------------------------
\* The type of the stack.
TypeOK == stack \in Seq(ContextId) /\ Len(stack) <= MaxStack

\* An entry is marked as a duplicate exactly when an older entry of the same
\* span is on the stack.  Entries are marked when they are pushed, and pops out
\* of order remove other entries afterwards, so that the mark could go stale:
\* a span could vanish from iter() while entered, or appear there twice.
DuplicatesMarked ==
  \A i \in DOMAIN stack :
    stack[i].duplicate <=> \E j \in DOMAIN stack : j < i /\ stack[j].id = stack[i].id

-----------------------------------------------------------------------------
\* The refinement mapping to ContextOrder.
Depth(id) == Len(SelectSeq(stack, LAMBDA e : e.id = id))
Abstract == INSTANCE ContextOrder
              WITH order <- Iter(stack), depth <- [id \in Ids |-> Depth(id)]

\* The context the stack shows through iter() and current() is the one that
\* ContextOrder promises, however enters and exits are interleaved.
ImplementsContextOrder == Abstract!Spec
==============================================================================
