------------------------------ MODULE Registry ------------------------------
(***************************************************************************)
(* The span store of tracing-subscriber: Registry with the Layered         *)
(* subscribers around it (registry/sharded.rs, layer/layered.rs).          *)
(*                                                                         *)
(* A span has a reference for every handle and for every child.  When the  *)
(* last goes away every layer gets on_close, the outermost CloseGuard      *)
(* clears the slot, and clearing releases the parent through the default   *)
(* dispatcher of the thread that clears.                                   *)
(*                                                                         *)
(* One step is one access to a ref_count, one on_close, or one operation   *)
(* of the slab that stores the spans (sharded_slab::Pool, external).  An   *)
(* id is used once: the slab's generations tell reuses of a slot apart.    *)
(***************************************************************************)
EXTENDS Integers, Sequences, FiniteSets, FiniteSetsExt

CONSTANTS Threads, Spans, NoSpan,
          Layers,       \* number of Layered around the Registry
          OwnDefault,   \* threads whose default dispatcher is this one
          Reentrant,    \* whether an on_close callback drops span handles
          MaxHandles,   \* bound: clone_span only below so many handles
          MaxStack      \* bound: entered spans of one thread

ASSUME RegistryAssumption ==
  /\ NoSpan \notin Spans /\ Layers \in Nat \ {0} /\ OwnDefault \subseteq Threads
  /\ Reentrant \in BOOLEAN /\ MaxHandles \in Nat

Context == INSTANCE SpanStack WITH Ids <- Spans, stack <- <<>>

VARIABLES
  status,      \* unused, open, marked (no Ref is handed out any more), cleared
  refs,        \* DataInner::ref_count
  parent,      \* DataInner::parent
  handles,     \* Span values of the program
  stack,       \* current_spans
  closeCount,  \* CLOSE_COUNT
  calls,       \* the try_close and clear calls a thread is in, outermost first
  looked,      \* the span a thread holds a Ref to, outside of these calls
  closed       \* history: how many on_close each layer got for a span

spanVars == <<status, refs, parent, closed>>
vars == <<spanVars, handles, stack, closeCount, calls, looked>>

Init ==
  /\ status = [s \in Spans |-> "unused"]
  /\ refs = [s \in Spans |-> 0]
  /\ parent = [s \in Spans |-> NoSpan]
  /\ handles = [s \in Spans |-> 0]
  /\ stack = [t \in Threads |-> <<>>]
  /\ closeCount = [t \in Threads |-> 0]
  /\ calls = [t \in Threads |-> <<>>]
  /\ looked = [t \in Threads |-> NoSpan]
  /\ closed = [s \in Spans |-> [k \in 1..Layers |-> 0]]

Idle(t) == calls[t] = <<>>
Top(t) == calls[t][Len(calls[t])]
At(t, phase) == ~Idle(t) /\ Top(t).phase = phase
Pop(t) == [calls EXCEPT ![t] = SubSeq(@, 1, Len(@) - 1)]
SetTop(t, frame) == [calls EXCEPT ![t][Len(calls[t])] = frame]

\* Layered::try_close, from the outermost to the Registry: one CloseGuard each.
StartClose(t, base, s) ==
  /\ closeCount' = [closeCount EXCEPT ![t] = @ + Layers]
  /\ calls' = [calls EXCEPT ![t] =
                 Append(base, [id |-> s, phase |-> "try", layer |-> 1])]

Entered(s) == \E t \in Threads : Context!At(stack[t], s) # {}

-----------------------------------------------------------------------------
(* The calls of the program                                                *)

\* new_span: the parent is cloned and the slot filled.
NewSpan(t, s, p) ==
  /\ Idle(t) /\ status[s] = "unused"
  /\ status' = [status EXCEPT ![s] = "open"]
  /\ parent' = [parent EXCEPT ![s] = p]
  /\ refs' = [r \in Spans |-> IF r = s THEN 1
                              ELSE IF r = p THEN refs[r] + 1 ELSE refs[r]]
  /\ handles' = [handles EXCEPT ![s] = 1]
  /\ UNCHANGED <<stack, closeCount, calls, looked, closed>>

\* Which parent: none for a root, the current span for a contextual one if
\* the slab still has it, or a span the caller has a handle of.
Parents(t) ==
  {NoSpan} \cup {p \in Spans : handles[p] > 0}
           \cup {p \in {Context!Current(stack[t])} \ {NoSpan} : status[p] = "open"}

\* The handles of the program are below the bound.
FewHandles == MapThenSumSet(LAMBDA r : handles[r], Spans) < MaxHandles

\* clone_span.
CloneSpan(t, s) ==
  /\ Idle(t) /\ handles[s] > 0 /\ FewHandles
  /\ refs' = [refs EXCEPT ![s] = @ + 1]
  /\ handles' = [handles EXCEPT ![s] = @ + 1]
  /\ UNCHANGED <<status, parent, closed, stack, closeCount, calls, looked>>

\* A handle is dropped, by the program or by a layer in on_close.  A handle
\* that an Entered guard borrows stays.
DropSpan(t, s) ==
  /\ Idle(t) \/ (Reentrant /\ At(t, "closing"))
  /\ handles[s] > 1 \/ (handles[s] = 1 /\ ~Entered(s))
  /\ handles' = [handles EXCEPT ![s] = @ - 1]
  /\ StartClose(t, calls[t], s)
  /\ UNCHANGED <<spanVars, stack, looked>>

Enter(t, s) ==
  /\ Idle(t) /\ handles[s] > 0 /\ Len(stack[t]) < MaxStack
  /\ stack' = [stack EXCEPT ![t] = Context!Push(@, s)]
  /\ UNCHANGED <<spanVars, handles, closeCount, calls, looked>>

Exit(t, s) ==
  /\ Idle(t)
  /\ \E i \in DOMAIN stack[t] :
       /\ Context!PopAt(stack[t], s, i)
       /\ stack' = [stack EXCEPT ![t] = Context!VecRemove(@, i)]
  /\ UNCHANGED <<spanVars, handles, closeCount, calls, looked>>

\* A layer looks a span up and keeps the SpanRef for a while.  The slab hands
\* out no Ref to a slot that is marked.
Look(t, s) ==
  /\ Idle(t) /\ looked[t] = NoSpan /\ status[s] = "open"
  /\ looked' = [looked EXCEPT ![t] = s]
  /\ UNCHANGED <<spanVars, handles, stack, closeCount, calls>>

\* The last Ref to a marked slot clears it.
Unlook(t) ==
  /\ Idle(t) /\ looked[t] # NoSpan
  /\ looked' = [looked EXCEPT ![t] = NoSpan]
  /\ calls' =
       IF /\ status[looked[t]] = "marked"
          /\ \A u \in Threads \ {t} : looked[u] # looked[t]
       THEN [calls EXCEPT ![t] =
               <<[id |-> looked[t], phase |-> "release", layer |-> 1]>>]
       ELSE calls
  /\ UNCHANGED <<spanVars, handles, stack, closeCount>>

-----------------------------------------------------------------------------
(* The steps of try_close                                                  *)

\* Mutant: the span closes with one reference left.
TryCloseEarly(t) ==
  /\ At(t, "try")
  /\ LET s == Top(t).id
     IN  /\ refs' = [refs EXCEPT ![s] = @ - 1]
         /\ IF refs[s] > 2
            THEN /\ calls' = Pop(t)
                 /\ closeCount' = [closeCount EXCEPT ![t] = @ - Layers]
            ELSE /\ calls' = SetTop(t, [Top(t) EXCEPT !.phase = "closing"])
                 /\ UNCHANGED closeCount
  /\ UNCHANGED <<status, parent, closed, handles, stack, looked>>

\* Registry::try_close: fetch_sub, and the guards of a span that stays open.
TryClose(t) ==
  /\ At(t, "try")
  /\ LET s == Top(t).id
     IN  /\ refs' = [refs EXCEPT ![s] = @ - 1]
         /\ IF refs[s] > 1
            THEN /\ calls' = Pop(t)
                 /\ closeCount' = [closeCount EXCEPT ![t] = @ - Layers]
            ELSE /\ calls' = SetTop(t, [Top(t) EXCEPT !.phase = "closing"])
                 /\ UNCHANGED closeCount
  /\ UNCHANGED <<status, parent, closed, handles, stack, looked>>

\* Mutant: every CloseGuard clears the slot.
OnCloseClears(t) ==
  /\ At(t, "closing")
  /\ LET s == Top(t).id
         k == Top(t).layer
     IN  /\ closed' = [closed EXCEPT ![s][k] = @ + 1]
         /\ closeCount' = [closeCount EXCEPT ![t] = @ - 1]
         /\ calls' = SetTop(t, [Top(t) EXCEPT !.phase = "clear"])
  /\ UNCHANGED <<status, refs, parent, handles, stack, looked>>

\* Layered::try_close of one layer: on_close, then its CloseGuard is dropped.
OnClose(t) ==
  /\ At(t, "closing")
  /\ LET s == Top(t).id
         k == Top(t).layer
     IN  /\ closed' = [closed EXCEPT ![s][k] = @ + 1]
         /\ closeCount' = [closeCount EXCEPT ![t] = @ - 1]
         /\ calls' = IF closeCount[t] = 1
                     THEN SetTop(t, [Top(t) EXCEPT !.phase = "clear"])
                     ELSE IF k = Layers
                     THEN Pop(t)
                     ELSE SetTop(t, [Top(t) EXCEPT !.layer = k + 1])
  /\ UNCHANGED <<status, refs, parent, handles, stack, looked>>

\* Pool::clear: the slot is marked, and cleared at once or by the last Ref.
Clear(t) ==
  /\ At(t, "clear")
  /\ LET s == Top(t).id
     IN  /\ status' = [status EXCEPT ![s] = "marked"]
         /\ calls' = IF \E u \in Threads : looked[u] = s THEN Pop(t)
                     ELSE SetTop(t, [Top(t) EXCEPT !.phase = "release"])
  /\ UNCHANGED <<refs, parent, closed, handles, stack, closeCount, looked>>

\* Mutant: the parent is forgotten and its reference kept.
ReleaseForgets(t) ==
  /\ At(t, "release")
  /\ parent' = [parent EXCEPT ![Top(t).id] = NoSpan]
  /\ calls' = SetTop(t, [Top(t) EXCEPT !.phase = "free"])
  /\ UNCHANGED <<status, refs, closed, handles, stack, closeCount, looked>>

\* DataInner::clear: try_close of the parent on the thread's default, which is
\* NoSubscriber on a thread that has none (or inside its own get_default).
Release(t) ==
  /\ At(t, "release")
  /\ LET s == Top(t).id
         base == SetTop(t, [Top(t) EXCEPT !.phase = "free"])
     IN  /\ IF parent[s] # NoSpan /\ t \in OwnDefault
            THEN StartClose(t, base[t], parent[s])
            ELSE calls' = base /\ UNCHANGED closeCount
         /\ parent' = [parent EXCEPT ![s] = NoSpan]
  /\ UNCHANGED <<status, refs, closed, handles, stack, looked>>

\* DataInner::clear is done and the slab frees the slot.
Free(t) ==
  /\ At(t, "free")
  /\ status' = [status EXCEPT ![Top(t).id] = "cleared"]
  /\ calls' = Pop(t)
  /\ UNCHANGED <<refs, parent, closed, handles, stack, closeCount, looked>>

-----------------------------------------------------------------------------
Step(t) == TryClose(t) \/ OnClose(t) \/ Clear(t) \/ Release(t) \/ Free(t)

Next ==
  \E t \in Threads :
    \/ \E s \in Spans :
         \/ \E p \in Parents(t) : NewSpan(t, s, p)
         \/ CloneSpan(t, s) \/ DropSpan(t, s) \/ Enter(t, s) \/ Exit(t, s)
         \/ Look(t, s)
    \/ Unlook(t)
    \/ Step(t)

Spec == Init /\ [][Next]_vars

\* A thread that is in a call, or holds a SpanRef, goes on.
FairSpec == Spec /\ \A t \in Threads : WF_vars(Step(t)) /\ WF_vars(Unlook(t))

-----------------------------------------------------------------------------
Phases == {"try", "closing", "clear", "release", "free"}
Frame == [id : Spans, phase : Phases, layer : 1..Layers]

\* The types of the variables.
TypeOK ==
  /\ status \in [Spans -> {"unused", "open", "marked", "cleared"}]
  /\ refs \in [Spans -> Nat] /\ handles \in [Spans -> Nat]
  /\ parent \in [Spans -> Spans \cup {NoSpan}]
  /\ closed \in [Spans -> [1..Layers -> Nat]]
  /\ stack \in [Threads -> Seq(Context!ContextId)]
  /\ closeCount \in [Threads -> Nat]
  /\ calls \in [Threads -> Seq(Frame)]
  /\ looked \in [Threads -> Spans \cup {NoSpan}]

Children(s) == {c \in Spans : parent[c] = s}

\* "A span is not considered closed until all of its children have closed"
\* (DataInner::clear): while the slot of a child is not cleared its parent is
\* in the slab and no layer has seen its on_close, so that a layer walking
\* the scope of any span it can look up meets no gap.
ParentOpen ==
  \A c \in Spans : parent[c] # NoSpan =>
    /\ status[parent[c]] = "open"
    /\ \A k \in 1..Layers : closed[parent[c]][k] = 0

\* No call panics: clone_span of a span with a handle or of an entered one finds
\* it with a reference left, try_close finds the span it is called for, whichever
\* threads close its other handles and its children meanwhile, and a slot goes
\* back to the slab with the count of 0 that new_span asserts.
NoPanic ==
  /\ \A s \in Spans : status[s] \in {"unused", "cleared"} => refs[s] = 0
  /\ \A s \in Spans : handles[s] > 0 \/ Entered(s) =>
       status[s] = "open" /\ refs[s] > 0
  /\ \A t \in Threads : At(t, "try") =>
       status[Top(t).id] = "open" /\ refs[Top(t).id] > 0

\* Every layer gets on_close at most once for a span, in order from the
\* innermost one, while the slot still has the span's data ("to enable a
\* Registry-backed Layer to access span data after the Layer has received the
\* on_close callback"), and a slot is cleared only after all of them.
ClosedInOrder ==
  \A s \in Spans :
    /\ \A k \in 1..Layers :
         /\ closed[s][k] <= 1
         /\ k > 1 => closed[s][k] <= closed[s][k - 1]
    /\ closed[s][Layers] = 0 => status[s] \in {"unused", "open"}

\* Spans close in order: parents after their children (DataInner::clear), and
\* for each span the layers one after the other and before its slot is cleared
\* (Layered::try_close, CloseGuard).
ClosesInOrder == ParentOpen /\ ClosedInOrder

\* A span is dropped for good: when no thread is in the middle of a call, a
\* span that is in the slab has a handle or a child that has.
NoLeak ==
  (\A t \in Threads : Idle(t) /\ looked[t] = NoSpan) =>
    \A s \in Spans : status[s] \in {"open", "marked"} =>
      handles[s] > 0 \/ Children(s) # {}

\* Once the program has dropped all of its handles, every span is closed and
\* cleared, grandparents included.
EventuallyCleared ==
  <>[](\A s \in Spans : handles[s] = 0)
    => <>[](\A s \in Spans : status[s] \in {"unused", "cleared"})
=============================================================================
