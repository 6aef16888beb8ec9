------------------------------- MODULE Tasks -------------------------------
(***************************************************************************)
(* Span handles, their guards, and the futures that carry a span or a      *)
(* dispatcher with them from thread to thread: tracing/src/span.rs,        *)
(* tracing/src/instrument.rs, tracing-futures and tracing-tower, over      *)
(* subscribers that are Registries.                                        *)
(*                                                                         *)
(* A handle names the subscriber that made the span; everything done with  *)
(* it goes there, whatever the default of the thread is by then.  A task   *)
(* is a future with its wrappers, outermost first; a thread runs it in a   *)
(* frame, on top of the frames it was in.                                  *)
(*                                                                         *)
(* Threads share only the reference counts.  The counting of one span is   *)
(* atomic here (Registry has its steps), and what a wrapper does before    *)
(* and after the code it wraps is one step each.                           *)
(***************************************************************************)
EXTENDS Integers, Sequences, SequencesExt, FiniteSets, FiniteSetsExt

CONSTANTS Threads, Tasks, Dispatches,
          Ids,        \* span ids: every subscriber numbers its own spans
          NoId, None,
          MaxHeld,    \* bound: handles the program holds outside of tasks
          MaxMade,    \* bound: spans that are created
          MaxFrames,  \* bound: frames of all threads
          MaxWraps    \* bound: wrappers around one future

ASSUME TasksAssumption ==
  /\ NoId \notin Ids /\ None \notin Dispatches
  /\ MaxHeld \in Nat /\ MaxMade \in Nat /\ MaxFrames \in Nat /\ MaxWraps \in Nat

Context == INSTANCE SpanStack
             WITH NoSpan <- NoId, MaxStack <- MaxFrames + MaxWraps, stack <- <<>>

VARIABLES
  ctx,      \* of a thread: its default, and current_spans of each subscriber
  refs,     \* DataInner::ref_count
  parent,   \* DataInner::parent
  made,     \* spans that were created
  held,     \* Span values in variables of the program
  tasks,    \* futures: where they are and what they are wrapped in
  frames,   \* what a thread is running, outermost first
  crossed   \* history: a child was cleared on a thread with another default

vars == <<ctx, refs, parent, made, held, tasks, frames, crossed>>

Spans == Dispatches \X Ids
Defaults == Dispatches \cup {None}

\* Span::none() and Span::new_disabled().
Disabled == <<None, NoId>>
Handles == Spans \cup {Disabled}

\* Instrumented, WithDispatch, and MakeFuture of tracing-tower's service_span.
Wraps == {[kind |-> k, of |-> s] : k \in {"span", "make"}, s \in Handles}
           \cup {[kind |-> "dispatch", of |-> d] : d \in Defaults}

\* A guard: `of` is the span to exit, or the default to go back to.
Guards == {[kind |-> "exit", of |-> s] : s \in Handles}
            \cup {[kind |-> "default", of |-> d] : d \in Defaults}

Init ==
  /\ \E base \in [Threads -> Defaults] :
       ctx = [t \in Threads |->
                [default |-> base[t], stack |-> [d \in Dispatches |-> <<>>]]]
  /\ refs = [s \in Spans |-> 0]
  /\ parent = [s \in Spans |-> NoId]
  /\ made = {}
  /\ held = [s \in Spans |-> 0]
  /\ tasks = [k \in Tasks |-> [at |-> "new", wraps |-> <<>>]]
  /\ frames = [t \in Threads |-> <<>>]
  /\ crossed = FALSE

-----------------------------------------------------------------------------
(* The subscribers                                                         *)

\* Registry::clone_span.
CloneSpan(r, s) == IF s = Disabled THEN r ELSE [r EXCEPT ![s] = @ + 1]

RECURSIVE TryClose(_, _, _)

\* DataInner::clear: the parent is released, by its id, to the thread's default.
ClearData(st, default, s) ==
  LET p == st.parent[s]
      gone == [st EXCEPT !.parent[s] = NoId, !.crossed = @ \/ default # s[1]]
  IN  IF p = NoId THEN st
      ELSE IF default = None THEN gone
      ELSE TryClose(gone, default, <<default, p>>)

\* Registry::try_close, and the CloseGuard if that was the last reference.
TryClose(st, default, s) ==
  IF s = Disabled THEN st
  ELSE IF st.refs[s] = 0 THEN [st EXCEPT !.crossed = TRUE]
  ELSE LET less == [st EXCEPT !.refs[s] = @ - 1]
       IN  IF st.refs[s] > 1 THEN less ELSE ClearData(less, default, s)

Store == [refs |-> refs, parent |-> parent, crossed |-> crossed]
SetStore(st) == refs' = st.refs /\ parent' = st.parent /\ crossed' = st.crossed

\* Drop for Span, of several handles in turn.
DropSpans(t, ss) ==
  SetStore(FoldLeft(LAMBDA st, s : TryClose(st, ctx[t].default, s), Store, ss))

\* Registry::current_span of the default subscriber.
CurrentSpan(c) ==
  IF c.default = None \/ Context!Current(c.stack[c.default]) = NoId THEN Disabled
  ELSE <<c.default, Context!Current(c.stack[c.default])>>

\* Mutant: the span is entered in the subscriber that is the default by now.
DoEnterDefault(c, s) ==
  IF s = Disabled \/ c.default = None THEN c
  ELSE [c EXCEPT !.stack[c.default] = Context!Push(@, s[2])]

\* Span::do_enter.
DoEnter(c, s) ==
  IF s = Disabled THEN c
  ELSE [c EXCEPT !.stack[s[1]] = Context!Push(@, s[2])]

\* Span::do_exit.
DoExit(c, s) ==
  IF s = Disabled THEN c
  ELSE LET stack == c.stack[s[1]]
       IN  IF Context!At(stack, s[2]) = {} THEN c
           ELSE [c EXCEPT !.stack[s[1]] =
                   Context!VecRemove(@, CHOOSE i \in DOMAIN stack :
                                       Context!PopAt(stack, s[2], i))]

-----------------------------------------------------------------------------
(* Frames                                                                  *)

Top(t) == frames[t][Len(frames[t])]
Running(t, kind) == frames[t] # <<>> /\ Top(t).kind = kind
Room == FoldSet(LAMBDA t, n : Len(frames[t]) + n, 0, Threads) < MaxFrames

\* `saved` is history: the context the thread was in before.
Frame(t, kind, k, guards) ==
  [kind |-> kind, task |-> k, guards |-> guards, saved |-> ctx[t]]
Start(t, frame) == frames' = [frames EXCEPT ![t] = Append(@, frame)]
Finish(t) == frames' = [frames EXCEPT ![t] = Front(@)]

\* What entering one wrapper does to the context, and the guard it leaves.
Open(open, w) ==
  IF w.kind = "dispatch"
  THEN [c |-> [open.c EXCEPT !.default = w.of],
        guards |-> Append(open.guards, [kind |-> "default", of |-> open.c.default])]
  ELSE [c |-> DoEnter(open.c, w.of),
        guards |-> Append(open.guards, [kind |-> "exit", of |-> w.of])]

OpenAll(t, ws) == FoldLeft(Open, [c |-> ctx[t], guards |-> <<>>], ws)

\* Drop for Entered and for DefaultGuard.
Shut(c, g) ==
  IF g.kind = "default" THEN [c EXCEPT !.default = g.of] ELSE DoExit(c, g.of)

\* Guards are dropped in the reverse order of their creation.
ShutAll(t, gs) == FoldLeft(Shut, ctx[t], Reverse(gs))

WithContext(t, c) == ctx' = [ctx EXCEPT ![t] = c]
SpansOf(ws) == SelectSeq(ws, LAMBDA w : w.kind # "dispatch")
NamesOf(ws) == [i \in DOMAIN SpansOf(ws) |-> SpansOf(ws)[i].of]

-----------------------------------------------------------------------------
(* Span                                                                    *)

HeldCount == FoldSet(LAMBDA s, n : held[s] + n, 0, Spans)
Keep(s) == held' = IF s = Disabled THEN held ELSE [held EXCEPT ![s] = @ + 1]
Has(s) == IF s = Disabled THEN TRUE ELSE held[s] > 0
Take(s) == held' = IF s = Disabled THEN held ELSE [held EXCEPT ![s] = @ - 1]

\* The parent of a new span of the subscriber d: none, the thread's current
\* span, or a span the program has a handle of.
Parents(t, d) ==
  {NoId, Context!Current(ctx[t].stack[d])} \cup {p \in Ids : held[<<d, p>>] > 0}

\* Span::make_with with Registry::new_span.
MakeWith(t, s, p) ==
  /\ s \notin made /\ Cardinality(made) < MaxMade
  /\ ctx[t].default = s[1] /\ p \in Parents(t, s[1])
  /\ made' = made \cup {s}
  /\ parent' = [parent EXCEPT ![s] = p]
  /\ refs' = LET r == [refs EXCEPT ![s] = 1]
             IN  IF p = NoId THEN r ELSE CloneSpan(r, <<s[1], p>>)
  /\ UNCHANGED crossed

\* Span::new, new_root and child_of.
NewSpan(t, s, p) ==
  /\ HeldCount < MaxHeld /\ MakeWith(t, s, p) /\ Keep(s)
  /\ UNCHANGED <<ctx, tasks, frames>>

\* Mutant: the new handle has no reference of its own.
CloneInnerNoRef(s) ==
  /\ held[s] > 0 /\ HeldCount < MaxHeld /\ Keep(s)
  /\ UNCHANGED <<ctx, refs, parent, made, tasks, frames, crossed>>

\* Clone for Inner.
CloneInner(s) ==
  /\ held[s] > 0 /\ HeldCount < MaxHeld /\ refs' = CloneSpan(refs, s) /\ Keep(s)
  /\ UNCHANGED <<ctx, parent, made, tasks, frames, crossed>>

\* Span::current, also by way of or_current on a disabled span.
CurrentHandle(t) ==
  LET s == CurrentSpan(ctx[t])
  IN  /\ s # Disabled /\ HeldCount < MaxHeld
      /\ refs' = CloneSpan(refs, s) /\ Keep(s)
      /\ UNCHANGED <<ctx, parent, made, tasks, frames, crossed>>

\* Drop for Span.
DropSpan(t, s) ==
  /\ held[s] > 0 /\ Take(s) /\ DropSpans(t, <<s>>)
  /\ UNCHANGED <<ctx, made, tasks, frames>>

\* Span::enter, entered and in_scope: the guard has the handle, its own or a
\* borrowed one, for as long as it lives.
Entered(t, s) ==
  /\ held[s] > 0 /\ Room /\ Take(s)
  /\ WithContext(t, DoEnter(ctx[t], s))
  /\ Start(t, Frame(t, "guard", s, <<[kind |-> "exit", of |-> s]>>))
  /\ UNCHANGED <<refs, parent, made, tasks, crossed>>

\* Guards of one function are dropped in any order.
Innermost(t, i) == \A j \in i..Len(frames[t]) : frames[t][j].kind = "guard"
WithoutFrame(t, i) == frames' = [frames EXCEPT ![t] = RemoveAt(@, i)]

\* Drop for Entered; EnteredSpan::exit.
ExitGuard(t, i) ==
  /\ Innermost(t, i) /\ HeldCount < MaxHeld
  /\ WithContext(t, DoExit(ctx[t], frames[t][i].task))
  /\ Keep(frames[t][i].task) /\ WithoutFrame(t, i)
  /\ UNCHANGED <<refs, parent, made, tasks, crossed>>

\* Drop for EnteredSpan: it exits, and then its Span is dropped.
DropEntered(t, i) ==
  /\ Innermost(t, i)
  /\ WithContext(t, DoExit(ctx[t], frames[t][i].task))
  /\ DropSpans(t, <<frames[t][i].task>>) /\ WithoutFrame(t, i)
  /\ UNCHANGED <<made, held, tasks>>

-----------------------------------------------------------------------------
(* Instrument, WithSubscriber and the executors                            *)

Wrappable(k) ==
  tasks[k].at \in {"new", "idle"} /\ Len(tasks[k].wraps) < MaxWraps
Wrap(k, w) ==
  tasks' = [tasks EXCEPT ![k] = [at |-> "idle", wraps |-> <<w>> \o @.wraps]]

\* Instrument::instrument with a span of the program.
Instrument(k, s) ==
  /\ Wrappable(k) /\ Has(s) /\ Take(s) /\ Wrap(k, [kind |-> "span", of |-> s])
  /\ UNCHANGED <<ctx, refs, parent, made, frames, crossed>>

\* Instrument::in_current_span.
InCurrentSpan(t, k) ==
  LET s == CurrentSpan(ctx[t])
  IN  /\ Wrappable(k) /\ refs' = CloneSpan(refs, s)
      /\ Wrap(k, [kind |-> "span", of |-> s])
      /\ UNCHANGED <<ctx, parent, made, held, frames, crossed>>

\* Execute and spawn of an instrumented executor, which has a span of its
\* own.  A future that the executor refuses is taken out of its wrapper again.
Execute(k, s) ==
  /\ Wrappable(k) /\ held[s] > 0 /\ refs' = CloneSpan(refs, s)
  /\ Wrap(k, [kind |-> "span", of |-> s])
  /\ UNCHANGED <<ctx, parent, made, held, frames, crossed>>

\* WithSubscriber::with_subscriber and WithDispatch::with_dispatch.
WithSubscriber(k, d) ==
  /\ Wrappable(k) /\ Wrap(k, [kind |-> "dispatch", of |-> d])
  /\ UNCHANGED <<ctx, refs, parent, made, held, frames, crossed>>

\* MakeService::call of service_span: the future has the span of the service
\* it makes.
MakeCall(k, s) ==
  /\ tasks[k].at = "new" /\ Has(s) /\ Take(s)
  /\ Wrap(k, [kind |-> "make", of |-> s])
  /\ UNCHANGED <<ctx, refs, parent, made, frames, crossed>>

\* Instrumented::into_inner: the span is dropped and not entered.
IntoInner(t, k) ==
  /\ tasks[k].at = "idle" /\ tasks[k].wraps # <<>>
  /\ Head(tasks[k].wraps).kind = "span"
  /\ tasks' = [tasks EXCEPT ![k].wraps = Tail(@)]
  /\ DropSpans(t, <<Head(tasks[k].wraps).of>>)
  /\ UNCHANGED <<ctx, made, held, frames>>

\* Service::call of request_span: the span is entered for the inner call.
RequestCall(t, k, s, p) ==
  /\ tasks[k].at = "new" /\ Room /\ MakeWith(t, s, p)
  /\ tasks' = [tasks EXCEPT ![k] = [at |-> "call", wraps |-> <<>>]]
  /\ WithContext(t, DoEnter(ctx[t], s))
  /\ Start(t, Frame(t, "call", k, <<[kind |-> "exit", of |-> s]>>))
  /\ UNCHANGED held

\* The inner call returned a future, or panicked (ok = FALSE).
RequestCalled(t, ok) ==
  /\ Running(t, "call") /\ Finish(t)
  /\ LET k == Top(t).task
         s == Top(t).guards[1].of
     IN  /\ WithContext(t, ShutAll(t, Top(t).guards))
         /\ tasks' = [tasks EXCEPT ![k] =
              IF ok THEN [at |-> "idle", wraps |-> <<[kind |-> "span", of |-> s]>>]
              ELSE [at |-> "gone", wraps |-> <<>>]]
         /\ IF ok THEN UNCHANGED <<refs, parent, crossed>> ELSE DropSpans(t, <<s>>)
  /\ UNCHANGED <<made, held>>

-----------------------------------------------------------------------------
(* Poll and drop                                                           *)

\* Future::poll of the wrappers, up to the poll of the future inside.
Poll(t, k) ==
  /\ tasks[k].at = "idle" /\ Room
  /\ LET open == OpenAll(t, tasks[k].wraps)
     IN  WithContext(t, open.c) /\ Start(t, Frame(t, "poll", k, open.guards))
  /\ tasks' = [tasks EXCEPT ![k].at = "busy"]
  /\ UNCHANGED <<refs, parent, made, held, crossed>>

\* The future returned or panicked and the guards are dropped.  A MakeFuture
\* that is ready gives its span to the service.
PollEnd(t, ready) ==
  /\ Running(t, "poll") /\ Finish(t)
  /\ LET k == Top(t).task
         ws == tasks[k].wraps
         makes == ready /\ ws # <<>> /\ ws[Len(ws)].kind = "make"
     IN  /\ WithContext(t, ShutAll(t, Top(t).guards))
         /\ tasks' = [tasks EXCEPT ![k] =
              [at |-> IF ready THEN "done" ELSE "idle",
               wraps |-> IF makes THEN Front(ws) ELSE ws]]
         /\ makes => HeldCount < MaxHeld
         /\ IF makes THEN Keep(ws[Len(ws)].of) ELSE UNCHANGED held
  /\ UNCHANGED <<refs, parent, made, crossed>>

\* Drop of a task: each Instrumented enters its span and drops what is inside.
DropTask(t, k) ==
  /\ tasks[k].at \in {"idle", "done"} /\ Room
  /\ LET entered == SelectSeq(tasks[k].wraps, LAMBDA w : w.kind = "span")
         open == OpenAll(t, entered)
     IN  WithContext(t, open.c) /\ Start(t, Frame(t, "drop", k, open.guards))
  /\ tasks' = [tasks EXCEPT ![k].at = "busy"]
  /\ UNCHANGED <<refs, parent, made, held, crossed>>

\* Mutant: the span of an Instrumented is left on the stack.
DropTaskEndEntered(t) ==
  /\ Running(t, "drop") /\ Finish(t)
  /\ LET k == Top(t).task
     IN  /\ DropSpans(t, Reverse(NamesOf(tasks[k].wraps)))
         /\ tasks' = [tasks EXCEPT ![k] = [at |-> "gone", wraps |-> <<>>]]
  /\ UNCHANGED <<ctx, made, held>>

\* The future is dropped: spans are exited and their handles dropped.
DropTaskEnd(t) ==
  /\ Running(t, "drop") /\ Finish(t)
  /\ LET k == Top(t).task
     IN  /\ WithContext(t, ShutAll(t, Top(t).guards))
         /\ DropSpans(t, Reverse(NamesOf(tasks[k].wraps)))
         /\ tasks' = [tasks EXCEPT ![k] = [at |-> "gone", wraps |-> <<>>]]
  /\ UNCHANGED <<made, held>>

-----------------------------------------------------------------------------
OfSpans(t) ==
  \/ \E s \in Spans :
       \/ \E p \in Ids \cup {NoId} : NewSpan(t, s, p)
       \/ DropSpan(t, s) \/ Entered(t, s)
  \/ CurrentHandle(t)
  \/ \E i \in DOMAIN frames[t] : ExitGuard(t, i) \/ DropEntered(t, i)

OfTasks(t) ==
  \/ \E k \in Tasks :
       \/ InCurrentSpan(t, k) \/ IntoInner(t, k) \/ Poll(t, k) \/ DropTask(t, k)
       \/ WithSubscriber(k, ctx[t].default)
       \/ \E s \in Spans, p \in Ids \cup {NoId} : RequestCall(t, k, s, p)
  \/ \E ok \in BOOLEAN : RequestCalled(t, ok) \/ PollEnd(t, ok)
  \/ DropTaskEnd(t)

Next ==
  \/ \E t \in Threads : OfSpans(t) \/ OfTasks(t)
  \/ \E s \in Spans : CloneInner(s)
  \/ \E k \in Tasks :
       \/ \E s \in Handles : Instrument(k, s) \/ MakeCall(k, s)
       \/ \E s \in Spans : Execute(k, s)
       \/ \E d \in Dispatches : WithSubscriber(k, d)

Spec == Init /\ [][Next]_vars

-----------------------------------------------------------------------------
Frames ==
  [kind : {"guard", "call", "poll", "drop"}, task : Tasks \cup Spans,
   guards : Seq(Guards),
   saved : [default : Defaults, stack : [Dispatches -> Seq(Context!ContextId)]]]

\* The types of the variables.
TypeOK ==
  /\ ctx \in [Threads -> [default : Defaults,
                          stack : [Dispatches -> Seq(Context!ContextId)]]]
  /\ refs \in [Spans -> Nat] /\ held \in [Spans -> Nat] /\ made \subseteq Spans
  /\ parent \in [Spans -> Ids \cup {NoId}]
  /\ tasks \in [Tasks -> [at : {"new", "idle", "call", "busy", "done", "gone"},
                          wraps : Seq(Wraps)]]
  /\ frames \in [Threads -> Seq(Frames)]

\* The Span values there are of a span.
InTasks(s) ==
  FoldSet(LAMBDA k, n :
            Len(SelectSeq(NamesOf(tasks[k].wraps), LAMBDA r : r = s)) + n, 0, Tasks)
InFrames(s) ==
  FoldSet(LAMBDA t, n :
            n + Len(SelectSeq(frames[t], LAMBDA f :
                  f.kind \in {"guard", "call"} /\ f.guards[1].of = s)), 0, Threads)
Children(s) == {c \in Spans : refs[c] > 0 /\ c[1] = s[1] /\ parent[c] = s[2]}

\* The count of a subscriber is the number of handles of the span, in the
\* program, in guards, calls and tasks, and of children, whichever thread
\* clones, moves or drops them and whatever its default is: no span closes
\* while it can be used, no call names a closed one, and none stays open for
\* ever.  (As long as no child was cleared on a thread with another default,
\* which releases a parent to the wrong subscriber: see crossed.)
HandlesCounted ==
  /\ TypeOK
  /\ ~crossed => \A s \in Spans :
       refs[s] = held[s] + InTasks(s) + InFrames(s) + Cardinality(Children(s))

LastDispatch(ws) == SelectLastInSeq(ws, LAMBDA w : w.kind = "dispatch")
LastSpan(ws) == SelectLastInSeq(ws, LAMBDA w : w.kind # "dispatch")

\* Whichever thread polls a task: its code runs inside every span the task
\* carries; its default is the dispatcher it carries; and the span is the
\* current one there, so that events and spans get it as their parent, unless
\* the thread was inside it already.
RunsInSpan ==
  \A t \in Threads : Running(t, "poll") =>
    LET ws == tasks[Top(t).task].wraps
        c == ctx[t]
        s == ws[LastSpan(ws)].of
    IN  /\ \A i \in DOMAIN ws : ws[i].kind # "dispatch" /\ ws[i].of # Disabled =>
             Context!At(c.stack[ws[i].of[1]], ws[i].of[2]) # {}
        /\ LastDispatch(ws) # 0 => c.default = ws[LastDispatch(ws)].of
        /\ LastSpan(ws) # 0 /\ s # Disabled =>
             \/ Cardinality(Context!At(c.stack[s[1]], s[2])) > 1
             \/ Context!Current(c.stack[s[1]]) = s[2]

\* A thread comes out of a poll, a drop or a call as it went in: with the same
\* default, and with the same context in every subscriber.
ContextRestored ==
  [][\A t \in Threads :
       Len(frames'[t]) < Len(frames[t]) /\ Top(t).kind # "guard" =>
         ctx'[t] = Top(t).saved]_vars

\* "keeping the parent span open until all its children have closed"
\* (DataInner::clear), for Registries that are the default of different threads.
ParentHeld ==
  \A s \in Spans : refs[s] > 0 /\ parent[s] # NoId => refs[<<s[1], parent[s]>>] > 0

\* Bound: nothing is explored after a child was cleared under another default.
NotCrossed == ~crossed
=============================================================================
