------------------------------ MODULE Observers ------------------------------
(***************************************************************************)
(* The layers that watch spans and keep what they saw in the extensions of *)
(* the spans: any number of fmt layers (fmt/fmt_layer.rs), error layers    *)
(* (tracing-error) and a flame layer (tracing-flame), on one registry.     *)
(*                                                                         *)
(* Extensions are a map from types to values, and the layers share it: a   *)
(* span has one Timings and one FormattedFields<N> for each type N of      *)
(* field formatter, whichever layer put it there.                          *)
(***************************************************************************)
EXTENDS Integers, Sequences, SequencesExt, Functions

CONSTANTS
  Watched,     \* spans
  Threads,
  FieldTypes,  \* the types N of field formatters
  Stacks,      \* the stacks of layers that a program may install
  MaxClock,    \* bound: ticks of the clock
  MaxRecords,  \* bound: calls of Span::record for a span
  MaxDepth     \* bound: entries, of all the threads, that are not exited

VARIABLES
  layers,   \* the layers, the innermost first, and the flame layer's config
  spans,    \* the registry's spans with their extensions
  entered,  \* for each thread, the spans that it is in
  clock,
  flameLast,\* for each thread, the flame layer's LAST_EVENT
  buf,      \* for each thread, whether BUF of on_event holds text
  lines,    \* what the last step wrote
  changed,  \* history: when the thread entered or exited a span
  panicked  \* history: the threads on which a formatter panicked

obsVars == <<layers, spans, entered, clock, flameLast, buf, lines, changed, panicked>>

NoParent == 0
NoFields == <<"none">>
NoTimes == [idle |-> -1]

Unused == [open |-> FALSE]

-----------------------------------------------------------------------------
(* Spans                                                                   *)

Open(s) == s \in Watched /\ spans[s].open

\* Ancestors, from the root to s: SpanRef::scope().from_root().
RECURSIVE ScopeOf(_, _)
ScopeOf(sp, s) == IF s = NoParent THEN <<>> ELSE Append(ScopeOf(sp, sp[s].parent), s)

\* Registry::current_span: the last span that was not already entered below.
CurrentOf(stack) ==
  LET firsts == {i \in DOMAIN stack : \A j \in 1 .. i - 1 : stack[j] # stack[i]}
  IN  IF firsts = {} THEN NoParent ELSE stack[CHOOSE i \in firsts : \A j \in firsts : j <= i]

\* Pop of the registry's stack: the most recent entry of s.
Without(stack, s) ==
  LET i == CHOOSE i \in DOMAIN stack :
             stack[i] = s /\ \A j \in i + 1 .. Len(stack) : stack[j] # s
  IN  RemoveAt(stack, i)

Entries == SumFunction([t \in Threads |-> Len(entered[t])])

Inside(s) == {t \in Threads : \E i \in DOMAIN entered[t] : entered[t][i] = s}

-----------------------------------------------------------------------------
(* The layers.  A layer's operation is a function of what the operations   *)
(* of the layers below it left: the spans, the lines, the thread's buffer, *)
(* and whether the call is unwinding.                                      *)

traceNew(l) == "new" \in l.kind
traceEnter(l) == "enter" \in l.kind
traceExit(l) == "exit" \in l.kind
traceClose(l) == "close" \in l.kind
Timed(l) == traceClose(l) /\ l.timing

\* What a formatter shows of a span: FormattedFields of its type.
Shown(sp, s, n) == [span |-> s, fields |-> sp[s].fields[n]]

\* Layer::on_event for an event in span s.  The text goes through the thread's
\* buffer, is written and the buffer is cleared, also if formatting failed; a
\* formatter that panics leaves what it wrote.
OnEvent(acc, i, kind, s, times, how) ==
  LET n == layers.stack[i].n
      line == [on |-> acc.on, by |-> i, kind |-> kind, times |-> times, leftover |-> acc.buf,
               scope |-> [k \in DOMAIN ScopeOf(acc.spans, s) |->
                            Shown(acc.spans, ScopeOf(acc.spans, s)[k], n)]]
  IN  CASE how = "ok" -> [acc EXCEPT !.lines = Append(@, line), !.buf = FALSE]
        [] how = "error" -> [acc EXCEPT !.buf = FALSE]
        [] how = "panic" -> [acc EXCEPT !.buf = TRUE, !.unwinding = TRUE]

\* with_event_from_span! of an operation that the configuration shows.
SpanEvent(acc, i, shows, kind, s, times) ==
  IF shows THEN OnEvent(acc, i, kind, s, times, "ok") ELSE acc

NewTimings == [idle |-> 0, busy |-> 0, last |-> clock, count |-> 0]

\* FormattedFields<N> is made once for all the layers whose N it is.
FormatNew(acc, i, s, formats) ==
  LET n == layers.stack[i].n
  IN  IF acc.spans[s].fields[n] # NoFields \/ ~formats THEN acc
      ELSE [acc EXCEPT !.spans[s].fields[n] = <<"attributes">>]

OnNewSpan(acc, i, s, formats) ==
  LET l == layers.stack[i]
      a == FormatNew(acc, i, s, formats)
      b == IF Timed(l) /\ a.spans[s].timings = NoTimes
           THEN [a EXCEPT !.spans[s].timings = NewTimings] ELSE a
  IN  SpanEvent(b, i, traceNew(l), "new", s, NoTimes)

\* Mutant: the recorded value replaces the fields formatted before.
OnRecordFresh(acc, i, s, v) ==
  IF layers.stack[i].of = "error" THEN acc
  ELSE [acc EXCEPT !.spans[s].fields[layers.stack[i].n] = <<v>>]

\* add_fields appends; if formatting the attributes failed these are the first.
OnRecord(acc, i, s, v) ==
  IF layers.stack[i].of = "error" THEN acc
  ELSE [acc EXCEPT !.spans[s].fields[layers.stack[i].n] =
                     IF @ = NoFields THEN <<v>> ELSE Append(@, v)]

Idled(t) ==
  IF t.count # 0 THEN [t EXCEPT !.count = @ + 1]
  ELSE [idle |-> t.idle + clock - t.last, busy |-> t.busy, last |-> clock, count |-> 1]

OnEnter(acc, i, s) ==
  LET l == layers.stack[i]
      counts == (traceEnter(l) \/ Timed(l)) /\ acc.spans[s].timings # NoTimes
      a == IF counts THEN [acc EXCEPT !.spans[s].timings = Idled(@)] ELSE acc
  IN  SpanEvent(a, i, traceEnter(l), "enter", s, NoTimes)

\* Mutant: the time of the exit is not kept.
BusiedKeepsLast(t) ==
  IF t.count # 1 THEN [t EXCEPT !.count = @ - 1]
  ELSE [t EXCEPT !.busy = @ + clock - t.last, !.count = 0]

Busied(t) ==
  IF t.count # 1 THEN [t EXCEPT !.count = @ - 1]
  ELSE [idle |-> t.idle, busy |-> t.busy + clock - t.last, last |-> clock, count |-> 0]

OnExit(acc, i, s) ==
  LET l == layers.stack[i]
      counts == (traceExit(l) \/ Timed(l)) /\ acc.spans[s].timings # NoTimes
      a == IF counts THEN [acc EXCEPT !.spans[s].timings = Busied(@)] ELSE acc
  IN  SpanEvent(a, i, traceExit(l), "exit", s, NoTimes)

OnClose(acc, i, s) ==
  LET l == layers.stack[i]
      t == acc.spans[s].timings
      times == IF t = NoTimes THEN NoTimes
               ELSE [busy |-> t.busy, idle |-> t.idle + clock - t.last]
  IN  SpanEvent(acc, i, traceClose(l), "close", s, times)

\* An error layer writes nothing by itself.
OnEventOf(acc, i, s, how) ==
  IF layers.stack[i].of = "error" THEN acc ELSE OnEvent(acc, i, "event", s, NoTimes, how)

-----------------------------------------------------------------------------
(* The flame layer: one line per entry and exit, with the time since the   *)
(* thread's last one                                                       *)

FlameLine(t, stack) ==
  [on |-> t, by |-> 0, kind |-> "sample", scope |-> stack, time |-> clock - flameLast[t]]

\* FlameLayer::on_enter: the time before it belongs to the parent of s.
FlameEnter(t, s) ==
  IF ~layers.flame
  THEN <<>>
  ELSE IF ~layers.emptySamples /\ spans[s].parent = NoParent THEN <<>>
       ELSE <<FlameLine(t, ScopeOf(spans, spans[s].parent))>>

\* FlameLayer::on_exit: the time belongs to s; nothing is written in a panic.
FlameExit(t, s, panicking) ==
  IF ~layers.flame \/ panicking THEN <<>> ELSE <<FlameLine(t, ScopeOf(spans, s))>>

\* Mutant: the time is taken only if a line is written.
FlameTickSkips(t, wrote) ==
  flameLast' = IF wrote THEN [flameLast EXCEPT ![t] = clock] ELSE flameLast

\* time_since_last_event comes first, whether or not a line is written.
FlameTick(t, wrote) == flameLast' = [flameLast EXCEPT ![t] = clock]

-----------------------------------------------------------------------------
(* The operations of the subscriber: each calls the layers in order        *)

Before(t) == [on |-> t, spans |-> spans, lines |-> <<>>, buf |-> buf[t], unwinding |-> FALSE]

After(acc, t, sample) ==
  /\ spans' = acc.spans
  /\ lines' = acc.lines \o sample
  /\ buf' = [buf EXCEPT ![t] = acc.buf]

NewSpanIn(t, s, parent, formats) ==
  LET new == [open |-> TRUE, parent |-> parent, timings |-> NoTimes,
              fields |-> [n \in FieldTypes |-> NoFields],
              born |-> clock, within |-> 0, recorded |-> <<>>, formatted |-> formats]
      start == [Before(t) EXCEPT !.spans[s] = new]
  IN  /\ ~Open(s) /\ spans[s] = Unused
      /\ After(FoldLeftDomain(LAMBDA acc, i : OnNewSpan(acc, i, s, formats),
                              start, layers.stack), t, <<>>)
      /\ UNCHANGED <<layers, entered, clock, flameLast, changed, panicked>>

RecordIn(t, s, v) ==
  /\ Open(s) /\ Len(spans[s].recorded) < MaxRecords
  /\ After(FoldLeftDomain(LAMBDA acc, i : OnRecord(acc, i, s, v),
                          [Before(t) EXCEPT !.spans[s].recorded = Append(@, v)],
                          layers.stack), t, <<>>)
  /\ UNCHANGED <<layers, entered, clock, flameLast, changed, panicked>>

EnterSpan(t, s) ==
  /\ Open(s) /\ Entries < MaxDepth
  /\ entered' = [entered EXCEPT ![t] = Append(@, s)]
  /\ After(FoldLeftDomain(LAMBDA acc, i : OnEnter(acc, i, s), Before(t), layers.stack),
           t, FlameEnter(t, s))
  /\ FlameTick(t, FlameEnter(t, s) # <<>>)
  /\ changed' = [changed EXCEPT ![t] = clock]
  /\ UNCHANGED <<layers, clock, panicked>>

ExitSpan(t, s, panicking) ==
  /\ t \in Inside(s)
  /\ entered' = [entered EXCEPT ![t] = Without(@, s)]
  /\ After(FoldLeftDomain(LAMBDA acc, i : OnExit(acc, i, s), Before(t), layers.stack),
           t, FlameExit(t, s, panicking))
  /\ FlameTick(t, FlameExit(t, s, panicking) # <<>>)
  /\ changed' = [changed EXCEPT ![t] = clock]
  /\ UNCHANGED <<layers, clock, panicked>>

\* The last handle is dropped; threads inside and children hold references.
CloseSpan(t, s) ==
  /\ Open(s) /\ Inside(s) = {}
  /\ \A c \in Watched : Open(c) => spans[c].parent # s
  /\ After([FoldLeftDomain(LAMBDA acc, i : OnClose(acc, i, s), Before(t), layers.stack)
              EXCEPT !.spans[s].open = FALSE], t, <<>>)
  /\ UNCHANGED <<layers, entered, clock, flameLast, changed, panicked>>

\* An event in the thread's current span; formatting it may fail or panic (the
\* latter once on a thread).
EventIn(t, how) ==
  /\ how = "panic" => t \notin panicked
  /\ panicked' = IF how = "panic" THEN panicked \cup {t} ELSE panicked
  /\ LET step(acc, i) == IF acc.unwinding THEN acc
                         ELSE OnEventOf(acc, i, CurrentOf(entered[t]), how)
     IN  After(FoldLeftDomain(step, Before(t), layers.stack), t, <<>>)
  /\ UNCHANGED <<layers, entered, clock, flameLast, changed>>

\* SpanTrace::capture and its Display: the current span and its ancestors, the
\* innermost first, with the fields that the outermost error layer finds.
TraceIn(t) ==
  LET errors == {i \in DOMAIN layers.stack : layers.stack[i].of = "error"}
      scope == Reverse(ScopeOf(spans, CurrentOf(entered[t])))
      by == CHOOSE i \in errors : \A j \in errors : j <= i
      n == layers.stack[by].n
  IN  /\ errors # {} /\ scope # <<>>
      /\ lines' = <<[on |-> t, by |-> by, kind |-> "trace", times |-> NoTimes,
                     leftover |-> FALSE,
                     scope |-> [k \in DOMAIN scope |-> Shown(spans, scope[k], n)]]>>
      /\ UNCHANGED <<layers, spans, entered, clock, flameLast, buf, changed, panicked>>

\* Time passes: history within counts how long some thread was inside.
Tick ==
  /\ clock < MaxClock
  /\ clock' = clock + 1
  /\ spans' = [s \in Watched |->
                 IF Open(s) /\ Inside(s) # {} THEN [spans[s] EXCEPT !.within = @ + 1]
                 ELSE spans[s]]
  /\ lines' = <<>>
  /\ UNCHANGED <<layers, entered, flameLast, buf, changed, panicked>>

ObsInit ==
  /\ layers \in Stacks
  /\ spans = [s \in Watched |-> Unused]
  /\ entered = [t \in Threads |-> <<>>]
  /\ clock = 0
  /\ flameLast = [t \in Threads |-> 0]
  /\ buf = [t \in Threads |-> FALSE]
  /\ lines = <<>>
  /\ changed = [t \in Threads |-> 0]
  /\ panicked = {}

\* What concerns the fields and the lines: any call, while the clock stands.
FieldsNext(t) ==
  \/ \E s \in Watched :
       \/ \E p \in {NoParent} \cup {x \in Watched : Open(x)}, formats \in BOOLEAN :
            NewSpanIn(t, s, p, formats)
       \/ RecordIn(t, s, "value")
       \/ EnterSpan(t, s)
       \/ ExitSpan(t, s, FALSE)
       \/ CloseSpan(t, s)
  \/ \E how \in {"ok", "error", "panic"} : EventIn(t, how)
  \/ TraceIn(t)

\* What concerns time: spans that are entered on any thread as the clock runs.
\* Which thread creates and closes them makes no difference, so t does.
TimesNext(t) ==
  \/ Tick
  \/ \E s \in Watched :
       \/ \E p \in {NoParent} \cup {x \in Watched : Open(x)} : NewSpanIn(t, s, p, TRUE)
       \/ CloseSpan(t, s)
       \/ \E u \in Threads :
            \/ EnterSpan(u, s)
            \/ \E panicking \in BOOLEAN : ExitSpan(u, s, panicking)

-----------------------------------------------------------------------------
(* Properties                                                              *)

FmtLayers == {i \in DOMAIN layers.stack : layers.stack[i].of = "fmt"}

\* No two fmt layers use the same field formatter.
OwnFields ==
  \A i, j \in FmtLayers : layers.stack[i].n = layers.stack[j].n => i = j

\* Every fmt layer that counts entries counts exits.
CountAlike ==
  \A i \in FmtLayers :
    LET l == layers.stack[i] IN Timed(l) \/ (traceEnter(l) <=> traceExit(l))

FieldsOf(s, n) ==
  LET given == (IF spans[s].formatted THEN <<"attributes">> ELSE <<>>)
                 \o (IF \E i \in FmtLayers : layers.stack[i].n = n
                     THEN spans[s].recorded ELSE <<>>)
  IN  IF given = <<>> THEN NoFields ELSE given

\* A line, or the display of a SpanTrace, shows for each span of its scope every
\* value that the span was given so far, once and in order, however many layers
\* share the span's extensions (on_new_span, on_record); a SpanTrace shows
\* recorded values if a fmt layer shares its field formatter.  Two fmt layers with one field formatter do not.
LinesComplete ==
  OwnFields =>
    \A line \in Range(lines) : line.kind # "sample" =>
      \A shown \in Range(line.scope) :
        shown.fields = FieldsOf(shown.span, layers.stack[line.by].n)

\* A line holds the text of its own event only, unless a formatter panicked on
\* the thread: the buffer is cleared on every other way out of on_event.
LinesClean ==
  \A line \in Range(lines) :
    line.kind # "sample" /\ line.leftover => line.on \in panicked

\* The close line's time.busy is the time for which any thread was inside, and
\* with time.idle it makes up the span's life, however entries on several
\* threads, of one thread twice, and of several layers overlap.
TimesExact ==
  CountAlike =>
    \A line \in Range(lines) : line.kind = "close" /\ line.times # NoTimes =>
      LET s == Last(line.scope).span
      IN  /\ line.times.busy = spans[s].within
          /\ line.times.busy + line.times.idle = clock - spans[s].born

\* A flame sample is the time since the thread's last entry or exit, none of it
\* counted twice or lost; and it is that of the span the thread was in, if the
\* thread enters children of its current span and exits in order.
FlameExact ==
  [][\A line \in Range(lines') : line.kind = "sample" =>
       LET t == line.on
           was == CurrentOf(entered[t])
           now == entered'[t]
       IN  /\ line.time = clock - changed[t]
           /\ \/ Len(now) > Len(entered[t]) /\ spans[Last(now)].parent = was
              \/ Len(now) < Len(entered[t]) /\ \E s \in {was} : now = Without(entered[t], s)
              => line.scope = ScopeOf(spans, was)]_obsVars
=============================================================================
