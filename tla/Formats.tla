------------------------------- MODULE Formats -------------------------------
(***************************************************************************)
(* What a fmt subscriber writes for an event: the builders that choose its *)
(* options (fmt/mod.rs, fmt/fmt_layer.rs, fmt/format/mod.rs), the visitors *)
(* that write fields, and the four formats Full, Compact, Pretty and Json. *)
(*                                                                         *)
(* Text is a sequence of tokens <<kind, what>>; those of kind "sep" are    *)
(* blanks and punctuation.  Colours are left out.  A field is a record of  *)
(* its name, the name without r#, whether it starts with log., how it is   *)
(* visited ("prim", "debug", "error" or "sources": an error with sources)  *)
(* and whether its Debug implementation fails.                             *)
(***************************************************************************)
EXTENDS Integers, Sequences, FiniteSets, SequencesExt

CONSTANT Absent  \* no file, line or thread name

Sep(text) == <<"sep", text>>
Blank == <<Sep(" ")>>
When(condition, text) == IF condition THEN text ELSE <<>>

-----------------------------------------------------------------------------
(* Format<F, T>                                                            *)

FormatDefault ==
  [format |-> "full", timestamp |-> TRUE, target |-> TRUE, level |-> TRUE,
   threadId |-> FALSE, threadName |-> FALSE, filename |-> FALSE, lineNumber |-> FALSE,
   flatten |-> FALSE, current |-> TRUE, list |-> TRUE, timer |-> TRUE]

Compact(f) == [f EXCEPT !.format = "compact"]

Pretty(f) == [f EXCEPT !.format = "pretty", !.filename = TRUE, !.lineNumber = TRUE]

\* The format itself is a new one.
Json(f) == [f EXCEPT !.format = "json", !.flatten = FALSE, !.current = TRUE, !.list = TRUE]

\* Whether the time is shown stays as it is: also with a timer given after
\* without_time there is none.
WithTimer(f) == [f EXCEPT !.timer = TRUE]

\* The timer is ().
WithoutTime(f) == [f EXCEPT !.timestamp = FALSE, !.timer = FALSE]

\* with_target, with_level, with_thread_ids, with_thread_names, with_file,
\* with_line_number.
With(f, option, on) == [f EXCEPT ![option] = on]

\* The methods of Format<Json, T>.
WithJson(f, option, on) == [f EXCEPT ![option] = on]

-----------------------------------------------------------------------------
(* Layer<S, N, E, W> and SubscriberBuilder<N, E, F, W>                     *)

LayerDefault ==
  [event |-> FormatDefault, fields |-> "default", kind |-> {}, timing |-> TRUE,
   ansi |-> TRUE, sanitize |-> TRUE, errors |-> FALSE]

\* A call is <<method, argument>>.
Methods == {"compact", "pretty", "json", "with_timer", "without_time"}
Options == {"target", "level", "threadId", "threadName", "filename", "lineNumber"}
JsonOptions == {"flatten", "current", "list"}

LayerCall(l, call) ==
  LET method == call[1]
      on == call[2]
  IN  CASE method = "compact" -> [l EXCEPT !.event = Compact(@)]
        [] method = "pretty" -> [l EXCEPT !.event = Pretty(@), !.fields = "pretty"]
        [] method = "json" -> [l EXCEPT !.event = Json(@), !.fields = "json", !.ansi = FALSE]
        [] method = "with_timer" -> [l EXCEPT !.event = WithTimer(@)]
        [] method = "without_time" -> [l EXCEPT !.event = WithoutTime(@), !.timing = FALSE]
        [] method \in Options -> [l EXCEPT !.event = With(@, method, on)]
        [] method \in JsonOptions ->
             [l EXCEPT !.event = WithJson(@, method, on), !.fields = "json"]

\* with_span_events, with_ansi, with_ansi_sanitization, log_internal_errors.
LayerSet(l, call) ==
  CASE call[1] = "with_span_events" -> [l EXCEPT !.kind = call[2]]
    [] call[1] = "with_ansi" -> [l EXCEPT !.ansi = call[2]]
    [] call[1] = "with_ansi_sanitization" -> [l EXCEPT !.sanitize = call[2]]
    [] call[1] = "log_internal_errors" -> [l EXCEPT !.errors = call[2]]

BuilderDefault == [filter |-> "INFO", inner |-> [LayerDefault EXCEPT !.errors = TRUE]]

Filters == {"with_max_level", "with_env_filter"}
Sets == {"with_span_events", "with_ansi", "with_ansi_sanitization", "log_internal_errors"}

\* A method of the builder is the layer's, or replaces the filter.
BuilderSetFilter(b, call) == [b EXCEPT !.filter = call[2]]
BuilderCall(b, call) ==
  CASE call[1] \in Filters -> BuilderSetFilter(b, call)
    [] call[1] \in Sets -> [b EXCEPT !.inner = LayerSet(@, call)]
    [] OTHER -> [b EXCEPT !.inner = LayerCall(@, call)]

\* The methods that a builder of this type has: those of Json need the format.
Callable(b, call) == call[1] \in JsonOptions => b.inner.event.format = "json"

-----------------------------------------------------------------------------
(* Fields                                                                  *)

\* The value of a field, with the sources of an error.
ValueText(f, apart) ==
  <<<<"value", f.bare>>>> \o When(f.how = "sources", <<Sep(apart), <<"sources", f.name>>>>)

\* DefaultVisitor::record_debug, which the other methods end in.
DefaultVisit(v, f) ==
  IF ~v.ok \/ f.log THEN v
  ELSE [text |-> v.text \o When(~v.empty, Blank)
                   \o When(f.name # "message", <<<<"name", f.bare>>, Sep("=")>>)
                   \o ValueText(f, " "),
        empty |-> FALSE, ok |-> ~f.fails]

\* PrettyVisitor::record_debug.
PrettyVisit(v, f) ==
  IF ~v.ok \/ f.log THEN v
  ELSE [text |-> v.text \o When(~v.empty, <<Sep(", ")>>)
                   \o When(f.name # "message", <<<<"name", f.bare>>, Sep(": ")>>)
                   \o ValueText(f, ", "),
        empty |-> FALSE, ok |-> ~f.fails]

\* JsonVisitor: a map of the last values by name, here the names that it has (in
\* the order of the last insertions, where the map's is that of the names).
JsonVisit(names, f) ==
  LET key == IF f.how = "prim" THEN f.name ELSE f.bare
  IN  IF f.log /\ f.how # "prim" THEN names ELSE Append(SelectSeq(names, LAMBDA k : k # key), key)

\* Its finish, and serde_json's reading of that.
JsonObject(names) ==
  <<Sep("{")>>
    \o FlattenSeq([i \in DOMAIN names |->
                     When(i > 1, <<Sep(",")>>)
                       \o <<<<"name", names[i]>>, Sep(":"), <<"value", names[i]>>>>])
    \o <<Sep("}")>>
JsonNames(text) ==
  LET names == SelectSeq(text, LAMBDA t : t[1] = "name")
  IN  [i \in DOMAIN names |-> names[i][2]]

Visitor(text, empty) == [text |-> text, empty |-> empty, ok |-> TRUE]

\* FormatFields::format_fields of the field formatters N.
FormatFields(n, fields) ==
  CASE n = "default" -> FoldLeft(DefaultVisit, Visitor(<<>>, TRUE), fields)
    [] n = "pretty" -> FoldLeft(PrettyVisit, Visitor(<<>>, TRUE), fields)
    [] n = "json" -> Visitor(JsonObject(FoldLeft(JsonVisit, <<>>, fields)), FALSE)

\* FormatFields::add_fields of each: the default, for DefaultFields, sets them apart
\* by a blank; Pretty's visitor goes on; Json's text is read back and goes on from that.
DefaultAddFields(text, fields) ==
  text \o When(text # <<>>, Blank) \o FormatFields("default", fields).text

\* Mutant: the visitor of a recording starts as if nothing was written.
PrettyAddFresh(text, fields) == FoldLeft(PrettyVisit, Visitor(text, TRUE), fields).text
PrettyAddFields(text, fields) == FoldLeft(PrettyVisit, Visitor(text, text = <<>>), fields).text

JsonAddFields(text, fields) == JsonObject(FoldLeft(JsonVisit, JsonNames(text), fields))

\* on_record's FormatFields::add_fields.
AddFields(n, text, fields) ==
  CASE n = "default" -> DefaultAddFields(text, fields)
    [] n = "pretty" -> PrettyAddFields(text, fields)
    [] n = "json" -> JsonAddFields(text, fields)

\* FormattedFields<N> of a span: its attributes, then what was recorded.  A span
\* is [name, given], given the fields of its creation and of each record.
FormattedFields(n, span) ==
  FoldLeft(LAMBDA text, fields : AddFields(n, text, fields),
           FormatFields(n, Head(span.given)).text, Tail(span.given))

-----------------------------------------------------------------------------
(* Events.  An event is                                                    *)
(* [parent, explicit, current, meta, fields, thread, timed]:               *)
(* parent is "current", "root" or "explicit", explicit and current are the *)
(* scopes, from the root, of the given parent and of the current span;     *)
(* timed is whether the timer can tell the time.                           *)

\* FmtContext::event_scope.
EventScope(e) ==
  CASE e.parent = "current" -> e.current
    [] e.parent = "root" -> <<>>
    [] e.parent = "explicit" -> e.explicit

\* event.parent().and_then(..).or_else(|| lookup_current()).
ParentOrCurrent(e) == IF e.parent = "explicit" THEN e.explicit ELSE e.current

\* A timer may fail: then so the text says.
Time(e) == <<"time", IF e.timed THEN "now" ELSE "unknown">>
FormatTimestamp(f, e) == When(f.timestamp, <<Time(e), Sep(" ")>>)
FmtLevel(f) == When(f.level, <<<<"level", "">>, Sep(" ")>>)

\* The name of the thread, or its id if it has none and ids are not shown.
Thread(f, e) ==
  When(f.threadName /\ e.thread # Absent, <<<<"thread", e.thread>>, Sep(" ")>>)
    \o When(f.threadName /\ e.thread = Absent /\ ~f.threadId,
            <<<<"thread id", "">>, Sep(" ")>>)
    \o When(f.threadId, <<<<"thread id", "">>, Sep(" ")>>)

Line(f, e) == IF f.lineNumber THEN e.meta.line ELSE Absent

Target(e) == <<<<"target", e.meta.target>>, Sep(":")>>

Output(text, ok) == [text |-> text, ok |-> ok]

\* Format<Full, T>::format_event.
FullSpan(n, span) ==
  LET fields == FormattedFields(n, span)
  IN  <<<<"span", span.name>>>> \o When(fields # <<>>, <<Sep("{")>> \o fields \o <<Sep("}")>>)
        \o <<Sep(":")>>

FormatFull(f, n, e) ==
  LET scope == EventScope(e)
      line == Line(f, e)
      shown == FormatFields(n, e.fields)
  IN  Output(FormatTimestamp(f, e) \o FmtLevel(f) \o Thread(f, e)
               \o FlattenSeq([i \in DOMAIN scope |-> FullSpan(n, scope[i])])
               \o When(scope # <<>>, Blank)
               \o When(f.target, Target(e) \o Blank)
               \o When(f.filename /\ e.meta.file # Absent,
                       <<<<"file", e.meta.file>>, Sep(":")>> \o When(line = Absent, Blank))
               \o When(line # Absent, <<<<"line", line>>, Sep(": ")>>)
               \o shown.text \o <<Sep("\n")>>,
             shown.ok)

\* FmtCtx: the names of the spans.
FmtCtx(e) ==
  LET scope == ParentOrCurrent(e)
  IN  FlattenSeq([i \in DOMAIN scope |-> <<<<"span", scope[i].name>>, Sep(":")>>])
        \o When(scope # <<>>, Blank)

FormatCompact(f, n, e) ==
  LET scope == EventScope(e)
      file == f.filename /\ e.meta.file # Absent
      line == Line(f, e)
      shown == FormatFields(n, e.fields)
  IN  Output(FormatTimestamp(f, e) \o FmtLevel(f) \o Thread(f, e) \o FmtCtx(e)
               \o When(f.target, Target(e))
               \o When(file, When(f.target, Blank) \o <<<<"file", e.meta.file>>, Sep(":")>>)
               \o When(line # Absent, <<<<"line", line>>, Sep(":")>>)
               \o When(f.target \/ file \/ line # Absent, Blank)
               \o shown.text
               \o FlattenSeq([i \in DOMAIN scope |->
                                LET fields == FormattedFields(n, scope[i])
                                IN  When(fields # <<>>, Blank \o fields)])
               \o <<Sep("\n")>>,
             shown.ok)

\* Format<Pretty, T>::format_event: the line of the event, one of where it is, and
\* one for each span from the innermost out.
PrettySpan(f, n, span) ==
  LET fields == FormattedFields(n, span)
  IN  <<Sep("    in ")>> \o When(f.target, <<<<"span target", span.name>>, Sep("::")>>)
        \o <<<<"span", span.name>>>> \o When(fields # <<>>, <<Sep(" with ")>> \o fields)
        \o <<Sep("\n")>>

PrettyThread(f, e) ==
  LET named == f.threadName /\ e.thread # Absent
  IN  <<Sep("on ")>>
        \o When(named, <<<<"thread", e.thread>>>> \o When(f.threadId, Blank))
        \o When(f.threadId, <<<<"thread id", "">>>>)
        \o <<Sep("\n")>>

FormatPretty(f, n, e) ==
  LET scope == Reverse(ParentOrCurrent(e))
      line == Line(f, e)
      shown == FormatFields("pretty", e.fields)
      thread == f.threadName \/ f.threadId
      file == f.filename /\ e.meta.file # Absent
      place == IF file
               THEN <<Sep("    at "), <<"file", e.meta.file>>>>
                      \o When(line # Absent, <<Sep(":"), <<"line", line>>>>)
                      \o <<Sep(IF thread THEN " " ELSE "\n")>>
               ELSE When(thread, <<Sep("    ")>>)
  IN  Output(<<Sep("  ")>> \o FormatTimestamp(f, e) \o FmtLevel(f) \o When(f.target, Target(e))
               \o When(line # Absent /\ ~f.filename, <<<<"line", line>>, Sep(":")>>)
               \o Blank \o shown.text \o <<Sep("\n")>>
               \o place \o When(thread, PrettyThread(f, e))
               \o FlattenSeq([i \in DOMAIN scope |-> PrettySpan(f, n, scope[i])])
               \o <<Sep("\n")>>,
             shown.ok)

-----------------------------------------------------------------------------
(* Json: a sequence of entries <<key, tokens of the value>>                *)

\* tracing_serde's SerdeMapVisitor: every field, under its name, until one fails.
SerdeVisit(v, f) ==
  IF ~v.ok THEN v
  ELSE [v EXCEPT !.text = Append(@, <<f.name, <<<<"name", f.name>>>>>>), !.ok = ~f.fails]

SerdeMap(fields) == FoldLeft(SerdeVisit, Visitor(<<>>, TRUE), fields)

\* SerializableSpan: the fields, then the name.
JsonSpan(n, span) ==
  LET names == JsonNames(FormattedFields(n, span))
  IN  Append([i \in DOMAIN names |-> <<"name", names[i]>>], <<"span", span.name>>)

\* SerializableContext: the current span's scope, whatever the event's parent.
JsonSpans(n, e) == FlattenSeq([i \in DOMAIN e.current |-> JsonSpan(n, e.current[i])])

\* The timer is asked first, shown or not, and its failure is the event's.
FormatJson(f, n, e) ==
  LET span == IF f.current \/ f.list THEN ParentOrCurrent(e) ELSE <<>>
      shown == SerdeMap(e.fields)
      values == FlattenSeq([i \in DOMAIN shown.text |-> shown.text[i][2]])
      entry(key, what) == <<<<key, <<<<key, what>>>>>>>>
  IN  Output(When(f.timestamp, <<<<"time", <<Time(e)>>>>>>) \o When(f.level, entry("level", ""))
               \o (IF f.flatten THEN shown.text ELSE <<<<"fields", values>>>>)
               \o When(f.target, entry("target", e.meta.target))
               \o When(f.filename /\ e.meta.file # Absent, entry("file", e.meta.file))
               \o When(Line(f, e) # Absent, entry("line", Line(f, e)))
               \o When(f.current /\ span # <<>>, <<<<"span", JsonSpan(n, Last(span))>>>>)
               \o When(f.list /\ span # <<>>, <<<<"spans", JsonSpans(n, e)>>>>)
               \o When(f.threadName /\ e.thread # Absent, entry("thread", e.thread))
               \o When(f.threadName /\ e.thread = Absent /\ ~f.threadId,
                       <<<<"thread", <<<<"thread id", "">>>>>>>>)
               \o When(f.threadId, entry("thread id", "")),
             shown.ok /\ (f.timer => e.timed))

\* The text formats; Json has entries.
FormatText(f, n, e) ==
  CASE f.format = "full" -> FormatFull(f, n, e)
    [] f.format = "compact" -> FormatCompact(f, n, e)
    [] f.format = "pretty" -> FormatPretty(f, n, e)

-----------------------------------------------------------------------------
(* Properties                                                              *)

Occurs(text, t) == Cardinality({i \in DOMAIN text : text[i] = t})
SameTokens(a, b) == \A t \in ToSet(a) \cup ToSet(b) : Occurs(a, t) = Occurs(b, t)
Shown(text) == SelectSeq(text, LAMBDA t : t[1] # "sep")
Each(f(_), s) == FlattenSeq([i \in DOMAIN s |-> f(s[i])])

\* What is to be seen of a field, a span, the thread and the place.
FieldTokens(f) ==
  When(~f.log, When(f.name # "message", <<<<"name", f.bare>>>>) \o Shown(ValueText(f, " ")))
SpanTokens(span) == <<<<"span", span.name>>>> \o Each(FieldTokens, FlattenSeq(span.given))
ThreadTokens(f, e) ==
  When(f.threadName /\ e.thread # Absent, <<<<"thread", e.thread>>>>)
    \o When(f.threadId \/ (f.threadName /\ e.thread = Absent /\ f.format # "pretty"),
            <<<<"thread id", "">>>>)

\* With its file shown, Pretty has the line number beside it or not at all.
LineShown(f, e) ==
  /\ f.lineNumber /\ e.meta.line # Absent
  /\ f.format = "pretty" /\ f.filename => e.meta.file # Absent

MetaTokens(f, e) ==
  When(f.timestamp, <<Time(e)>>) \o When(f.level, <<<<"level", "">>>>)
    \o When(f.target, <<<<"target", e.meta.target>>>>)
    \o When(f.filename /\ e.meta.file # Absent, <<<<"file", e.meta.file>>>>)
    \o When(LineShown(f, e), <<<<"line", e.meta.line>>>>)
    \o ThreadTokens(f, e)

\* Two things are never written without a separator between them.
Separated(text) ==
  \A i \in 1 .. Len(text) - 1 : text[i][1] = "sep" \/ text[i + 1][1] = "sep"

\* format_event of the text formats: with every option, the line shows exactly what
\* is asked for and the event has, in each of the formats; it fails if and only if
\* a field does.  (An event without a parent: only Full leaves the current span out,
\* as EventScope says; Compact then has the names of the spans without fields.)
LineMeant(f, e) ==
  LET n == IF f.format = "pretty" THEN "pretty" ELSE "default"
      line == FormatText(f, n, e)
      scope == IF f.format = "full" THEN EventScope(e) ELSE ParentOrCurrent(e)
      meant == MetaTokens(f, e) \o Each(SpanTokens, scope) \o Each(FieldTokens, e.fields)
      spanTargets == When(f.format = "pretty" /\ f.target,
                          [i \in DOMAIN scope |-> <<"span target", scope[i].name>>])
  IN  /\ line.ok <=> \A field \in ToSet(e.fields) : ~field.fails
      /\ line.ok /\ (f.format = "compact" => e.parent # "root") =>
           SameTokens(Shown(line.text), meant \o spanTargets)
      /\ line.ok => Separated(line.text)

\* The last value of every name, and the span's name.
SpanKeys(span) ==
  {<<"span", span.name>>}
    \cup {<<"name", IF f.how = "prim" THEN f.name ELSE f.bare>> :
             f \in {x \in ToSet(FlattenSeq(span.given)) : ~(x.log /\ x.how # "prim")}}

\* Format<Json>::format_event: the object has the same things as a line of text, the
\* fields under their names, the span and the list of the current spans; its keys
\* differ, but for flattened fields that are named like one of them.
ObjectMeant(f, e) ==
  LET object == FormatJson(f, "json", e)
      keys == {object.text[i][1] : i \in DOMAIN object.text}
      at(key) == IF key \in keys
                 THEN object.text[CHOOSE i \in DOMAIN object.text : object.text[i][1] = key][2]
                 ELSE <<>>
      fields == [i \in DOMAIN e.fields |-> <<"name", e.fields[i].name>>]
      top == FlattenSeq([i \in DOMAIN object.text |->
                           IF object.text[i][1] \in {"span", "spans"} THEN <<>>
                           ELSE object.text[i][2]])
      scope == ParentOrCurrent(e)
  IN  /\ object.ok <=> (f.timer => e.timed) /\ \A field \in ToSet(e.fields) : ~field.fails
      /\ object.ok =>
           /\ SameTokens(top, MetaTokens(f, e) \o fields)
           /\ ToSet(at("span")) = IF f.current /\ scope # <<>> THEN SpanKeys(Last(scope)) ELSE {}
           /\ Len(at("span")) = Cardinality(ToSet(at("span")))
           /\ ToSet(at("spans")) =
                IF f.list /\ scope # <<>> THEN UNION {SpanKeys(s) : s \in ToSet(e.current)} ELSE {}
           /\ ~f.flatten => Cardinality(keys) = Len(object.text)

\* The calls that decide an option: its own method, and a format that sets it.
Decided(calls, option, formats, default, set) ==
  LET about == {i \in DOMAIN calls : calls[i][1] = option \/ calls[i][1] \in formats}
      i == CHOOSE i \in about : \A j \in about : j <= i
  IN  IF about = {} THEN default ELSE IF calls[i][1] = option THEN calls[i][2] ELSE set

Built(calls) == FoldLeft(BuilderCall, BuilderDefault, calls)

\* The type system allows the calls.
Typed(calls) ==
  \A i \in DOMAIN calls : Callable(Built(SubSeq(calls, 1, i - 1)), calls[i])

Called(calls, methods) == {i \in DOMAIN calls : calls[i][1] \in methods}
LastName(calls, methods, default) ==
  LET is == Called(calls, methods)
  IN  IF is = {} THEN default ELSE calls[CHOOSE i \in is : \A j \in is : j <= i][1]

\* Every option of a built subscriber is what its last call asked for: a change of the
\* format or the timer in between keeps it (Format::compact, pretty, json, with_timer
\* and the builders around them), but pretty turns the location on, json starts with
\* its own options and without colours, and the time is gone for good.
BuilderMeant(calls) ==
  Typed(calls) =>
    LET b == Built(calls)
        f == b.inner.event
        untimed == Called(calls, {"without_time"}) # {}
    IN  /\ \A option \in Options :
             f[option] = Decided(calls, option,
                                 IF option \in {"filename", "lineNumber"} THEN {"pretty"} ELSE {},
                                 FormatDefault[option], TRUE)
        /\ f.format = LastName(calls, {"compact", "pretty", "json"}, "full")
        /\ f.format = "json" =>
             \A option \in JsonOptions :
               f[option] = Decided(calls, option, {"json"}, TRUE, option # "flatten")
        /\ f.timer = (LastName(calls, {"with_timer", "without_time"}, "") # "without_time")
        /\ f.timestamp = ~untimed /\ b.inner.timing = ~untimed
        /\ b.inner.ansi = Decided(calls, "with_ansi", {"json"}, TRUE, FALSE)
        /\ b.inner.sanitize = Decided(calls, "with_ansi_sanitization", {}, TRUE, TRUE)
        /\ b.inner.errors = Decided(calls, "log_internal_errors", {}, TRUE, TRUE)
        /\ b.inner.kind = Decided(calls, "with_span_events", {}, {}, {})
        /\ b.inner.fields = LastName(calls, {"pretty", "json"}, "default")
        /\ b.filter = IF Called(calls, Filters) = {} THEN "INFO"
                      ELSE calls[CHOOSE i \in Called(calls, Filters) :
                                   \A j \in Called(calls, Filters) : j <= i][2]
=============================================================================
