-------------------------------- MODULE Macros --------------------------------
(***************************************************************************)
(* The event and span macros of tracing (tracing/src/macros.rs) as the     *)
(* rewriting that macro_rules does: which arm takes a call, what it is     *)
(* rewritten to, and the names and the values the last arm lists apart,    *)
(* which are matched by place when an event is recorded.                   *)
(*                                                                         *)
(* A call's tokens are elements with commas between them.  An element has  *)
(* a sigil ("", "?" or "%"), a head ("path" a.b, "lit" a literal, "const"  *)
(* an expression in braces, "expr" any other expression, "group" elements  *)
(* in braces) and maybe an assigned value with a sigil of its own.         *)
(***************************************************************************)
EXTENDS Integers, Sequences, SequencesExt, FiniteSets, FiniteSetsExt

Sigils == {"", "?", "%"}

Element(sigil, head, name) ==
  [sigil |-> sigil, head |-> head, name |-> name, assign |-> FALSE, vsigil |-> "",
   val |-> name, format |-> FALSE, inner |-> <<>>]
Assigned(head, name, vsigil, val) ==
  [Element("", head, name) EXCEPT !.assign = TRUE, !.vsigil = vsigil, !.val = val]
Group(els) == [Element("", "group", "") EXCEPT !.inner = els]

\* A call: its name:, target: and parent:, or Unset, the elements after them
\* and whether a comma follows the last.
Unset == "unset"
Call(name, target, parent, els, comma) ==
  [name |-> name, target |-> target, parent |-> parent, els |-> els, comma |-> comma]

CompileError == [kind |-> "error"]

-----------------------------------------------------------------------------
(* Names and values                                                        *)

Shape(e) == <<e.sigil, e.head, e.assign, e.vsigil>>

\* The recursive arms of fieldset!, each ending in the comma that its entry adds.
FieldArms ==
  ({""} \X {"path"} \X {TRUE} \X Sigils)
    \cup (Sigils \X {"path"} \X {FALSE} \X {""})
    \cup ({""} \X {"lit", "const"} \X {TRUE} \X Sigils)

\* The recursive arms of valueset_all! for an element that a comma follows, and
\* for the last one.
ValueArms ==
  ({""} \X {"path"} \X {TRUE} \X Sigils)
    \cup (Sigils \X {"path"} \X {FALSE} \X {""})
    \cup ({""} \X {"lit", "const"} \X {TRUE} \X Sigils)
LastValueArms ==
  ({""} \X {"path"} \X {TRUE} \X Sigils)
    \cup (Sigils \X {"path"} \X {FALSE} \X {""})
    \cup ({""} \X {"lit", "const"} \X {TRUE} \X Sigils)

\* The first element that no arm takes; what is left from there on.
Unparsable(els, taken) ==
  LET left == DOMAIN els \ taken
  IN  IF left = {} THEN Len(els) + 1 ELSE Min(left)

\* fieldset!: a remainder is format args, and named message.
Fieldset(els) ==
  LET n == Unparsable(els, {i \in DOMAIN els : Shape(els[i]) \in FieldArms})
      names == [i \in 1 .. n - 1 |-> els[i].name]
  IN  IF n > Len(els) THEN names ELSE <<"message">> \o names

\* What format_args! takes: a literal, then expressions, the named ones last.
FormatArgs(els) ==
  /\ els # <<>> /\ els[1].head = "lit" /\ ~els[1].assign
  /\ \A i \in DOMAIN els : els[i].sigil = "" /\ els[i].vsigil = "" /\ els[i].head # "group"
  /\ \A i \in DOMAIN els : els[i].assign => els[i].head = "path"
  /\ \A i, j \in DOMAIN els : i < j /\ els[i].assign => els[j].assign

Formatted(els) == [as |-> "format", of |-> "", args |-> els]

ValueOf(e) ==
  IF e.format THEN Formatted(e.inner)
  ELSE [as |-> IF e.assign THEN e.vsigil ELSE e.sigil, of |-> e.val, args |-> <<>>]

\* Mutant: the message comes after the values.
MessageLast(message, values) == values \o message

\* The remainder arm of valueset_all! puts the message before the values.
MessageFirst(message, values) == message \o values

\* valueset_all!.
ValuesetAll(els, comma) ==
  LET last(i) == i = Len(els) /\ ~comma
      taken == {i \in DOMAIN els :
                  Shape(els[i]) \in (IF last(i) THEN LastValueArms ELSE ValueArms)}
      n == Unparsable(els, taken)
      values == [i \in 1 .. n - 1 |-> ValueOf(els[i])]
  IN  IF n > Len(els) THEN values
      ELSE MessageFirst(<<Formatted(SubSeq(els, n, Len(els)))>>, values)

\* ValueSet::record of Values::All: the fields and the values, by place.
ByPlace(names, values) ==
  [i \in 1 .. (IF Len(names) < Len(values) THEN Len(names) ELSE Len(values)) |->
     <<names[i], values[i]>>]

\* The last arms of event! and span!, with callsite2!: the metadata and the values
\* of the same tokens.
Expanded(kind, level, x) ==
  LET values == ValuesetAll(x.els, x.comma)
      names == Fieldset(x.els)
  IN  IF \E v \in Range(values) : v.as = "format" /\ ~FormatArgs(v.args)
      THEN CompileError
      ELSE [kind |-> kind, level |-> level, name |-> x.name, target |-> x.target,
            parent |-> x.parent, fields |-> names, recorded |-> ByPlace(names, values),
            complete |-> Len(names) = Len(values)]

-----------------------------------------------------------------------------
(* event! and the macros of the levels                                     *)

\* { ... }, ...: a group, and then a comma.
GroupThen(x) == x.els # <<>> /\ x.els[1].head = "group" /\ (Len(x.els) > 1 \/ x.comma)
GroupThenArgs(x) == GroupThen(x) /\ Len(x.els) > 1
PathFirst(x) == x.els # <<>> /\ x.els[1].head = "path"

Braced(x) == [x EXCEPT !.els = <<Group(x.els)>>, !.comma = FALSE]
NoFields(x) == [x EXCEPT !.els = <<Group(<<>>)>> \o x.els]

\* { message = format_args!(...), fields }.
WithMessage(x) ==
  LET message == [Assigned("path", "message", "", "") EXCEPT !.format = TRUE,
                                                            !.inner = Tail(x.els)]
  IN  [x EXCEPT !.els = <<Group(<<message>> \o x.els[1].inner)>>, !.comma = FALSE]

\* The arms of event! with a name or a target.
EventArms(level, x) ==
  LET fields == CASE Len(x.els) = 1 /\ x.els[1].head = "group" /\ ~x.comma -> x
                  [] GroupThenArgs(x) -> WithMessage(x)
                  [] OTHER -> Braced(x)
      named == IF x.name = Unset THEN "event file:line" ELSE x.name
      target == IF x.target = Unset THEN "module_path" ELSE x.target
  IN  Expanded("event", level, [fields EXCEPT !.els = @[1].inner, !.name = named,
                                              !.target = target])

\* The arms with a parent only, and with nothing: they give the target.  (A field
\* alone is given the comma that its arm wants.)
EventAlone(level, x) ==
  EventArms(level, [(IF GroupThenArgs(x) THEN WithMessage(x) ELSE Braced(x))
                      EXCEPT !.target = "module_path"])

Event(level, x) ==
  IF x.name = Unset /\ x.target = Unset THEN EventAlone(level, x) ELSE EventArms(level, x)

\* The arms of trace! with a name or a target.
LevelArms(x) ==
  CASE GroupThen(x) -> x
    [] PathFirst(x) -> Braced(x)
    [] OTHER -> NoFields(x)

\* The arms of trace! with a parent only: a field must be followed by = or a comma.
LevelParent(x) ==
  CASE GroupThenArgs(x) /\ x.els[1].inner # <<>> -> x
    [] PathFirst(x) /\ (x.els[1].assign \/ Len(x.els) > 1 \/ x.comma) -> Braced(x)
    [] OTHER -> NoFields(x)

\* The arms of trace! with nothing.
LevelAlone(x) ==
  CASE GroupThenArgs(x) /\ x.els[1].inner # <<>> -> x
    [] PathFirst(x) -> Braced(x)
    [] OTHER -> x

LevelMacro(level, x) ==
  LET here == [x EXCEPT !.target = "module_path"]
  IN  CASE x.name # Unset \/ x.target # Unset -> Event(level, LevelArms(x))
        [] x.parent # Unset -> Event(level, LevelParent(here))
        [] OTHER -> Event(level, LevelAlone(here))

trace(x) == LevelMacro("TRACE", x)
debug(x) == LevelMacro("DEBUG", x)
info(x) == LevelMacro("INFO", x)
warn(x) == LevelMacro("WARN", x)
error(x) == LevelMacro("ERROR", x)

-----------------------------------------------------------------------------
(* span! and the macros of its levels, enabled!, record_all!               *)

\* span!: x.name is the name; an arm without fields adds the comma.
Span(level, x) ==
  LET target == IF x.target = Unset THEN "module_path" ELSE x.target
  IN  Expanded("span", level, [x EXCEPT !.target = target, !.comma = @ \/ x.els = <<>>])

SpanMacro(level, x) ==
  Span(level, IF x.target = Unset THEN [x EXCEPT !.target = "module_path"] ELSE x)

trace_span(x) == SpanMacro("TRACE", x)
debug_span(x) == SpanMacro("DEBUG", x)
info_span(x) == SpanMacro("INFO", x)
warn_span(x) == SpanMacro("WARN", x)
error_span(x) == SpanMacro("ERROR", x)

\* enabled!, and event_enabled! and span_enabled! with a kind: only the names of
\* the fields count, and the kind is a hint.
Enabled(kind, level, x) ==
  LET inBraces == kind # Unset /\ x.target # Unset /\ Len(x.els) = 1
                    /\ x.els[1].head = "group" /\ ~x.comma
      els == IF inBraces THEN x.els[1].inner ELSE x.els
  IN  [kind |-> {"hint"} \cup (IF kind = Unset THEN {} ELSE {kind}), level |-> level,
       target |-> IF x.target = Unset THEN "module_path" ELSE x.target,
       fields |-> Fieldset(els)]

\* FieldSet::field; FAKE_FIELD, which has a callsite of its own, if there is none.
FieldOf(names, name) ==
  LET at == {i \in DOMAIN names : names[i] = name}
  IN  IF at = {} THEN [callsite |-> "fake", i |-> 0] ELSE [callsite |-> "own", i |-> Min(at)]

\* record_all! with valueset!, which has the same arms and none for a remainder,
\* and ValueSet::record of Values::Explicit, which skips other callsites.
RecordAll(names, els) ==
  IF \E e \in Range(els) : Shape(e) \notin ValueArms THEN CompileError
  ELSE LET pairs == [i \in DOMAIN els |-> <<FieldOf(names, els[i].name), ValueOf(els[i])>>]
       IN  [kind |-> "record", pairs |-> SelectSeq(pairs, LAMBDA p : p[1].callsite = "own")]

-----------------------------------------------------------------------------
(* FieldName, of the characters of a path: "r#" before a raw identifier    *)

\* FieldName::len: two less for each '#'.
FieldNameLen(text) == Len(text) - 2 * Cardinality({i \in DOMAIN text : text[i] = "#"})

\* FieldName::new: the characters that are read, an "r#" having been skipped.
FieldNameNew(text) ==
  LET raw == {i \in DOMAIN text : i < Len(text) /\ text[i] = "r" /\ text[i + 1] = "#"}
      skipped == raw \cup {i + 1 : i \in raw}
  IN  [i \in 1 .. Len(text) - Cardinality(skipped) |->
         text[CHOOSE j \in DOMAIN text \ skipped :
                Cardinality((1 .. j) \ skipped) = i]]

-----------------------------------------------------------------------------
(* What a call means                                                       *)

\* What is written: options, fields, maybe in braces, then a message's format
\* arguments (none if empty).
CallOf(w) ==
  Call(w.name, w.target, w.parent,
       (IF w.braced THEN <<Group(w.fields)>> ELSE w.fields) \o w.message, w.comma)

\* The field's own value is recorded under its own name, the message first.
MeantPairs(w) ==
  (IF w.message = <<>> THEN <<>> ELSE <<<<"message", Formatted(w.message)>>>>)
    \o [i \in DOMAIN w.fields |-> <<w.fields[i].name, ValueOf(w.fields[i])>>]

MeantEvent(level, w) ==
  [kind |-> "event", level |-> level,
   name |-> IF w.name = Unset THEN "event file:line" ELSE w.name,
   target |-> IF w.target = Unset THEN "module_path" ELSE w.target, parent |-> w.parent,
   fields |-> [i \in DOMAIN MeantPairs(w) |-> MeantPairs(w)[i][1]],
   recorded |-> MeantPairs(w), complete |-> TRUE]

\* The ways of writing an event that every macro takes: a message alone, fields
\* in braces before a message, and fields of which the first is a path (and, if
\* it is all there is, has a value).
Plain(w) ==
  CASE w.fields = <<>> -> ~w.braced /\ w.message # <<>>
    [] w.braced -> w.message # <<>>
    [] OTHER -> w.fields[1].head = "path" /\ (w.fields[1].assign \/ Len(w.fields) > 1)

\* Whatever the options, the braces and the sigils, a call of event! or of a
\* level's macro that compiles is the event that was written: its options or their
\* defaults, and under each name the value of that name, though fieldset! and
\* valueset_all! list them apart; and every plain call compiles.
EventMeant(w) ==
  LET x == CallOf(w)
      made(got, level) == got \in {CompileError, MeantEvent(level, w)}
  IN  /\ made(Event("INFO", x), "INFO")
      /\ made(trace(x), "TRACE") /\ made(debug(x), "DEBUG") /\ made(info(x), "INFO")
      /\ made(warn(x), "WARN") /\ made(error(x), "ERROR")
      /\ Plain(w) => CompileError \notin {Event("INFO", x), info(x)}

\* span! and its levels' macros take every way of writing the fields, and make the
\* span that was written.
SpanMeant(w) ==
  LET meant(level) == [MeantEvent(level, w) EXCEPT !.kind = "span", !.name = w.name]
      x == CallOf(w)
  IN  ~w.braced =>
        /\ Span("WARN", x) = meant("WARN")
        /\ trace_span(x) = meant("TRACE") /\ debug_span(x) = meant("DEBUG")
        /\ info_span(x) = meant("INFO") /\ warn_span(x) = meant("WARN")
        /\ error_span(x) = meant("ERROR")

\* enabled! asks about the very field names that the event itself would have.
EnabledMeant(w) ==
  LET x == CallOf(w)
  IN  ~w.braced /\ info(x) # CompileError =>
        \A kind \in {Unset, "event", "span"} :
          LET asked == Enabled(kind, "INFO", x)
          IN  /\ asked.fields = info(x).fields /\ asked.target = info(x).target
              /\ "hint" \in asked.kind /\ (kind = Unset \/ kind \in asked.kind)

\* record_all! records the value of each name that the span has, and of no other.
RecordMeant(names, els) ==
  LET known == SelectSeq(els, LAMBDA e : e.name \in Range(names))
      got == RecordAll(names, els)
  IN  got # CompileError =>
        /\ Len(got.pairs) = Len(known)
        /\ \A i \in DOMAIN known :
             /\ names[got.pairs[i][1].i] = known[i].name
             /\ got.pairs[i][2] = ValueOf(known[i])

\* A path's name is its identifiers without their r#, and FieldName::len is its
\* length, which FieldName::new asserts.  segments: the identifiers, raw or not.
NameMeant(segments) ==
  LET join(parts) == Tail(FlattenSeq([i \in DOMAIN parts |-> <<".">> \o parts[i]]))
      text == join([i \in DOMAIN segments |->
                     (IF segments[i].raw THEN <<"r", "#">> ELSE <<>>) \o segments[i].id])
  IN  /\ FieldNameNew(text) = join([i \in DOMAIN segments |-> segments[i].id])
      /\ FieldNameLen(text) = Len(FieldNameNew(text))
=============================================================================
