----------------------------- MODULE MCAlgorithms -----------------------------
(***************************************************************************)
(* The algorithms of the workspace in which no two threads meet.  Those    *)
(* that keep no state are checked on every input of a small domain: a step *)
(* picks one of them and an input for it.  The others take their steps.    *)
(***************************************************************************)
EXTENDS Filters, Directives, SpanStack, TLC

CONSTANTS
  c0, c1, Absent,
  Watched, Threads, FieldTypes, Stacks, MaxClock, MaxRecords, MaxDepth,
  Tokens

VARIABLES
  input,
  layers, spans, entered, clock, flameLast, buf, lines, changed, panicked,
  mock, world, heard

Obs == INSTANCE Observers
Mac == INSTANCE Macros
Wri == INSTANCE Writers
Cal == INSTANCE DateTime
Log == INSTANCE LogRecords
For == INSTANCE Formats
Val == INSTANCE Values

None == [of |-> "none"]

-----------------------------------------------------------------------------
(* Filters: two levels, one context besides none                           *)

Low == [level |-> 2]
MCMetas == {Low, [level |-> 4]}
MCContexts == {c0, c1}
MCGiven ==
  {[m \in MCMetas |-> [c \in MCContexts |-> TRUE]],
   [m \in MCMetas |-> [c \in MCContexts |-> m = Low]],
   [m \in MCMetas |-> [c \in MCContexts |-> m = Low /\ c = c1]],
   [m \in MCMetas |-> [c \in MCContexts |-> c = c0]]}

\* Bound: the filters that a program makes.
MaxBuilt == 3

-----------------------------------------------------------------------------
(* Directives                                                              *)

TextsUpTo(alphabet, n) == UNION {[1 .. k -> alphabet] : k \in 0 .. n}

\* a, 1, = and the brackets.
Texts == TextsUpTo({97, 49, Equal, LSquare, RSquare, LBrace, RBrace}, 5)

\* Pieces of what Targets reads: a, 1, =, the comma, [{ and }].
TargetTexts ==
  {FlattenSeq(pieces) :
     pieces \in TextsUpTo({<<97>>, <<49>>, <<Equal>>, <<Comma>>, <<LSquare, LBrace>>,
                          <<RBrace, RSquare>>}, 5)}

Names == {<<97>>, <<97, 98>>}
Values == {NoPattern, Value("u64", <<7>>), Value("i64", <<1>>), Value("bool", <<2001>>),
           Value("nan", <<NaNName>>), Value("f64", <<3000>>), Value("pat", <<98, 98>>)}

EnvDirectives ==
  [target : Names \cup {NoTarget}, span : Names \cup {NoName}, level : {0, 3, 5},
   fields : {<<>>} \cup {<<[name |-> n, value |-> v]>> : n \in Names, v \in Values}
              \cup {<<[name |-> <<97>>, value |-> v], [name |-> <<98>>, value |-> w]>> :
                      v \in Values, w \in {NoPattern, Value("u64", <<12>>)}}]

\* The ways to write a directive: with its level's name or number, with no
\* level if that is trace, and with the '=' alone.
Spellings(d) ==
  LET shown == Display(d)
      bare == SubSeq(shown, 1, Len(shown) - 1)
  IN  {shown, bare \o <<48 + d.level>>}
        \cup (IF d.level = 5 /\ bare # <<>>
              THEN {bare, SubSeq(bare, 1, Len(bare) - 1)} ELSE {})

\* Directive::parse reads every way of writing a directive (env/mod.rs: any
\* portion can be omitted, without a level it is trace) as that directive.
DirectiveRead ==
  input.of = "directive" =>
    \A text \in Spellings(input.directive) : Parse(text, TRUE) = Ok(input.directive)

\* What Directive::parse made of a text is displayed as a text that it makes the
\* same of: EnvFilter's Display can be given to a Builder.
DisplayRead ==
  input.of = "text" =>
    \A d \in Range(Parse(input.text, TRUE)) : Parse(Display(d), TRUE) = Ok(d)

\* The same of Targets::from_str and its Display, for the forms it documents: a
\* target that is written without a level has no bracket.  (A level that a later
\* directive replaced still counts for the maximum level, so that may differ.)
TargetsRead ==
  /\ input.of = "targets text"
  /\ \A part \in Range(Split(input.text, Comma)) :
       LSquare \in Range(part) => Equal \in Range(part)
  => \A t \in Range(TargetsFrom(input.text)) :
      \A again \in Range(TargetsFrom(TargetsText(t))) :
           again.directives = t.directives

\* Calls of with_target and with_default (NoTarget), and what the documentation
\* says of them: the longest prefix that was given decides, at its last level.
TargetCalls == TextsUpTo([target : {NoTarget, <<97>>, <<97, 98>>}, level : {0, 2, 5}], 3)

TargetsOf(calls) ==
  FoldLeft(LAMBDA t, x : IF x.target = NoTarget THEN WithDefault(t, x.level)
                         ELSE WithTarget(t, x.target, x.level), EmptySet, calls)

Decides(calls, target, i) ==
  /\ TargetMatches(calls[i], [target |-> target])
  /\ \A j \in DOMAIN calls \ {i} :
       TargetMatches(calls[j], [target |-> target]) =>
         \/ TargetLen(calls[j]) < TargetLen(calls[i])
         \/ TargetLen(calls[j]) = TargetLen(calls[i]) /\ j < i

\* Targets enables what the longest matching prefix enables and nothing above
\* its hint; would_enable says the same; default_level is the last default.
TargetsExact ==
  input.of = "targets" =>
    LET calls == input.calls
        t == TargetsOf(calls)
        defaults == {i \in DOMAIN calls : calls[i].target = NoTarget}
    IN  /\ \A target \in {<<97>>, <<97, 98>>, <<97, 98, 99>>, <<98>>}, level \in 1 .. 5 :
             LET m == [kind |-> "event", target |-> target, fields |-> {}, level |-> level]
                 says == \E i \in DOMAIN calls : Decides(calls, target, i) /\ calls[i].level >= level
             IN  /\ TargetsEnabled(t, m) <=> says
                 /\ WouldEnable(t, target, level) <=> says
                 /\ says => level <= t.max
        /\ DefaultLevel(t) = IF defaults = {} THEN -1 ELSE calls[Max(defaults)].level
        /\ \A pair \in Range(TargetsIter(t)) :
             \E i \in DOMAIN calls : calls[i].target = pair[1] /\ calls[i].level = pair[2]

\* Directives mean what they are written as (Directive::parse, Targets::from_str,
\* their Displays) and Targets decides by them (Targets::would_enable, enabled).
DirectivesMeant == DirectiveRead /\ DisplayRead /\ TargetsRead /\ TargetsExact

CheckTargets == \E calls \in TargetCalls : input' = [of |-> "targets", calls |-> calls]
CheckDirective == \E d \in EnvDirectives : input' = [of |-> "directive", directive |-> d]
CheckText == \E t \in Texts : input' = [of |-> "text", text |-> t]
CheckTargetsText == \E t \in TargetTexts : input' = [of |-> "targets text", text |-> t]

-----------------------------------------------------------------------------
(* Macros: up to two fields of every form, and messages                    *)

FieldForms ==
  {Mac!Element(s, "path", "x") : s \in Mac!Sigils}
    \cup {Mac!Assigned("path", "y", s, "v") : s \in Mac!Sigils}
    \cup {Mac!Assigned("lit", "l", s, "u") : s \in Mac!Sigils}
    \cup {Mac!Assigned("const", "x", s, "w") : s \in Mac!Sigils}

Text == Mac!Element("", "lit", "text")
Messages ==
  {<<>>, <<Text>>, <<Text, Mac!Element("", "path", "z")>>,
   <<Text, Mac!Element("", "expr", "e"), Mac!Assigned("path", "z", "", "e")>>}

Segments ==
  TextsUpTo([raw : BOOLEAN, id : {<<"a">>, <<"r">>, <<"a", "r">>, <<"r", "a">>}], 3) \ {<<>>}

\* The ways to write a call with these fields and this message.
Written(fields, message) ==
  [name : {"n", Mac!Unset}, target : {"t", Mac!Unset}, parent : {"p", Mac!Unset},
   fields : {fields}, message : {message}, braced : BOOLEAN, comma : BOOLEAN]

\* event! and the macros of the levels make the event that was written.
EventsMeant ==
  input.of = "call" /\ input.fields \o input.message # <<>> =>
    \A w \in Written(input.fields, input.message) :
      Mac!EventMeant(w) /\ Mac!EnabledMeant(w)

\* span! and its levels' macros make the span that was written, and record_all!
\* records on it what was written.
SpansMeant ==
  input.of = "call" =>
    /\ \A w \in Written(input.fields, input.message) :
         w.name # Mac!Unset => Mac!SpanMeant(w)
    /\ \A names \in {<<>>, <<"x">>, <<"x", "y">>, <<"message", "l", "x">>} :
         Mac!RecordMeant(names, input.fields)

\* Names of fields lose the r# of raw identifiers, and nothing else.
NamesMeant == input.of = "name" => Mac!NameMeant(input.segments)

\* The macros record what their calls say (event!, span!, enabled!, record_all!).
MacrosMeant == EventsMeant /\ SpansMeant /\ NamesMeant

CheckCall ==
  \E fields \in TextsUpTo(FieldForms, 2), message \in Messages :
    input' = [of |-> "call", fields |-> fields, message |-> message]
CheckName == \E s \in Segments : input' = [of |-> "name", segments |-> s]

-----------------------------------------------------------------------------
(* Writers: combinators around and beside two leaves, three deep           *)

Around(ms) ==
  {Wri!WithMaxLevel(m, l) : m \in ms, l \in {1, 3}}
    \cup {Wri!WithMinLevel(m, l) : m \in ms, l \in {2, 4}}
    \cup {Wri!WithFilter(m, {2}) : m \in ms}
Beside(ms, ns) ==
  {Wri!TeeOf(m, n) : m \in ms, n \in ns}
    \cup {Wri!OrElse(m, n) : m \in {x \in ms : Wri!MakesOptional(x)}, n \in ns}

Leaves == {Wri!Leaf(1), Wri!Leaf(2)}
Once == Around(Leaves) \cup Beside(Leaves, Leaves)
Twice == Once \cup Around(Once) \cup Beside(Once, Leaves \cup Once)
MakeWriters == Twice \cup Around(Twice) \cup Beside(Around(Leaves), Twice)

\* A tree of MakeWriter combinators writes an event where its levels and filters
\* say, and an error of one writer keeps no other from being written to.
WritersExact ==
  input.of = "writers" =>
    \A level \in 1 .. 5, failing \in SUBSET {1, 2} :
      Wri!WritesExact(input.make, level, failing, {1, 2})

CheckWriters == \E m \in MakeWriters : input' = [of |-> "writers", make |-> m]

-----------------------------------------------------------------------------
(* Dates: from the year 1890 to 2109, in blocks of days                    *)

Block == 100

\* DateTime::from follows the calendar, for 40000 days before and after 2000-03-01.
DaysFollow ==
  input.of = "days" => \A day \in input.first .. input.first + Block - 1 : Cal!CalendarFollowed(day)

\* DateTime::from loses and invents nothing of an instant.
InstantsKept == input.of = "instant" => Cal!InstantKept(input.instant)

CheckDays == \E b \in -400 .. 400 : input' = [of |-> "days", first |-> b * Block]
CheckInstant ==
  \E before \in BOOLEAN, secs \in {0, 1, 86399, 86400, 86401, 1000000000},
     nanos \in {0, 1, 999999999} :
    input' = [of |-> "instant", instant |-> Cal!Instant(before, secs, nanos)]

-----------------------------------------------------------------------------
(* Records of the log crate                                                *)

Records ==
  [level : 1 .. 5, target : {"log", "app"}, module : {Absent, "m"}, file : {Absent, "f", "m"},
   line : {Absent, 7}, args : {"text"}]

\* An event of the program's own: a field with a log name and a record's level.
Own(level) ==
  [meta |-> [callsite |-> [own |-> level], level |-> level],
   values |-> <<<<Log!Field([own |-> level], 2), [is |-> "str", v |-> "t"]>>>>]

\* A record comes out of its event as it went in, and no other event is taken for one.
RecordsKept ==
  input.of = "record" => Log!RecordKept(input.record) /\ Log!NotARecord(Own(input.record.level))

-----------------------------------------------------------------------------
(* Levels, values and visitors: sets of two fields and values of all kinds *)

Comparable ==
  {[filter |-> FALSE, value |-> <<l>>] : l \in Val!Levels}
    \cup {[filter |-> TRUE, value |-> f] : f \in Val!LevelFilters}

Own2 == [callsite |-> "own", names |-> <<"message", "x">>]
Foreign == [callsite |-> "foreign", names |-> <<"x">>]
FieldsOf2 == {Val!FieldIter(Own2)[i] : i \in 1 .. 2} \cup {Val!FieldIter(Foreign)[1]}
Carried ==
  {<<>>} \cup {<<k>> : k \in Val!Primitives \cup {"empty", "none", "display", "debug"}}
    \cup {<<"ref", "some", "str">>, <<"box", "none">>}
ValueSets ==
  [all : {TRUE}, fields : {Own2}, values : [1 .. 2 -> Carried]]
    \cup [all : {FALSE}, fields : {Own2}, values : TextsUpTo(FieldsOf2 \X {<<>>, <<"str">>, <<"bytes">>}, 2)]
Visitors == TextsUpTo({"alt", "messages", "delimited"}, 3)

\* Levels and filters compare by verbosity (metadata.rs: PartialOrd, Ord), and a
\* visitor behind any wrappers sees the values there are (field.rs: ValueSet::record,
\* Visit; tracing-subscriber's field: Alt, Messages, VisitDelimited).
ValuesMeant ==
  /\ input.of = "level" => \A b \in Comparable : Val!LevelsOrdered(input.level, b)
  /\ input.of = "values" =>
       /\ Val!SetMeant(input.values)
       /\ \A stacked \in Visitors, leaf \in {{}, {"str", "i64", "error"}, Val!Primitives},
             failing \in 0 .. 2 :
            Val!VisitMeant(stacked, leaf, failing, input.values)

\* Conversions lose nothing: days to dates and instants to times (DateTime::from),
\* records of the log crate to events and back (dispatch_record, AsLog, NormalizeEvent),
\* values to what visitors are given, levels to the numbers they are compared by.
ConversionsKept == DaysFollow /\ InstantsKept /\ RecordsKept /\ ValuesMeant

CheckLevel == \E l \in Comparable : input' = [of |-> "level", level |-> l]
CheckValues == \E vs \in ValueSets : input' = [of |-> "values", values |-> vs]
CheckRecord == \E r \in Records : input' = [of |-> "record", record |-> r]

-----------------------------------------------------------------------------
(* Formats                                                                 *)

Shape(name, bare, log, how, fails) ==
  [name |-> name, bare |-> bare, log |-> log, how |-> how, fails |-> fails]
Plain(name) == Shape(name, name, FALSE, "prim", FALSE)
Raw(how) == Shape("r#b", "b", FALSE, how, FALSE)
Caused == Shape("e", "e", FALSE, "sources", FALSE)
Logged == Shape("log.x", "log.x", TRUE, "prim", FALSE)
Bad == Shape("bad", "bad", FALSE, "debug", TRUE)

Root == [name |-> "root", given |-> <<<<>>>>]
Later ==
  [name |-> "recorded",
   given |-> <<<<>>, <<Plain("a"), Plain("d")>>, <<Raw("debug"), Plain("a")>>>>]
Attributed == [name |-> "attributed", given |-> <<<<Plain("c"), Raw("debug")>>>>]

Scopes == {<<>>, <<Root>>, <<Root, Later>>, <<Attributed, Later>>}
FieldLists ==
  {<<>>, <<Plain("message")>>, <<Plain("message"), Caused, Raw("debug")>>,
   <<Logged, Plain("level")>>, <<Plain("a"), Bad, Plain("c")>>}
Places ==
  {[parent |-> "current", explicit |-> <<>>, current |-> s] : s \in Scopes}
    \cup {[parent |-> p, explicit |-> <<Attributed>>, current |-> <<Root, Later>>] :
            p \in {"explicit", "root"}}
Events ==
  {[parent |-> p.parent, explicit |-> p.explicit, current |-> p.current, fields |-> fields,
    thread |-> t[1], timed |-> t[2], meta |-> meta] :
     p \in Places, fields \in FieldLists,
     t \in {<<Absent, TRUE>>, <<"main", TRUE>>, <<"main", FALSE>>},
     meta \in [target : {"t"}, file : {Absent, "f"}, line : {Absent, "7"}]}

LineFormats ==
  [format : {"full", "compact", "pretty"}, timestamp : {TRUE}, target : BOOLEAN, level : {FALSE},
   threadId : BOOLEAN, threadName : BOOLEAN, filename : BOOLEAN, lineNumber : BOOLEAN,
   flatten : {FALSE}, current : {TRUE}, list : {TRUE}, timer : {TRUE}]
JsonFormats ==
  {f \in [format : {"json"}, timestamp : BOOLEAN, target : {TRUE}, level : {TRUE},
          threadId : BOOLEAN, threadName : BOOLEAN, filename : {TRUE}, lineNumber : BOOLEAN,
          flatten : BOOLEAN, current : BOOLEAN, list : BOOLEAN, timer : BOOLEAN] :
     f.timestamp => f.timer}

\* A line of text shows what its options ask for and the event has, each once, and
\* sets one thing apart from the next, in the three formats (format_event).
LinesMeant ==
  input.of = "line" =>
    \A e \in Events : For!LineMeant(input.format, e)

\* The object of Format<Json> has what its options ask for and the event has, under
\* different keys unless the event's fields are flattened into it.
ObjectsMeant ==
  input.of = "object" =>
    \A e \in Events : For!ObjectMeant(input.format, e)

Calls ==
  (For!Methods \X {TRUE}) \cup (For!Options \X BOOLEAN) \cup (For!JsonOptions \X BOOLEAN)
    \cup {<<"with_ansi", TRUE>>, <<"with_ansi", FALSE>>, <<"with_ansi_sanitization", FALSE>>,
          <<"log_internal_errors", FALSE>>}
    \cup {<<"with_span_events", {"new"}>>, <<"with_max_level", "DEBUG">>,
          <<"with_env_filter", "env">>}

\* A builder has what the last call about each option asked for, whatever was called
\* in between.
BuildersMeant ==
  input.of = "builder" =>
    \A last \in Calls : For!BuilderMeant(Append(input.calls, last))

\* What is written of an event, where, and how a program asks for it
\* (format_event, MakeWriterExt, SubscriberBuilder).
OutputMeant == LinesMeant /\ ObjectsMeant /\ BuildersMeant /\ WritersExact

CheckLine == \E f \in LineFormats : input' = [of |-> "line", format |-> f]
CheckObject == \E f \in JsonFormats : input' = [of |-> "object", format |-> f]
CheckBuilder == \E calls \in TextsUpTo(Calls, 2) : input' = [of |-> "builder", calls |-> calls]

-----------------------------------------------------------------------------
(* Observers: stacks of layers that watch spans                            *)

Fmt(kind, timing, n) == [of |-> "fmt", kind |-> kind, timing |-> timing, n |-> n]
ErrorLayer(n) == [of |-> "error", kind |-> {}, timing |-> FALSE, n |-> n]
Installed(fmts, flame) ==
  [stack |-> fmts, flame |-> flame # "no", emptySamples |-> flame = "empty"]

Full == {"new", "enter", "exit", "close"}
NoLayers == Installed(<<>>, "no")
MCStacks ==
  {NoLayers,
   Installed(<<Fmt(Full, TRUE, 1)>>, "no"),
   Installed(<<Fmt({"close"}, TRUE, 1), Fmt(Full, TRUE, 2)>>, "no"),
   Installed(<<ErrorLayer(1), Fmt({"new", "close"}, FALSE, 2)>>, "no"),
   Installed(<<Fmt({"new"}, FALSE, 1), ErrorLayer(1)>>, "no"),
   Installed(<<>>, "empty"), Installed(<<>>, "nonempty")}

\* Lines and span traces show every value that their spans were given, once and in
\* order (fmt_layer.rs: on_new_span, on_record; tracing-error: on_new_span), and a
\* line has only its own event's text (fmt_layer.rs: on_event's buffer).
LinesWhole == Obs!LinesComplete /\ Obs!LinesClean

\* The busy and idle times of a closed span (fmt_layer.rs: on_enter, on_exit,
\* on_close) are those in which a thread was and was not inside it.
TimesExact == Obs!TimesExact

\* The samples of a thread cover its time without gap or overlap, in the right span
\* (tracing-flame: on_enter, on_exit).
FlameExact == Obs!FlameExact

\* Bound: in the programs about fields one thread makes all the calls.
First == CHOOSE t \in Threads : TRUE

\* Each stack with the programs that it tells anything about.
Install ==
  /\ layers' \in Stacks \ {NoLayers}
  /\ \/ input' = [of |-> "fields"] /\ layers'.stack # <<>>
     \/ /\ input' = [of |-> "times"]
        /\ layers'.flame \/ \E layer \in Range(layers'.stack) : layer.timing
  /\ UNCHANGED <<spans, entered, clock, flameLast, buf, lines, changed, panicked>>

\* The program ends, at any time.
End ==
  /\ input.of \in {"fields", "times"} /\ input' = None
  /\ layers' = NoLayers
  /\ spans' = [s \in Watched |-> Obs!Unused]
  /\ entered' = [t \in Threads |-> <<>>]
  /\ clock' = 0
  /\ flameLast' = [t \in Threads |-> 0]
  /\ buf' = [t \in Threads |-> FALSE]
  /\ lines' = <<>>
  /\ changed' = [t \in Threads |-> 0]
  /\ panicked' = {}

-----------------------------------------------------------------------------
(* The mock: tests of every kind of expectation, of a subscriber and, where *)
(* it has them, of a layer                                                 *)

FieldOf(name, value) == [name |-> name, value |-> value]
XY == <<FieldOf("x", 1), FieldOf("y", 2)>>
SpanA == [name |-> "a", level |-> 1, target |-> "t", eventish |-> FALSE]
SpanEvent == [name |-> "event", level |-> 2, target |-> "t", eventish |-> TRUE]
MCCalled == {[meta |-> SpanA, values |-> XY], [meta |-> SpanEvent, values |-> <<>>]}

Moc == INSTANCE Mock WITH Called <- MCCalled, Recordings <- {<<>>, XY}

AnEvent == Moc!Expect("event")
ASpan == Moc!Expect("span")
A(what) == Moc!Named(Moc!Expect(what), "a")
I(e) == Moc!WithId(e, "i")
Fields(e, only, fields) == Moc!WithFields(e, only, fields)
Test(calls, given) == [layer |-> FALSE, calls |-> calls, given |-> given]

BothTests ==
  {Test(3, <<>>), Test(2, <<Moc!Nothing>>), Test(2, <<AnEvent, Moc!Nothing>>),
   Test(2, <<Moc!OnRegisterDispatch, Moc!AtLevel(AnEvent, 2), AnEvent>>),
   Test(3, <<A("new"), AnEvent>>),
   Test(3, <<I(A("new")), Moc!WithId(A("new"), "j"), Moc!WithId(Moc!Expect("enter"), "j")>>),
   Test(3, <<I(A("new")), I(Moc!Expect("enter")), Moc!Nothing>>),
   Test(2, <<I(A("new")), I(A("new"))>>),
   Test(3, <<A("enter"), Moc!Nothing>>),
   Test(3, <<A("enter"), Moc!WithAncestry(AnEvent, "contextual parent", A("span"))>>),
   Test(4, <<Moc!Expect("enter"), Moc!Expect("exit"),
             Moc!WithAncestry(AnEvent, "contextual root", ASpan)>>),
   Test(2, <<I(A("new")), Moc!WithAncestry(Moc!Expect("new"), "explicit parent", I(ASpan))>>),
   Test(2, <<Moc!WithAncestry(Moc!WithTarget(Moc!Expect("new"), "t"), "explicit root", ASpan)>>),
   Test(2, <<Fields(AnEvent, FALSE, {FieldOf("x", 1)})>>),
   Test(2, <<Fields(AnEvent, TRUE, {FieldOf("x", 1)})>>),
   Test(2, <<Fields(AnEvent, TRUE, {FieldOf("x", 1), FieldOf("y", Absent)})>>),
   Test(2, <<Fields(Moc!Expect("new"), TRUE, {FieldOf("y", 1)})>>),
   Test(3, <<A("new"), Moc!InScope(AnEvent, <<ASpan, A("span")>>)>>)}
SubscriberTests ==
  {Test(3, <<A("clone"), A("drop")>>),
   Test(3, <<Fields(A("record"), FALSE, {FieldOf("x", 1)}), AnEvent>>),
   Test(3, <<Moc!FollowsFrom("a", "event"), Moc!Nothing>>),
   Test(2, <<Moc!Expect("drop")>>)}
Tests ==
  BothTests \cup SubscriberTests \cup {[t EXCEPT !.layer = TRUE] : t \in BothTests}

\* A test with a mock passes exactly if the calls of the program are the expected
\* ones (tracing-mock: Running, MockLayer, assert_finished), and the mock does not
\* panic in a thread that is panicking (exit, drop_span, on_exit, on_close).
TestsDecided == Moc!TestsDecided

mockVars == <<mock, world, heard>>

EndTest ==
  /\ world.running
  /\ world' = Moc!Idle /\ heard' = <<>> /\ mock' = Moc!Run(Test(0, <<>>))

-----------------------------------------------------------------------------
obsVars == <<layers, spans, entered, clock, flameLast, buf, lines, changed, panicked>>

Fresh == input = None /\ built = {} /\ stack = <<>> /\ ~world.running

MCInit == input = None /\ FilterInit /\ Init /\ Obs!ObsInit /\ layers = NoLayers
          /\ Moc!MockInit

\* One algorithm at a time.
OthersNext ==
  \/ /\ Fresh /\ UNCHANGED <<built, stack, obsVars>>
     /\ \/ CheckDirective \/ CheckText \/ CheckTargetsText \/ CheckTargets
        \/ CheckCall \/ CheckName \/ CheckWriters \/ CheckDays \/ CheckInstant \/ CheckRecord
        \/ CheckLevel \/ CheckValues
        \/ CheckLine \/ CheckObject \/ CheckBuilder
  \/ /\ input = None /\ stack = <<>> /\ ~world.running /\ Cardinality(built) < MaxBuilt
     /\ FilterNext /\ UNCHANGED <<input, stack, obsVars>>
  \/ input = None /\ built = {} /\ ~world.running /\ Next /\ UNCHANGED <<input, built, obsVars>>
  \/ Fresh /\ Install /\ UNCHANGED <<built, stack>>
  \/ input.of = "fields" /\ Obs!FieldsNext(First) /\ UNCHANGED <<input, built, stack>>
  \/ input.of = "times" /\ Obs!TimesNext(First) /\ UNCHANGED <<input, built, stack>>
  \/ End /\ UNCHANGED <<built, stack>>
  \/ /\ input.of \notin {"none", "fields", "times"} /\ input' = None
     /\ UNCHANGED <<built, stack, obsVars>>
  \/ built # {} /\ built' = {} /\ UNCHANGED <<input, stack, obsVars>>

MCNext ==
  \/ OthersNext /\ UNCHANGED mockVars
  \/ /\ UNCHANGED <<input, built, stack, obsVars>>
     /\ \/ Fresh /\ \E test \in Tests : Moc!Start(test)
        \/ Moc!MockNext
        \/ EndTest

MCSpec == MCInit /\ [][MCNext]_<<input, built, stack, obsVars, mockVars>>
=============================================================================
