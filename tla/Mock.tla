--------------------------------- MODULE Mock ---------------------------------
(***************************************************************************)
(* tracing-mock: a subscriber, or a layer on a registry, that compares the *)
(* calls it gets with a queue of expectations and panics at a difference.  *)
(*                                                                         *)
(* mock is the subscriber: its queue, the spans and the stack of entered   *)
(* ones that Running keeps, the ids that ExpectedIds were set to, how      *)
(* often it panicked and which of its locks are poisoned.  world is the    *)
(* program under test, on one thread, and heard the calls it made.  Each   *)
(* call is a record: what, the span or the event it is about (id, meta),   *)
(* the values, and, as the program sees it, the ancestry and the scope.    *)
(***************************************************************************)
EXTENDS Integers, FiniteSets, SequencesExt

CONSTANTS
  Absent,      \* what an expectation does not mention
  Called,      \* the spans and events of the programs: [meta, values]
  Recordings,  \* sequences of values that are recorded later
  Tokens       \* the ExpectedIds

VARIABLES mock, world, heard

mockVars == <<mock, world, heard>>

-----------------------------------------------------------------------------
(* Expectations                                                            *)

\* expect::span() and expect::event(): nothing is expected of it.
Expect(what) ==
  [what |-> what, name |-> Absent, level |-> Absent, target |-> Absent, token |-> Absent,
   fields |-> <<>>, ancestry |-> <<>>, scope |-> <<>>, cause |-> Absent]

Named(e, name) == [e EXCEPT !.name = name]
AtLevel(e, level) == [e EXCEPT !.level = level]
WithTarget(e, target) == [e EXCEPT !.target = target]
WithId(e, token) == [e EXCEPT !.token = token]

\* with_fields: names with the value they must have, or Absent for any.
WithFields(e, only, fields) == [e EXCEPT !.fields = <<[only |-> only, fields |-> fields]>>]
WithAncestry(e, kind, span) == [e EXCEPT !.ancestry = <<[kind |-> kind, span |-> span]>>]
InScope(e, spans) == [e EXCEPT !.scope = <<spans>>]
FollowsFrom(consequence, cause) ==
  [Named(Expect("follows"), consequence) EXCEPT !.cause = cause]
OnRegisterDispatch == Expect("register")
Nothing == Expect("nothing")

\* compare_or_panic and finish: every value takes its expectation from the map.
Compare(acc, v) ==
  LET given == {f \in acc.left : f.name = v.name}
  IN  [left |-> acc.left \ given,
       only |-> acc.only,
       ok |-> /\ acc.ok
              /\ IF given = {} THEN ~acc.only
                 ELSE \A f \in given : f.value \in {Absent, v.value}]

\* Mutant: the expected fields that no value came for are forgotten.
CheckFieldsUnfinished(e, values) ==
  \A x \in Range(e.fields) :
    FoldLeft(Compare, [left |-> x.fields, only |-> x.only, ok |-> TRUE], values).ok

CheckFields(e, values) ==
  \A x \in Range(e.fields) :
    LET end == FoldLeft(Compare, [left |-> x.fields, only |-> x.only, ok |-> TRUE], values)
    IN  end.ok /\ end.left = {}

CheckMetadata(e, meta) ==
  /\ e.name \in {Absent, meta.name}
  /\ e.level \in {Absent, meta.level}
  /\ e.target \in {Absent, meta.target}

\* Only the first new span that is expected with an id sets it.
CheckId(m, token, id) == token # Absent => m.ids[token] # 0 /\ m.ids[token] = id

\* ExpectedSpan::check; of a span that the mock does not know only the id can be
\* expected.
CheckSpan(m, e, id, metas) ==
  /\ CheckId(m, e.token, id)
  /\ IF metas = <<>> THEN {e.name, e.level, e.target} = {Absent}
     ELSE CheckMetadata(e, metas[1])

CheckAncestry(m, e, actual) ==
  \A x \in Range(e.ancestry) :
    /\ actual.found
    /\ x.kind = actual.kind
    /\ x.kind \in {"explicit parent", "contextual parent"} =>
         CheckSpan(m, x.span, actual.id, <<actual.meta>>)

CheckScope(m, e, scope) ==
  \A x \in Range(e.scope) :
    /\ Len(x) = Len(scope)
    /\ \A i \in DOMAIN scope : CheckSpan(m, x[i], scope[i].id, <<scope[i].meta>>)

-----------------------------------------------------------------------------
(* The mock's side of a call: Running's methods and those of MockLayer.    *)

AtFront(m, what) == m.expected # <<>> /\ Head(m.expected).what = what
Pop(m) == IF m.expected = <<>> THEN m ELSE [m EXCEPT !.expected = Tail(@)]

\* An assertion that fails unwinds through the guards that are held.
Asserted(m, held, ok) ==
  IF ok THEN m ELSE [m EXCEPT !.panics = @ + 1, !.poisoned = @ \cup held]

Both == {"spans", "expected"}

\* Of a layer the registry keeps the spans.
Held(m) == IF m.layer THEN {"expected"} ELSE Both

Lookup(m, id) == IF id \in DOMAIN m.spans THEN <<m.spans[id]>> ELSE <<>>

\* match expected.pop_front(): no expectation is fine, another kind is bad.
Expected(m, what, held, ok) ==
  Asserted(Pop(m), held, m.expected = <<>> \/ (AtFront(m, what) /\ ok))

\* if let Some(..) = expected.front(): whatever else is at the front stays there.
ExpectedIfFront(m, what, held, ok) ==
  IF AtFront(m, what) THEN Asserted(Pop(m), held, ok) ELSE m

\* get_ancestry: Running looks at the spans and the stack that it keeps, a layer
\* asks the registry.
GetAncestry(m, call) ==
  IF m.layer \/ call.ancestry.kind = "explicit root" THEN call.ancestry
  ELSE IF call.ancestry.kind = "explicit parent"
       THEN [kind |-> "explicit parent", id |-> call.ancestry.id,
             found |-> Lookup(m, call.ancestry.id) # <<>>, meta |-> call.ancestry.meta]
       ELSE IF m.current = <<>>
            THEN [kind |-> "contextual root", id |-> 0, found |-> TRUE, meta |-> call.meta]
            ELSE LET id == Last(m.current)
                     known == Lookup(m, id)
                 IN  [kind |-> "contextual parent", id |-> id, found |-> known # <<>>,
                      meta |-> IF known = <<>> THEN call.meta ELSE known[1]]

Register(m) == ExpectedIfFront(m, "register", {"expected"}, TRUE)

Event(m, call) ==
  Expected(m, "event", {"expected"},
           LET e == Head(m.expected)
           IN  /\ m.layer \/ e.scope = <<>>
               /\ CheckMetadata(e, call.meta)
               /\ CheckFields(e, call.values)
               /\ CheckAncestry(m, e, GetAncestry(m, call))
               /\ CheckScope(m, e, call.scope))

\* on_record of the layer is unimplemented.
Record(m, call) ==
  IF m.layer THEN Asserted(m, {}, FALSE)
  ELSE LET e == Head(m.expected)
           span == Lookup(m, call.id)
       IN  IF span = <<>> THEN Asserted(m, Both, FALSE)
           ELSE ExpectedIfFront(m, "record", Both,
                  e.name \in {Absent, span[1].name} /\ CheckFields(e, call.values))

\* on_follows_from of the layer is unimplemented.
RecordFollowsFrom(m, call) ==
  LET consequence == Lookup(m, call.id)
      cause == Lookup(m, call.cause)
  IN  IF m.layer THEN Asserted(m, {}, FALSE)
      ELSE IF consequence = <<>> \/ cause = <<>> THEN m
      ELSE Expected(m, "follows", Both,
             LET e == Head(m.expected)
             IN  e.name \in {Absent, consequence[1].name} /\ e.cause \in {Absent, cause[1].name})

\* The ids of a layer's spans are the registry's, and no ExpectedId is set to one.
NewSpan(m, call) ==
  LET e == Head(m.expected)
      sets == ~m.layer /\ AtFront(m, "new") /\ e.token # Absent
      after == ExpectedIfFront(m, "new", Held(m),
                 /\ sets => m.ids[e.token] = 0
                 /\ CheckMetadata(e, call.meta)
                 /\ CheckFields(e, call.values)
                 /\ CheckAncestry(m, e, GetAncestry(m, call)))
  IN  IF after.panics > m.panics THEN after
      ELSE [after EXCEPT !.spans = (call.id :> call.meta) @@ @,
                         !.ids = IF sets THEN [@ EXCEPT ![e.token] = call.id] ELSE @]

\* A span that Running does not know becomes the current one all the same.
Enter(m, call) ==
  LET span == Lookup(m, call.id)
      after == IF span = <<>> THEN m
               ELSE Expected(m, "enter", Held(m), CheckSpan(m, Head(m.expected), call.id, span))
  IN  IF after.panics > m.panics THEN after
      ELSE [after EXCEPT !.current = Append(@, call.id)]

\* Running's stack is popped only for an exit that was expected.
ExitNow(m, call) ==
  LET span == Lookup(m, call.id)
      after == Expected(m, "exit", Held(m),
                 /\ CheckSpan(m, Head(m.expected), call.id, span)
                 /\ m.current # <<>> /\ Last(m.current) = call.id)
  IN  IF Held(m) \cap m.poisoned # {} THEN Asserted(m, {}, FALSE)
      ELSE IF span = <<>> THEN Asserted(m, Held(m) \ {"expected"}, FALSE)
      ELSE IF AtFront(m, "exit") /\ m.current # <<>>
           THEN [after EXCEPT !.current = Front(@)] ELSE after

Exit(m, call, panicking) == IF panicking THEN m ELSE ExitNow(m, call)

CloneSpan(m, call) ==
  ExpectedIfFront(m, "clone", Both, CheckSpan(m, Head(m.expected), call.id, Lookup(m, call.id)))

\* drop_span: nothing at all with a poisoned lock, no assertion while panicking.
\* That a span with "event" in its name is dropped satisfies an expected event.
DropSpan(m, call, panicking) ==
  LET name == IF "spans" \in m.poisoned \/ Lookup(m, call.id) = <<>> THEN Absent
              ELSE m.spans[call.id].name
      eventish == name # Absent /\ m.spans[call.id].eventish
  IN  IF "expected" \in m.poisoned THEN m
      ELSE IF AtFront(m, "drop")
      THEN Asserted(Pop(m), {"expected"}, panicking \/ Head(m.expected).name = name)
      ELSE ExpectedIfFront(m, "event", {"expected"}, panicking \/ eventish)

\* No test can expect the close of a span of a layer.
OnClose(m, panicking) ==
  IF panicking \/ "expected" \in m.poisoned THEN m
  ELSE ExpectedIfFront(m, "event", {"expected"}, FALSE)

\* Of a poisoned queue it asserts nothing.
AssertFinished(m) ==
  "expected" \in m.poisoned \/ \A i \in DOMAIN m.expected : m.expected[i] = Nothing

Handle(m, call, panicking) ==
  CASE call.what = "register" -> Register(m)
    [] call.what = "event" -> Event(m, call)
    [] call.what = "new" -> NewSpan(m, call)
    [] call.what = "enter" -> Enter(m, call)
    [] call.what = "exit" -> Exit(m, call, panicking)
    [] call.what = "record" -> Record(m, call)
    [] call.what = "follows" -> RecordFollowsFrom(m, call)
    [] call.what = "clone" -> CloneSpan(m, call)
    [] call.what = "drop" -> IF m.layer THEN OnClose(m, panicking) ELSE DropSpan(m, call, panicking)

-----------------------------------------------------------------------------
(* The program under test                                                  *)

\* run_with_handle, and the dispatcher that is made of the subscriber.
Run(test) ==
  [layer |-> test.layer, expected |-> test.given, spans |-> [s \in {} |-> 0], current |-> <<>>,
   ids |-> [t \in Tokens |-> 0], panics |-> 0, poisoned |-> {}]

Idle == [given |-> <<>>, calls |-> 0, spans |-> <<>>, inside |-> <<>>, unwinding |-> FALSE, running |-> FALSE]

Spans == DOMAIN world.spans
Span(id) == world.spans[id]
Alive(id) == Span(id).handles > 0 \/ id \in Range(world.inside)

\* A span with its ancestors, as a sequence that starts with it.
Path(id) == IF id = 0 THEN <<>> ELSE <<[id |-> id, meta |-> Span(id).meta]>> \o Span(id).path

Ancestry(kind, id, meta) == [kind |-> kind, id |-> id, found |-> TRUE, meta |-> meta]
CurrentId == IF world.inside = <<>> THEN 0 ELSE Last(world.inside)

\* parent: None and neither that nor parent: id.
Root == 0
Contextual == -1

ParentAncestry(parent, meta) ==
  IF parent = Root THEN Ancestry("explicit root", 0, meta)
  ELSE IF parent # Contextual THEN Ancestry("explicit parent", parent, Span(parent).meta)
  ELSE IF CurrentId = 0 THEN Ancestry("contextual root", 0, meta)
  ELSE Ancestry("contextual parent", CurrentId, Span(CurrentId).meta)

Call(what, id, meta) ==
  [what |-> what, id |-> id, meta |-> meta, values |-> <<>>, cause |-> 0, innermost |-> FALSE,
   ancestry |-> Ancestry("explicit root", 0, meta), scope |-> <<>>]

\* The mock hears of it; if it panics the thread unwinds.
Hears(call) ==
  /\ heard' = Append(heard, call)
  /\ mock' = Handle(mock, call, world.unwinding)

Panicked == mock'.panics > mock.panics

\* What a call leaves in the program, and without an effect if it panicked.
Leaves(w, undone) ==
  world' = [(IF Panicked /\ undone THEN world ELSE w)
              EXCEPT !.unwinding = @ \/ Panicked]

Working == world.running /\ ~world.unwinding /\ Len(heard) <= world.calls

NewSpanOf(meta, parent, values) ==
  LET id == Len(world.spans) + 1
      ancestry == ParentAncestry(parent, meta)
  IN  /\ Working /\ id <= 2
      /\ Hears([Call("new", id, meta) EXCEPT !.values = values, !.ancestry = ancestry])
      /\ Leaves([world EXCEPT !.spans = Append(@, [meta |-> meta, handles |-> 1,
                                                   path |-> Path(ancestry.id)])], TRUE)

EventOf(meta, parent, values) ==
  LET ancestry == ParentAncestry(parent, meta)
  IN  /\ Working
      /\ Hears([Call("event", 0, meta) EXCEPT !.values = values, !.ancestry = ancestry,
                                              !.scope = Path(ancestry.id)])
      /\ Leaves(world, FALSE)

EnterOf(id) ==
  /\ Working /\ Span(id).handles > 0
  /\ Hears(Call("enter", id, Span(id).meta))
  /\ Leaves([world EXCEPT !.inside = Append(@, id)], TRUE)

\* The guard of an entered span is dropped, not always the innermost one's.
ExitOf(id) ==
  /\ id \in Range(world.inside)
  /\ Working \/ world.unwinding
  /\ LET at == Max({i \in DOMAIN world.inside : world.inside[i] = id})
     IN  /\ Hears([Call("exit", id, Span(id).meta) EXCEPT !.innermost = at = Len(world.inside)])
         /\ Leaves([world EXCEPT !.inside = RemoveAt(@, at)], FALSE)

RecordOn(id, values) ==
  /\ Working /\ Span(id).handles > 0
  /\ Hears([Call("record", id, Span(id).meta) EXCEPT !.values = values])
  /\ Leaves(world, FALSE)

Follows(id, cause) ==
  /\ Working /\ Span(id).handles > 0
  /\ Hears([Call("follows", id, Span(id).meta) EXCEPT !.cause = cause])
  /\ Leaves(world, FALSE)

\* Bound: a span is cloned once at a time.  A layer does not hear of it.
CloneOf(id) ==
  /\ Working /\ Span(id).handles = 1 /\ ~mock.layer
  /\ Hears(Call("clone", id, Span(id).meta))
  /\ Leaves([world EXCEPT !.spans[id].handles = @ + 1], TRUE)

\* A handle is dropped; a layer hears of it when the span closes, which it does
\* when nothing refers to it, a guard or a child neither.
DropOf(id) ==
  /\ Working \/ world.unwinding
  /\ Span(id).handles > 0 /\ id \notin Range(world.inside)
  /\ \A s \in Spans : s # id /\ Alive(s) => id \notin {p.id : p \in Range(Span(s).path)}
  /\ Hears(Call("drop", id, Span(id).meta))
  /\ Leaves([world EXCEPT !.spans[id].handles = @ - 1], FALSE)

\* test.given is expected, of a layer or a subscriber; bound: test.calls.
Start(test) ==
  /\ world' = [Idle EXCEPT !.given = test.given, !.calls = test.calls, !.running = TRUE]
  /\ heard' = <<Call("register", 0, Absent)>>
  /\ mock' = Register(Run(test))

\* The program itself panics.
ProgramPanics ==
  /\ Working
  /\ world' = [world EXCEPT !.unwinding = TRUE]
  /\ UNCHANGED <<mock, heard>>

MockInit == mock = Run([layer |-> FALSE, given |-> <<>>]) /\ world = Idle /\ heard = <<>>

Parents == {Contextual, Root} \cup {s \in Spans : Span(s).handles > 0}

MockNext ==
  \/ \E c \in Called, parent \in Parents :
       NewSpanOf(c.meta, parent, c.values) \/ EventOf(c.meta, parent, c.values)
  \/ \E id \in Spans :
       \/ EnterOf(id) \/ ExitOf(id) \/ CloneOf(id) \/ DropOf(id)
       \/ \E values \in Recordings : RecordOn(id, values)
       \/ \E cause \in Spans : Follows(id, cause)
  \/ ProgramPanics

-----------------------------------------------------------------------------
(* Properties                                                              *)

\* What an expectation says of a call, read off the documentation of its methods.
FieldsMeant(e, values) ==
  \A x \in Range(e.fields) :
    /\ \A f \in x.fields : \E v \in Range(values) :
         v.name = f.name /\ f.value \in {Absent, v.value}
    /\ x.only => \A v \in Range(values) : \E f \in x.fields : f.name = v.name

MetaMeant(e, meta) ==
  \A k \in {"name", "level", "target"} : e[k] # Absent => e[k] = meta[k]

\* The span with an id is the one that was created where the id was expected; a
\* layer has no ids.
SpanMeant(want, f, e, id, meta) ==
  /\ MetaMeant(e, meta)
  /\ e.token # Absent =>
       /\ ~mock.layer
       /\ \E k \in DOMAIN want : /\ want[k].what = "new" /\ want[k].token = e.token
                                 /\ heard[f[k]].id = id

\* follows_from, record and drop_span look at the names only, and the last one
\* needs a name; a dropped span with event in its name passes for an event.
Meets(want, f, i) ==
  LET e == want[i]
      call == heard[f[i]]
  IN  \/ /\ e.what = call.what
         /\ CASE e.what = "register" -> TRUE
              [] e.what \in {"event", "new"} ->
                   /\ MetaMeant(e, call.meta) /\ FieldsMeant(e, call.values)
                   /\ e.token # Absent /\ ~mock.layer =>
                        \A k \in 1 .. i - 1 : want[k].what = "new" => want[k].token # e.token
                   /\ \A a \in Range(e.ancestry) :
                        /\ a.kind = call.ancestry.kind
                        /\ a.kind \in {"explicit parent", "contextual parent"} =>
                             SpanMeant(want, f, a.span, call.ancestry.id, call.ancestry.meta)
                   /\ \A s \in Range(e.scope) :
                        /\ mock.layer /\ Len(s) = Len(call.scope)
                        /\ \A n \in DOMAIN s :
                             SpanMeant(want, f, s[n], call.scope[n].id, call.scope[n].meta)
              [] e.what \in {"enter", "clone"} -> SpanMeant(want, f, e, call.id, call.meta)
              [] e.what = "exit" -> call.innermost /\ SpanMeant(want, f, e, call.id, call.meta)
              [] e.what = "record" ->
                   e.name \in {Absent, call.meta.name} /\ FieldsMeant(e, call.values)
              [] e.what = "follows" ->
                   /\ e.name \in {Absent, call.meta.name}
                   /\ e.cause \in {Absent, Span(call.cause).meta.name}
              [] e.what = "drop" -> e.name = call.meta.name
      \/ e.what = "event" /\ call.what = "drop" /\ call.meta.eventish /\ ~mock.layer

\* These calls must be the next expected ones; the others may come in between,
\* unless they are of the kind that is expected next.
Strict == {"event", "enter", "exit", "follows"}
MayIgnore(e, call) ==
  /\ call.what \notin Strict \cup {e.what}
  /\ e.what = "event" => call.what # "drop"

Met ==
  LET want == SelectSeq(world.given, LAMBDA e : e # Nothing)
      n == Len(want)
  IN  /\ mock.layer => \A i \in DOMAIN heard : heard[i].what \notin {"record", "follows"}
      /\ \E f \in [1 .. n -> DOMAIN heard] :
           /\ \A i, j \in 1 .. n : i < j => f[i] < f[j]
           /\ \A i \in 1 .. n : Meets(want, f, i)
           /\ \A i \in 1 .. n, at \in DOMAIN heard :
                at < f[i] /\ (i > 1 => at > f[i - 1]) => MayIgnore(want[i], heard[at])
           /\ Nothing \in Range(world.given) =>
                \A at \in DOMAIN heard : (n > 0 => at > f[n]) => heard[at].what \notin Strict

\* A test passes, in that the mock never panicked and assert_finished does not,
\* exactly if the calls of the program contain the expected ones in their order,
\* with nothing strict in between and after only() nothing strict at all.
Decided ==
  world.running /\ (world.unwinding => mock.panics > 0) =>
    (mock.panics = 0 /\ AssertFinished(mock) <=> Met)

\* After every call the test is decided as it should be (Running, assert_finished),
\* and exit and drop_span, which destructors call, do not panic in a thread that
\* is already panicking, because of the mock or not.
TestsDecided ==
  [][/\ Decided'
     /\ world.unwinding /\ world'.unwinding => mock'.panics = mock.panics]_mockVars
===============================================================================
