------------------------------ MODULE EnvFilter ------------------------------
(***************************************************************************)
(* EnvFilter (tracing-subscriber/src/filter/env).                          *)
(*                                                                         *)
(* A filter is built from parsed directives and more are added; then it is *)
(* attached to a Registry as a layer, every callsite is registered, and    *)
(* threads create, enter, exit, record and close spans.  Span ids are used *)
(* again after a close, as the slab does.                                  *)
(*                                                                         *)
(* A value, and the pattern of a ValueMatch, has a type; the text of a     *)
(* Debug output is a sequence.                                             *)
(***************************************************************************)
EXTENDS DirectiveSets

CONSTANTS Threads,
          Sites,      \* callsites: kind, target, name, fields, level
          Parsed,     \* what from_directives may be given
          Added,      \* directives that add_directive may be given
          Default,    \* the Builder's default directive
          Values,     \* values of fields
          Ids,        \* span ids
          MaxGiven,   \* bound: the directives that add_directive may bring it to
          MaxDepth,   \* bound: the entries of a thread
          Trace,      \* the most verbose level; 0 is LevelFilter::OFF
          NoSpan

\* The directives that there are.
Known == Added \cup {Default} \cup UNION {{seq[i] : i \in DOMAIN seq} : seq \in Parsed}

ASSUME EnvAssumption ==
  /\ MaxGiven \in Nat /\ MaxDepth \in Nat /\ Trace \in Nat
  /\ {NoName, NoTarget} \cap Seq(Nat) = {} /\ NoSpan \notin Sites
  /\ Parsed \subseteq Seq(Known) /\ \A d \in Known : IsDirective(d) /\ d.level <= Trace
  /\ \A m \in Sites : m.level \in 1 .. Trace

VARIABLES
  statics, dynamics, \* DirectiveSets: directives and max_level
  hasDynamics,       \* has_dynamics
  stage,      \* the directives that are being put into the tables, or "built"
  at,         \* the place of the next one
  byCs,       \* by_cs: the matcher of each callsite that has one
  byId,       \* by_id: the matcher of each span that has one
  scope,      \* scope: of each thread the levels pushed
  attached,   \* the filter is part of a subscriber
  cached,     \* the Interest cached by each callsite
  live,       \* the callsite of each span, or NoSpan
  given,      \* history: the directives, in the order they were given
  parsed,     \* history: how many of them from_directives was given
  recorded,   \* history: of each span the <<field, value>> recorded
  entries,    \* history: the spans each thread is in, and their levels then
  inOrder     \* history: whether the thread has exited last-in, first-out

tables == <<statics, dynamics, hasDynamics>>
filterVars == <<tables, stage, at, given, parsed, byCs, attached, cached>>
spanVars == <<byId, live, recorded>>
threadVars == <<scope, entries, inOrder>>
vars == <<filterVars, spanVars, threadVars>>

\* Statics::enabled: the first directive that cares about m decides.
StaticsEnabled(m) ==
  \E i \in DOMAIN statics.directives :
    /\ StaticCares(statics.directives[i], m) /\ statics.directives[i].level >= m.level
    /\ \A j \in 1 .. i - 1 : ~StaticCares(statics.directives[j], m)

\* The maximum of levels, or of places.
Highest(S) == CHOOSE x \in S : \A y \in S : x >= y

-----------------------------------------------------------------------------
(* Matchers: for each directive the value fields to match, those matched   *)
(* so far and a level                                                      *)

\* Directive::field_matcher: the fields that have values to be matched.
FieldMatcher(d) ==
  [want |-> {[name |-> d.fields[i].name, value |-> d.fields[i].value] :
               i \in {i \in DOMAIN d.fields : HasValue(d.fields[i])}},
   got |-> {}, level |-> d.level]

\* Dynamics::matcher; {} for None.  No directive is left for base_level:
\* directives_for has only those all of whose fields exist.
Matcher(m) ==
  {FieldMatcher(dynamics.directives[i]) :
     i \in {i \in DOMAIN dynamics.directives : DynamicCares(dynamics.directives[i], m)}}

\* MatchDebug::debug_matches: every prefix of the pattern matches.
DebugMatches(p, v) == StartsWith(p.is, v.is)

\* MatchVisitor: record_f64, record_i64, record_u64, record_bool, record_str
\* and record_debug.
ValueMatches(p, v) ==
  \/ p.type = v.type /\ p.type \in {"bool", "u64", "i64", "f64"} /\ p.is = v.is
  \/ p.type = "u64" /\ v.type = "i64" /\ p.is = v.is
  \/ p.type = "pat" /\ v.type = "debug" /\ v.is \in p.is
  \/ p.type = "debug" /\ v.type = "debug" /\ DebugMatches(p, v)

\* SpanMatcher::record_update; pairs are <<field, value>>.
RecordUpdate(matches, pairs) ==
  {[x EXCEPT !.got = @ \cup
      {f \in x.want : \E p \in pairs : p[1] = f.name /\ ValueMatches(f.value, p[2])}] :
     x \in matches}

\* CallsiteMatcher::to_span_match: a new span's values are recorded.
ToSpanMatch(matches, pairs) ==
  RecordUpdate({[x EXCEPT !.got = {}] : x \in matches}, pairs)

\* Mutant: the values are not waited for.
LevelOfUnmatched(matches) ==
  IF matches = {} THEN 0 ELSE Highest({x.level : x \in matches})

\* SpanMatcher::level; base_level is OFF.
LevelOf(matches) ==
  LET matched == {x \in matches : x.got = x.want}
  IN  IF matched = {} THEN 0 ELSE Highest({x.level : x \in matched})

-----------------------------------------------------------------------------
(* The questions the subscriber asks                                       *)

\* max_level_hint and has_value_filters.
MaxLevelHint ==
  IF \E i \in DOMAIN dynamics.directives : HasValues(dynamics.directives[i])
  THEN Trace
  ELSE HigherOf(statics.max, dynamics.max)

\* Mutant: what the static directives leave out is out.
RegisterCallsiteNever(m) ==
  IF hasDynamics /\ m.kind = "span" /\ Matcher(m) # {} THEN "always"
  ELSE IF StaticsEnabled(m) THEN "always" ELSE "never"

\* register_callsite and base_interest.
RegisterCallsite(m) ==
  IF hasDynamics /\ m.kind = "span" /\ Matcher(m) # {} THEN "always"
  ELSE IF StaticsEnabled(m) THEN "always"
  ELSE IF hasDynamics THEN "sometimes" ELSE "never"

\* enabled.
Enabled(t, m) ==
  \/ /\ hasDynamics /\ dynamics.max >= m.level
     /\ \/ m.kind = "span" /\ m \in DOMAIN byCs
        \/ \E i \in DOMAIN scope[t] : scope[t][i] >= m.level
  \/ statics.max >= m.level /\ StaticsEnabled(m)

\* What span! and event! test.
MacroEnabled(t, m) ==
  /\ m.level <= MaxLevelHint
  /\ cached[m] = "always" \/ (cached[m] = "sometimes" /\ Enabled(t, m))

-----------------------------------------------------------------------------
(* Actions                                                                 *)

Init ==
  /\ given \in Parsed /\ parsed = Len(given) /\ stage = "stats" /\ at = 1
  /\ statics = EmptySet /\ dynamics = EmptySet /\ hasDynamics = FALSE
  /\ byCs = << >> /\ byId = << >>
  /\ scope = [t \in Threads |-> <<>>]
  /\ attached = FALSE /\ cached = [m \in Sites |-> "never"]
  /\ live = [s \in Ids |-> NoSpan]
  /\ recorded = [s \in Ids |-> {}]
  /\ entries = [t \in Threads |-> <<>>]
  /\ inOrder = [t \in Threads |-> TRUE]

\* make_tables, of a directive; one can go into both tables.
MakeTables(d) ==
  /\ statics' = IF IsStatic(d) THEN AddTo("static", statics, d) ELSE statics
  /\ dynamics' = IF IsDynamic(d) THEN AddTo("dynamic", dynamics, d) ELSE dynamics
  /\ hasDynamics' = (hasDynamics \/ IsDynamic(d))

\* add_directive.
AddToTables(d) ==
  /\ IF IsStatic(d)
     THEN statics' = AddTo("static", statics, d) /\ UNCHANGED <<dynamics, hasDynamics>>
     ELSE /\ dynamics' = AddTo("dynamic", dynamics, d)
          /\ hasDynamics' = TRUE /\ UNCHANGED statics
  /\ given' = Append(given, d)

\* Builder::from_directives: the directives that are dynamic come after the others,
\* and the default directive is added if the tables are empty.
Build ==
  /\ stage # "built"
  /\ \/ /\ at <= Len(given) /\ at' = at + 1
        /\ IF IsDynamic(given[at]) <=> stage = "dyns"
           THEN MakeTables(given[at]) ELSE UNCHANGED tables
        /\ UNCHANGED <<stage, given>>
     \/ /\ at > Len(given) /\ stage = "stats" /\ stage' = "dyns" /\ at' = 1
        /\ UNCHANGED <<tables, given>>
     \/ /\ at > Len(given) /\ stage = "dyns" /\ stage' = "built" /\ at' = 1
        /\ IF ~hasDynamics /\ statics.directives = <<>>
           THEN AddToTables(Default) ELSE UNCHANGED <<tables, given>>
  /\ UNCHANGED <<parsed, byCs, attached, cached, spanVars, threadVars>>

AddDirective(d) ==
  /\ stage = "built" /\ ~attached
  /\ AddToTables(d)
  /\ UNCHANGED <<stage, at, parsed, byCs, attached, cached, spanVars, threadVars>>

\* The filter becomes part of a Dispatch, which registers every callsite.
Attach ==
  /\ stage = "built" /\ ~attached
  /\ attached' = TRUE
  /\ cached' = [m \in Sites |-> RegisterCallsite(m)]
  /\ byCs' = [m \in {m \in Sites : hasDynamics /\ m.kind = "span" /\ Matcher(m) # {}} |->
                Matcher(m)]
  /\ UNCHANGED <<tables, stage, at, given, parsed, spanVars, threadVars>>

\* on_new_span.
OnNewSpan(t, m, s, pairs) ==
  /\ attached /\ m.kind = "span" /\ MacroEnabled(t, m) /\ live[s] = NoSpan
  /\ live' = [live EXCEPT ![s] = m]
  /\ byId' = IF m \in DOMAIN byCs
             THEN [x \in DOMAIN byId \cup {s} |->
                     IF x = s THEN ToSpanMatch(byCs[m], pairs) ELSE byId[x]]
             ELSE byId
  /\ recorded' = [recorded EXCEPT ![s] = pairs]
  /\ UNCHANGED <<filterVars, threadVars>>

\* on_record.
OnRecord(s, pair) ==
  /\ live[s] # NoSpan
  /\ byId' = IF s \in DOMAIN byId
             THEN [byId EXCEPT ![s] = RecordUpdate(@, {pair})] ELSE byId
  /\ recorded' = [recorded EXCEPT ![s] = @ \cup {pair}]
  /\ UNCHANGED <<filterVars, threadVars, live>>

\* The reference: the directives on spans, but for the older ones of equals.  One
\* that has the names of fields alone is static when add_directive is given it.
OnSpans(i) == IsDynamic(given[i]) /\ (i > parsed => ~IsStatic(given[i]))
LatestOnSpans(i) ==
  /\ OnSpans(i)
  /\ \A j \in i + 1 .. Len(given) : OnSpans(j) => DynamicKey(given[j]) # DynamicKey(given[i])

\* What they say of span s.
MatchedLevel(s) ==
  LET All(d) == \A i \in DOMAIN d.fields : HasValue(d.fields[i]) =>
                  \E x \in recorded[s] :
                    x[1] = d.fields[i].name /\ ValueMatches(d.fields[i].value, x[2])
      levels == {given[i].level : i \in {i \in DOMAIN given :
                   LatestOnSpans(i) /\ DynamicCares(given[i], live[s]) /\ All(given[i])}}
  IN  IF levels = {} THEN 0 ELSE Highest(levels)

\* on_enter.
OnEnter(t, s) ==
  /\ live[s] # NoSpan /\ Len(entries[t]) < MaxDepth
  /\ scope' = IF s \in DOMAIN byId
              THEN [scope EXCEPT ![t] = Append(@, LevelOf(byId[s]))] ELSE scope
  /\ entries' = [entries EXCEPT ![t] = Append(@, [span |-> s, level |-> MatchedLevel(s)])]
  /\ UNCHANGED <<filterVars, spanVars, inOrder>>

\* The latest entry of s is left.
LeaveEntry(t, s) ==
  LET i == Highest({i \in DOMAIN entries[t] : entries[t][i].span = s})
      rest == [j \in 1 .. Len(entries[t]) - 1 |-> entries[t][IF j < i THEN j ELSE j + 1]]
  IN  /\ entries' = [entries EXCEPT ![t] = rest]
      /\ inOrder' = [inOrder EXCEPT ![t] = rest = <<>> \/ (@ /\ i = Len(entries[t]))]

\* Mutant: the top level is popped for every span.
OnExitAlways(t, s) ==
  /\ \E i \in DOMAIN entries[t] : entries[t][i].span = s
  /\ LeaveEntry(t, s)
  /\ scope' = IF scope[t] # <<>> THEN [scope EXCEPT ![t] = SubSeq(@, 1, Len(@) - 1)] ELSE scope
  /\ UNCHANGED <<filterVars, spanVars>>

\* on_exit: the top of the scope is popped, whichever span is exited.
OnExit(t, s) ==
  /\ \E i \in DOMAIN entries[t] : entries[t][i].span = s
  /\ LeaveEntry(t, s)
  /\ scope' = IF s \in DOMAIN byId /\ scope[t] # <<>>
              THEN [scope EXCEPT ![t] = SubSeq(@, 1, Len(@) - 1)] ELSE scope
  /\ UNCHANGED <<filterVars, spanVars>>

\* on_close; a handle that is entered keeps its span open.
OnClose(s) ==
  /\ live[s] # NoSpan
  /\ \A t \in Threads : \A i \in DOMAIN entries[t] : entries[t][i].span # s
  /\ live' = [live EXCEPT ![s] = NoSpan] /\ recorded' = [recorded EXCEPT ![s] = {}]
  /\ byId' = [x \in DOMAIN byId \ {s} |-> byId[x]]
  /\ UNCHANGED <<filterVars, threadVars>>

Pairs(m) == m.fields \X Values
NewPairs(m) == {{}} \cup {{p} : p \in Pairs(m)}

Next ==
  \/ Build \/ Attach
  \/ \E d \in Added : Len(given) < MaxGiven /\ AddDirective(d)
  \/ \E t \in Threads, m \in Sites, s \in Ids :
       \E pairs \in NewPairs(m) : OnNewSpan(t, m, s, pairs)
  \/ \E s \in Ids :
       \/ live[s] # NoSpan /\ \E pair \in Pairs(live[s]) : OnRecord(s, pair)
       \/ OnClose(s)
       \/ \E t \in Threads : OnEnter(t, s) \/ OnExit(t, s)

Spec == Init /\ [][Next]_vars

-----------------------------------------------------------------------------
(* The reference for decisions, from the directives as they were given     *)

LessSpecific(i, j) ==
  \/ KeyLess(StaticKey(given[i]), StaticKey(given[j]))
  \/ StaticKey(given[i]) = StaticKey(given[j]) /\ i < j

\* The directive that decides: of those that match the most specific, and of
\* equals the latest.
StaticallyWanted(m) ==
  LET for == {i \in DOMAIN given : IsStatic(given[i]) /\ StaticCares(given[i], m)}
  IN  \E i \in for : /\ \A j \in for \ {i} : LessSpecific(j, i)
                     /\ given[i].level >= m.level

WantedInside(t, m) == \E i \in DOMAIN entries[t] : entries[t][i].level >= m.level

NamedAt(m, level) ==
  \E i \in DOMAIN given :
    LatestOnSpans(i) /\ DynamicCares(given[i], m) /\ given[i].level >= level

Matchers == [want : SUBSET UNION {FieldMatcher(given[i]).want : i \in DOMAIN given},
             got : SUBSET UNION {FieldMatcher(given[i]).want : i \in DOMAIN given},
             level : 0 .. Trace]

\* The types of the variables; only spans that are open have matchers.
TypeOK ==
  /\ statics.max \in 0 .. Trace /\ dynamics.max \in 0 .. Trace
  /\ hasDynamics = (dynamics.directives # <<>>) /\ attached \in BOOLEAN
  /\ cached \in [Sites -> {"never", "sometimes", "always"}]
  /\ DOMAIN byCs \subseteq Sites /\ DOMAIN byId \subseteq {s \in Ids : live[s] # NoSpan}
  /\ \A s \in DOMAIN byId : byId[s] \subseteq Matchers
  /\ \A t \in Threads : scope[t] \in Seq(0 .. Trace)

\* "[span_b{name=\"bob\"}] will enable all spans or events that are inside a span
\* named span_b which has a field named name with value bob" and "tokio::net=info
\* will enable all ... that have the tokio::net target at the level info or above"
\* (EnvFilter): on a thread that exits spans in order, an event is enabled if and
\* only if the most specific, latest static directive that matches it says so or
\* the thread is in a span that a dynamic directive matched when it was entered.
EventsExact ==
  attached => \A t \in Threads, m \in Sites :
    m.kind = "event" /\ inOrder[t] =>
      (MacroEnabled(t, m) <=> StaticallyWanted(m) \/ WantedInside(t, m))

\* The same for spans: one that a dynamic directive matches is enabled if the
\* directive has its level, or if any directive is on the values of fields ("we
\* will enable *all* spans, because their field values are not known until
\* recording", max_level_hint); and no other span is.
SpansExact ==
  attached => \A t \in Threads, m \in Sites :
    m.kind = "span" /\ inOrder[t] =>
      /\ \/ StaticallyWanted(m) \/ WantedInside(t, m) \/ NamedAt(m, m.level)
         \/ NamedAt(m, 0) /\ \E i \in DOMAIN given : HasValues(given[i])
         => MacroEnabled(t, m)
      /\ MacroEnabled(t, m)
           => StaticallyWanted(m) \/ WantedInside(t, m) \/ NamedAt(m, 0)

\* EnvFilter decides events and spans as the directives say.
DecisionsExact == EventsExact /\ SpansExact

\* In whatever order a thread exits its spans, its scope has one level for each
\* entered span that the filter cares about: no level outlives the spans.
ScopeBalanced ==
  \A t \in Threads :
    Len(scope[t]) = Cardinality({i \in DOMAIN entries[t] :
                                   live[entries[t][i].span] \in DOMAIN byCs})

\* An interest of always or never says what enabled would answer, on any thread
\* and in any scope, so that caching it changes nothing (Interest), except for
\* spans more verbose than every dynamic directive.
InterestAgrees ==
  attached => \A t \in Threads, m \in Sites :
    /\ cached[m] = "always" /\ (m.kind = "span" => m.level <= dynamics.max)
         => Enabled(t, m)
    /\ cached[m] = "never" => ~Enabled(t, m)
==============================================================================
