------------------------------ MODULE Directives ------------------------------
(***************************************************************************)
(* Parsing and displaying the directives of EnvFilter (Directive::parse,   *)
(* filter/env/directive.rs and filter/env/field.rs) and of Targets         *)
(* (StaticDirective::from_str, filter/directive.rs; filter/targets.rs).    *)
(*                                                                         *)
(* A text is a sequence of characters, given by their codes.  The names of *)
(* levels, of booleans and of the other literals are characters of their   *)
(* own: the parsers look inside them only to compare them.  A Result is    *)
(* <<x>> for Ok(x) and <<>> for Err.                                       *)
(***************************************************************************)
EXTENDS DirectiveSets, SequencesExt

Space == 32
Comma == 44
Dash == 45
Colon == 58
Equal == 61
LSquare == 91
RSquare == 93
Underscore == 95
LBrace == 123
RBrace == 125
Paren == 40    \* a pattern with an unclosed ( is not a regular expression
Digits == 48 .. 57
Letters == 97 .. 122

LevelName(level) == 1000 + level   \* off, error, warn, info, debug, trace
LevelNames == 1000 .. 1005
Bools == 2000 .. 2001              \* false, true
Floats == {3000}                   \* 0.5
NaNName == 3001
Words == LevelNames \cup Bools \cup Floats \cup {NaNName}

\* char::is_alphanumeric, or one of '-', ':', '_'.
StartsTarget(c) ==
  c \in Digits \cup Letters \cup Words \cup {Dash, Colon, Underscore}

Err == <<>>
Ok(x) == <<x>>

-----------------------------------------------------------------------------
(* Texts                                                                   *)

IsNumber(text) == text # <<>> /\ \A i \in DOMAIN text : text[i] \in Digits
NumberOf(text) == FoldLeft(LAMBDA n, c : 10 * n + (c - 48), 0, text)

\* str::trim.
Trim(text) ==
  LET kept == {i \in DOMAIN text : text[i] # Space}
  IN  IF kept = {} THEN <<>> ELSE SubSeq(text, Min(kept), Max(kept))

\* str::split.
Split(text, c) ==
  FoldLeft(LAMBDA parts, x : IF x = c THEN Append(parts, <<>>)
                             ELSE [parts EXCEPT ![Len(parts)] = Append(@, x)],
           <<<<>>>>, text)

Join(parts, c) ==
  FoldLeft(LAMBDA text, p : IF text = <<>> THEN p ELSE text \o <<c>> \o p, <<>>, parts)

\* FromStr for LevelFilter.
LevelFrom(text) ==
  IF IsNumber(text) /\ NumberOf(text) <= 5 THEN Ok(NumberOf(text))
  ELSE IF text = <<>> THEN Ok(1)
  ELSE IF Len(text) = 1 /\ text[1] \in LevelNames THEN Ok(text[1] - 1000)
  ELSE Err

\* Display for an integer.
Decimal(n) ==
  LET k == CHOOSE k \in 1 .. 9 : n < 10 ^ k /\ (k = 1 \/ n >= 10 ^ (k - 1))
  IN  [i \in 1 .. k |-> 48 + ((n \div (10 ^ (k - i))) % 10)]

-----------------------------------------------------------------------------
(* EnvFilter's directives                                                  *)

Value(type, is) == [type |-> type, is |-> is, rank |-> 0]

\* parse_regex and parse_non_regex: a literal, or else a pattern.
ValueFrom(text, regex) ==
  CASE Len(text) = 1 /\ text[1] \in Bools -> Ok(Value("bool", text))
    [] IsNumber(text) -> Ok(Value("u64", <<NumberOf(text)>>))
    [] Len(text) > 1 /\ text[1] = Dash /\ IsNumber(Tail(text)) ->
         Ok(Value("i64", <<NumberOf(Tail(text))>>))
    [] Len(text) = 1 /\ text[1] \in Floats -> Ok(Value("f64", text))
    [] text = <<NaNName>> -> Ok(Value("nan", text))
    [] OTHER -> IF ~regex THEN Ok(Value("debug", text))
                ELSE IF Paren \in Range(text) THEN Err ELSE Ok(Value("pat", text))

\* field::Match::parse: what follows a second '=' is dropped.
MatchFrom(text, regex) ==
  LET parts == Split(text, Equal)
      value == IF Len(parts) = 1 THEN Ok(NoPattern) ELSE ValueFrom(parts[2], regex)
  IN  IF value = Err THEN Err ELSE Ok([name |-> parts[1], value |-> value[1]])

\* A bare level, or a target that is enabled at every level.
LevelOrTarget(text) ==
  CASE text = <<>> -> [level |-> 5, target |-> NoTarget]
    [] text # <<>> /\ LevelFrom(text) # Err -> [level |-> LevelFrom(text)[1], target |-> NoTarget]
    [] OTHER -> [level |-> 5, target |-> text]

\* A level after '='; none is TRACE.
LevelAfter(text) == IF text = <<>> THEN Ok(5) ELSE LevelFrom(text)

Failed == [state |-> "Failed", start |-> 0]

\* One character of Directive::parse, at i; indices are those of the trimmed
\* text, and what they cut is cut from the text that was given.
ParseStep(p, from, i, c, regex) ==
  LET cut == SubSeq(from, p.start, i - 1)
      To(state) == [p EXCEPT !.state = state, !.start = i + 1]
      field == IF cut = <<>> THEN Err ELSE MatchFrom(cut, regex)
      whole == LevelOrTarget(SubSeq(from, p.start, Len(from)))
  IN  CASE p.state = "Start" /\ c = LSquare -> To("Span")
        [] p.state = "Start" /\ StartsTarget(c) ->
             [p EXCEPT !.state = "LevelOrTarget", !.start = i]
        [] p.state = "LevelOrTarget" /\ c = Equal -> [To("Level") EXCEPT !.target = cut]
        [] p.state = "LevelOrTarget" /\ c = LSquare -> [To("Span") EXCEPT !.target = cut]
        [] p.state = "LevelOrTarget" /\ c = Comma ->
             [To("Complete") EXCEPT !.level = whole.level, !.target = whole.target]
        [] p.state = "Target" /\ c = Equal -> To("Level")
        [] p.state = "Span" /\ c = RSquare -> [To("Target") EXCEPT !.span = cut]
        [] p.state = "Span" /\ c = LBrace ->
             [To("Field") EXCEPT !.span = IF cut = <<>> THEN NoName ELSE cut]
        [] p.state = "Field" /\ c \in {RBrace, Comma} /\ field # Err ->
             [To(IF c = Comma THEN "Field" ELSE "Fields") EXCEPT
                !.fields = Append(@, field[1])]
        [] p.state = "Fields" /\ c = RSquare -> To("Target")
        [] p.state = "Level" /\ c = Comma /\ LevelAfter(cut) # Err ->
             [To("Complete") EXCEPT !.level = LevelAfter(cut)[1]]
        [] p.state \in {"LevelOrTarget", "Span"} -> p
        [] p.state = "Field" /\ c \notin {RBrace, Comma} -> p
        [] p.state = "Level" /\ c # Comma -> p
        [] OTHER -> Failed

\* Directive::parse.
Parse(from, regex) ==
  LET first == [state |-> "Start", start |-> 1, level |-> 5, target |-> NoTarget,
                span |-> NoName, fields |-> <<>>]
      p == FoldLeftDomain(LAMBDA q, i : ParseStep(q, from, i, Trim(from)[i], regex),
                          first, Trim(from))
      rest == SubSeq(from, p.start, Len(from))
      With(level, target) == Ok([target |-> target, span |-> p.span,
                                 fields |-> p.fields, level |-> level])
  IN  CASE p.state = "LevelOrTarget" ->
             With(LevelOrTarget(rest).level, LevelOrTarget(rest).target)
        [] p.state = "Level" ->
             IF LevelAfter(rest) = Err THEN Err ELSE With(LevelAfter(rest)[1], p.target)
        [] p.state \in {"Target", "Complete"} -> With(p.level, p.target)
        [] OTHER -> Err

\* Display for ValueMatch and for Match.
ValueText(v) ==
  CASE v.type = "u64" -> Decimal(v.is[1])
    [] v.type = "i64" -> <<Dash>> \o Decimal(v.is[1])
    [] OTHER -> v.is

FieldText(f) == IF f.value = NoPattern THEN f.name
                ELSE f.name \o <<Equal>> \o ValueText(f.value)

\* wrote_any: something that an '=' follows.
WroteAny(d) == d.target # NoTarget \/ HasName(d) \/ d.fields # <<>>

\* Display for Directive.
Display(d) ==
  LET fields == Join([i \in DOMAIN d.fields |-> FieldText(d.fields[i])], Comma)
      inner == (IF HasName(d) THEN d.span ELSE <<>>)
                 \o (IF d.fields = <<>> THEN <<>> ELSE <<LBrace>> \o fields \o <<RBrace>>)
      bracket == IF HasName(d) \/ d.fields # <<>>
                 THEN <<LSquare>> \o inner \o <<RSquare>> ELSE <<>>
  IN  TargetText(d) \o bracket \o (IF WroteAny(d) THEN <<Equal>> ELSE <<>>)
        \o <<LevelName(d.level)>>

-----------------------------------------------------------------------------
(* Targets                                                                 *)

\* The places where "[{" starts.
Opens(text) ==
  {i \in DOMAIN text : i < Len(text) /\ text[i] = LSquare /\ text[i + 1] = LBrace}

\* The length of the text without the "}]"s it ends with.
TrimmedLen(text) ==
  Min({n \in 0 .. Len(text) :
         /\ (Len(text) - n) % 2 = 0
         /\ \A i \in n + 1 .. Len(text) :
              text[i] = IF (i - n) % 2 = 1 THEN RBrace ELSE RSquare})

Static(target, fields, level) ==
  [target |-> target, span |-> NoName, level |-> level,
   fields |-> [i \in DOMAIN fields |-> [name |-> fields[i], value |-> NoPattern]]]

\* FromStr for StaticDirective.
StaticFrom(text) ==
  LET parts == Split(text, Equal)
      before == parts[1]
      opens == Opens(before)
      level == LevelFrom(parts[2])
      listed == SubSeq(before, Min(opens) + 2, Len(before))
      names == SelectSeq(Split(SubSeq(listed, 1, TrimmedLen(listed)), Comma),
                         LAMBDA name : name # <<>>)
  IN  IF Len(parts) = 1
      THEN Ok(IF LevelFrom(before) # Err THEN Static(NoTarget, <<>>, LevelFrom(before)[1])
              ELSE Static(before, <<>>, 5))
      ELSE IF Len(parts) > 2 \/ level = Err \/ Cardinality(opens) > 1 THEN Err
      ELSE IF opens = {} THEN Ok(Static(before, <<>>, level[1]))
      ELSE IF TrimmedLen(listed) = Len(listed) THEN Err
      ELSE Ok(Static(SubSeq(before, 1, Min(opens) - 1), names, level[1]))

\* FromIterator and Extend for DirectiveSet.
Statics(seq) == FoldLeft(LAMBDA set, d : AddTo("static", set, d), EmptySet, seq)

\* FromStr for Targets.
TargetsFrom(text) ==
  LET parts == Split(text, Comma)
      each == [i \in DOMAIN parts |-> StaticFrom(parts[i])]
  IN  IF Err \in Range(each) THEN Err
      ELSE Ok(Statics([i \in DOMAIN each |-> each[i][1]]))

\* Display for Targets; for StaticDirective it is Directive's.
TargetsText(targets) ==
  Join([i \in DOMAIN targets.directives |-> Display(targets.directives[i])], Comma)

\* with_target, with_targets and with_default.
WithTarget(targets, target, level) == AddTo("static", targets, Static(target, <<>>, level))
WithDefault(targets, level) == AddTo("static", targets, Static(NoTarget, <<>>, level))

\* Targets::default_level; -1 for None.
DefaultLevel(targets) ==
  LET found == SelectSeq(targets.directives, LAMBDA d : d.target = NoTarget)
  IN  IF found = <<>> THEN -1 ELSE found[1].level

\* Iter: the targets and their levels.
TargetsIter(targets) ==
  LET kept == SelectSeq(targets.directives, LAMBDA d : d.target # NoTarget)
  IN  [i \in DOMAIN kept |-> <<kept[i].target, kept[i].level>>]

\* Statics::enabled, of Targets as a layer and as a filter.
TargetsEnabled(targets, m) ==
  LET for == SelectSeq(targets.directives, LAMBDA d : StaticCares(d, m))
  IN  for # <<>> /\ Head(for).level >= m.level

\* Mutant: the least specific directive decides.
WouldEnableLast(targets, target, level) ==
  LET for == SelectSeq(targets.directives,
                       LAMBDA d : d.target # NoTarget => IsPrefix(d.target, target))
  IN  for # <<>> /\ Last(for).level >= level

\* would_enable: target_enabled, directives_for_target and cares_about_target.
WouldEnable(targets, target, level) ==
  LET for == SelectSeq(targets.directives,
                       LAMBDA d : /\ d.target # NoTarget => IsPrefix(d.target, target)
                                  /\ d.fields = <<>>)
  IN  for # <<>> /\ Head(for).level >= level
=============================================================================
