---------------------------- MODULE DirectiveSets ----------------------------
(***************************************************************************)
(* The directives of EnvFilter and Targets, and the sets they keep them in *)
(* (tracing-subscriber/src/filter/directive.rs, filter/env/directive.rs).  *)
(*                                                                         *)
(* A target and a name are texts: sequences of numbers, so that they have  *)
(* prefixes, lengths and an order.  The rank of a value pattern is its     *)
(* place in the order of ValueMatch.                                       *)
(***************************************************************************)
EXTENDS Integers, Sequences, FiniteSets

CONSTANTS NoTarget, NoName, NoPattern

HigherOf(a, b) == IF a > b THEN a ELSE b

\* str::starts_with.
StartsWith(text, part) == Len(part) <= Len(text) /\ SubSeq(text, 1, Len(part)) = part

-----------------------------------------------------------------------------
(* Directives                                                              *)

HasName(d) == d.span # NoName
HasValue(f) == f.value # NoPattern
HasValues(d) == \E i \in DOMAIN d.fields : HasValue(d.fields[i])
IsStatic(d) == ~HasName(d) /\ ~HasValues(d)
IsDynamic(d) == HasName(d) \/ d.fields # <<>>
FieldNames(d) == {d.fields[i].name : i \in DOMAIN d.fields}

TargetLen(d) == IF d.target = NoTarget THEN -1 ELSE Len(d.target)
TargetText(d) == IF d.target = NoTarget THEN <<>> ELSE d.target

\* Ord for field::Match, as a text: a value or none, the name, which ends before
\* every character, and the value.
FieldKey(f) ==
  IF HasValue(f) THEN <<1>> \o f.name \o <<-1, f.value.rank>> ELSE <<0>> \o f.name \o <<-1, 0>>

\* Ord for Directive: what cmp compares, in turn and before it reverses.
DynamicKey(d) ==
  <<<<TargetLen(d), IF HasName(d) THEN 1 ELSE 0, Len(d.fields)>>, TargetText(d),
    IF HasName(d) THEN d.span ELSE <<>>>>
    \o [i \in DOMAIN d.fields |-> FieldKey(d.fields[i])]

\* Ord for StaticDirective.
StaticKey(d) ==
  <<<<TargetLen(d), Len(d.fields)>>, TargetText(d)>>
    \o [i \in DOMAIN d.fields |-> d.fields[i].name]

\* Ord for str.
TextLess(a, b) ==
  \E i \in DOMAIN b : /\ i = Len(a) + 1 \/ (i \in DOMAIN a /\ a[i] < b[i])
                      /\ \A j \in 1 .. i - 1 : a[j] = b[j]

\* Keys that differ do so at a place that both have.
KeyLess(a, b) ==
  \E i \in DOMAIN a \cap DOMAIN b :
    TextLess(a[i], b[i]) /\ \A j \in 1 .. i - 1 : a[j] = b[j]

TargetMatches(d, m) == d.target # NoTarget => StartsWith(m.target, d.target)

\* Match for Directive::cares_about.
DynamicCares(d, m) ==
  /\ TargetMatches(d, m)
  /\ HasName(d) => d.span = m.name
  /\ FieldNames(d) \subseteq m.fields

\* Match for StaticDirective::cares_about: fields only count for events.
StaticCares(d, m) ==
  TargetMatches(d, m) /\ (m.kind = "event" => FieldNames(d) \subseteq m.fields)

IsDirective(d) ==
  /\ d.target \in Seq(Nat) \cup {NoTarget} /\ d.span \in Seq(Nat) \cup {NoName}
  /\ d.level \in Nat /\ d.fields \in Seq({d.fields[i] : i \in DOMAIN d.fields})
  /\ \A i \in DOMAIN d.fields : /\ d.fields[i].name \in Seq(Nat)
                                /\ HasValue(d.fields[i]) => d.fields[i].value.rank \in Nat

-----------------------------------------------------------------------------
(* DirectiveSet                                                            *)

EmptySet == [directives |-> <<>>, max |-> 0]

\* Ord, of the directives of each table.
KeyIn(table, d) == IF table = "static" THEN StaticKey(d) ELSE DynamicKey(d)

\* What binary_search returns: where d's equal is, or where d belongs, as the most
\* specific are first.
Place(table, seq, d) ==
  1 + Cardinality({i \in DOMAIN seq : KeyLess(KeyIn(table, d), KeyIn(table, seq[i]))})

\* An equal directive is replaced.
Insert(table, seq, d) ==
  LET p == Place(table, seq, d)
  IN  IF p \in DOMAIN seq /\ KeyIn(table, seq[p]) = KeyIn(table, d)
      THEN [seq EXCEPT ![p] = d]
      ELSE SubSeq(seq, 1, p - 1) \o <<d>> \o SubSeq(seq, p, Len(seq))

\* DirectiveSet::add.
AddTo(table, set, d) ==
  [directives |-> Insert(table, set.directives, d), max |-> HigherOf(set.max, d.level)]
=============================================================================
