-------------------------------- MODULE Values --------------------------------
(***************************************************************************)
(* tracing-core: levels and their comparisons (metadata.rs), values, the   *)
(* sets of them that events and spans carry, and the visitors they are     *)
(* recorded with (field.rs); tracing-subscriber: the visitors that wrap    *)
(* another one (field/).                                                   *)
(***************************************************************************)
EXTENDS Integers, FiniteSets, SequencesExt

CONSTANTS Absent

-----------------------------------------------------------------------------
(* Levels.  A Level is its LevelInner, and a LevelFilter <<>> for OFF or   *)
(* the sequence of its level: the integers run against the order.          *)

LevelInner == [TRACE |-> 0, DEBUG |-> 1, INFO |-> 2, WARN |-> 3, ERROR |-> 4]
Levels == 0 .. 4
OFF_USIZE == LevelInner.ERROR + 1

FromLevel(level) == <<level>>
LevelFilters == {<<>>} \cup {FromLevel(l) : l \in Levels}

filter_as_usize(filter) == IF filter = <<>> THEN OFF_USIZE ELSE filter[1]

\* What the comparisons of a Level and of a LevelFilter cast their sides to.
LevelUsize(level) == level
Usize(x) == IF x.filter THEN filter_as_usize(x.value) ELSE LevelUsize(x.value[1])

Lt(a, b) == Usize(b) < Usize(a)
Le(a, b) == Usize(b) <= Usize(a)
Gt(a, b) == Usize(b) > Usize(a)
Ge(a, b) == Usize(b) >= Usize(a)
LevelEq(a, b) == Usize(a) = Usize(b)

\* Ord: -1, 0 or 1 for less, equal and greater.
Cmp(a, b) ==
  LET l == Usize(b)
      r == Usize(a)
  IN  IF l < r THEN -1 ELSE IF l = r THEN 0 ELSE 1

\* set_max stores, and current reads, the global maximum.
SetMax(filter) == IF filter = <<>> THEN OFF_USIZE ELSE filter[1]
Current(max) ==
  CASE max = LevelInner.ERROR -> FromLevel(LevelInner.ERROR)
    [] max = LevelInner.WARN -> FromLevel(LevelInner.WARN)
    [] max = LevelInner.INFO -> FromLevel(LevelInner.INFO)
    [] max = LevelInner.DEBUG -> FromLevel(LevelInner.DEBUG)
    [] max = LevelInner.TRACE -> FromLevel(LevelInner.TRACE)
    [] max = OFF_USIZE -> <<>>

\* A text is a number, or a word in some mixture of cases, or empty.
Number(n) == [number |-> n, word |-> ""]
Word(w) == [number |-> -1, word |-> w]

LevelName(level) ==
  CASE level = 0 -> "trace" [] level = 1 -> "debug" [] level = 2 -> "info"
    [] level = 3 -> "warn" [] level = 4 -> "error"
LevelDisplay(level) == Word(LevelName(level))
FilterDisplay(filter) == Word(IF filter = <<>> THEN "off" ELSE LevelName(filter[1]))

\* The level as a sequence, or <<>> if it does not parse.
LevelFromStr(text) ==
  CASE text.number = 1 \/ text.word = "error" -> <<LevelInner.ERROR>>
    [] text.number = 2 \/ text.word = "warn" -> <<LevelInner.WARN>>
    [] text.number = 3 \/ text.word = "info" -> <<LevelInner.INFO>>
    [] text.number = 4 \/ text.word = "debug" -> <<LevelInner.DEBUG>>
    [] text.number = 5 \/ text.word = "trace" -> <<LevelInner.TRACE>>
    [] OTHER -> <<>>
FilterFromStr(text) ==
  IF text.number = 0 \/ text.word = "off" THEN <<<<>>>>
  ELSE IF text = Word("") THEN <<FromLevel(LevelInner.ERROR)>>
  ELSE LET level == LevelFromStr(text) IN IF level = <<>> THEN <<>> ELSE <<level>>

-----------------------------------------------------------------------------
(* Values, and Value::record.  A value is the sequence of its wrappers,    *)
(* the outermost first, that ends with what it is at the bottom.           *)

Wrappers == {"ref", "mut", "box", "wrapping", "some"}
Primitives == {"f64", "i64", "u64", "i128", "u128", "bool", "str", "bytes", "error"}

\* The methods that a value calls on its visitor: none for Empty and None.
Record(value) ==
  LET bottom == Last(value)
  IN  CASE bottom \in {"empty", "none"} -> <<>>
        [] bottom \in Primitives -> <<[method |-> bottom, form |-> "plain"]>>
        [] bottom \in {"display", "arguments"} -> <<[method |-> "debug", form |-> "display"]>>
        [] bottom = "debug" -> <<[method |-> "debug", form |-> "plain"]>>

\* Visit's default methods all end in record_debug.
DefaultForm(call) ==
  CASE call.method = "bytes" -> "hex"
    [] call.method = "error" -> "display"
    [] OTHER -> call.form
OrDebug(overridden, call) ==
  IF call.method \in overridden \cup {"debug"} THEN call
  ELSE [method |-> "debug", form |-> DefaultForm(call)]

-----------------------------------------------------------------------------
(* Visitors that wrap visitors.  The stack is a sequence of wrappers, the  *)
(* outermost first; a call goes through one after the other.               *)

AltMethods == {"f64", "i64", "u64", "bool", "str"}
Alt(call) ==
  LET c == OrDebug(AltMethods, call)
  IN  IF c.method = "debug" THEN [c EXCEPT !.form = IF @ = "plain" THEN "alternate" ELSE @] ELSE c

Messages(name, call) ==
  LET c == OrDebug(AltMethods, call)
  IN  IF c.method = "str" /\ name = "message" THEN [method |-> "debug", form |-> "display"] ELSE c

DelimitedMethods == {"i64", "u64", "bool", "str"}

\* VisitDelimited::delimit, of the wrapper at depth d: what is written goes to
\* the innermost visitor's writer.  v has the text, what delimiters have seen,
\* their errors, and the numbers of the writes of delimiters that fail.
Delimit(v, d) ==
  IF v.err[d] THEN v
  ELSE IF ~v.seen[d] THEN [v EXCEPT !.seen[d] = TRUE]
  ELSE IF v.failing = v.writes + 1 THEN [v EXCEPT !.writes = @ + 1, !.err[d] = TRUE]
  ELSE [v EXCEPT !.writes = @ + 1, !.text = Append(@, [delimiter |-> d])]

\* One call of the outermost visitor.
Visit(stack, leaf, v, name, call) ==
  LET step(acc, d) ==
        CASE stack[d] = "alt" -> [acc EXCEPT !.call = Alt(@)]
          [] stack[d] = "messages" -> [acc EXCEPT !.call = Messages(name, @)]
          [] stack[d] = "delimited" ->
               [call |-> OrDebug(DelimitedMethods, acc.call), v |-> Delimit(acc.v, d)]
      end == FoldLeft(step, [call |-> call, v |-> v], [d \in DOMAIN stack |-> d])
      got == OrDebug(leaf, end.call)
  IN  [end.v EXCEPT !.text = Append(@, [delimiter |-> 0, name |-> name, method |-> got.method,
                                        form |-> got.form])]

-----------------------------------------------------------------------------
(* Sets of fields and of values                                            *)

\* The index of a field in its set, <<>> if there is none of that name.
FieldNamed(set, name) ==
  IF \E i \in DOMAIN set.names : set.names[i] = name
  THEN <<[callsite |-> set.callsite,
          i |-> CHOOSE i \in DOMAIN set.names :
                  set.names[i] = name /\ \A j \in 1 .. i - 1 : set.names[j] # name,
          names |-> set.names]>>
  ELSE <<>>

FieldIter(set) ==
  [i \in DOMAIN set.names |-> [callsite |-> set.callsite, i |-> i, names |-> set.names]]
FieldEq(f, g) == f.callsite = g.callsite /\ f.i = g.i
FieldName(f) == f.names[f.i]

\* A ValueSet: explicit pairs of a field and a value, or a value for every field
\* of the set; a value is a sequence as above, <<>> for none.
RecordAll(vs) ==
  IF vs.all
  THEN SelectSeq([i \in DOMAIN vs.values |-> <<FieldIter(vs.fields)[i], vs.values[i]>>],
                 LAMBDA p : p[2] # <<>>)
  ELSE SelectSeq(vs.values,
                 LAMBDA p : p[1].callsite = vs.fields.callsite /\ p[2] # <<>>)

ValuesLen(vs) ==
  IF vs.all THEN Len(vs.values)
  ELSE Len(SelectSeq(vs.values, LAMBDA p : p[1].callsite = vs.fields.callsite))
ValuesContain(vs, f) ==
  /\ f.callsite = vs.fields.callsite
  /\ IF vs.all THEN vs.values[f.i] # <<>>
     ELSE \E p \in Range(vs.values) : FieldEq(p[1], f) /\ p[2] # <<>>
ValuesEmpty(vs) ==
  IF vs.all THEN \A v \in Range(vs.values) : v = <<>>
  ELSE \A p \in Range(vs.values) : p[2] = <<>> \/ p[1].callsite # vs.fields.callsite

Visited(stack, leaf, failing, vs) ==
  LET fresh == [text |-> <<>>, seen |-> [d \in DOMAIN stack |-> FALSE],
                err |-> [d \in DOMAIN stack |-> FALSE], writes |-> 0, failing |-> failing]
      one(v, p) == FoldLeft(LAMBDA acc, call : Visit(stack, leaf, acc, FieldName(p[1]), call),
                            v, Record(p[2]))
  IN  FoldLeft(one, fresh, RecordAll(vs))

\* VisitDelimited::finish, of all the delimiters.
FinishOk(v) == \A d \in DOMAIN v.err : ~v.err[d]

-----------------------------------------------------------------------------
(* Properties                                                              *)

\* Levels compare as verbosities, OFF < ERROR < ... < TRACE, in each of the four
\* pairs of types and with each operator, although they are stored the other way
\* round; the stored maximum is read back; what is displayed is parsed back.
Verbosity(x) == IF x.value = <<>> THEN 0 ELSE 5 - x.value[1]
LevelsOrdered(a, b) ==
  /\ Lt(a, b) <=> Verbosity(a) < Verbosity(b)
  /\ Le(a, b) <=> Verbosity(a) <= Verbosity(b)
  /\ Gt(a, b) <=> Verbosity(a) > Verbosity(b)
  /\ Ge(a, b) <=> Verbosity(a) >= Verbosity(b)
  /\ LevelEq(a, b) <=> Verbosity(a) = Verbosity(b)
  /\ Cmp(a, b) < 0 <=> Lt(a, b)
  /\ Cmp(a, b) > 0 <=> Gt(a, b)
  /\ a.filter => /\ Current(SetMax(a.value)) = a.value
                 /\ FilterFromStr(FilterDisplay(a.value)) = <<a.value>>
                 /\ FilterFromStr(Number(Verbosity(a))) = <<a.value>>
  /\ ~a.filter => /\ LevelFromStr(LevelDisplay(a.value[1])) = a.value
                  /\ LevelFromStr(Number(Verbosity(a))) = a.value

\* The values that a visitor should see: those that are there, of fields of the
\* set's own callsite, in order.
Present(vs) ==
  SelectSeq(IF vs.all THEN [i \in DOMAIN vs.values |-> <<FieldIter(vs.fields)[i], vs.values[i]>>]
            ELSE vs.values,
            LAMBDA p : /\ p[1].callsite = vs.fields.callsite
                       /\ p[2] # <<>> /\ Last(p[2]) \notin {"empty", "none"})

\* However visitors are wrapped, the innermost one sees every present value once,
\* in order, by the method for its type if it has it and the wrappers hand it
\* through; the messages are displayed and Debug values are in the alternate form
\* exactly if a wrapper does that; and if finish succeeds each delimiter stands
\* between any two values and nowhere else.
VisitMeant(stack, leaf, failing, vs) ==
  LET v == Visited(stack, leaf, failing, vs)
      seen == SelectSeq(v.text, LAMBDA x : x.delimiter = 0)
      want == Present(vs)
      delimiters == SelectSeq([d \in DOMAIN stack |-> d], LAMBDA d : stack[d] = "delimited")
      between == Len(delimiters)
  IN  /\ Len(seen) = Len(want)
      /\ \A i \in DOMAIN want :
           LET kind == Last(want[i][2])
               name == FieldName(want[i][1])
               message == name = "message" /\ kind = "str" /\ "messages" \in Range(stack)
           IN  /\ seen[i].name = name
               /\ message => seen[i].method = "debug" /\ seen[i].form = "display"
               /\ kind \in DelimitedMethods /\ ~message =>
                    seen[i].method = IF kind \in leaf THEN kind ELSE "debug"
               /\ kind = "debug" =>
                    seen[i].form = IF "alt" \in Range(stack) THEN "alternate" ELSE "plain"
               /\ kind = "bytes" /\ seen[i].method = "debug" => seen[i].form = "hex"
               /\ kind \in {"error", "display"} /\ seen[i].method = "debug" =>
                    seen[i].form = "display"
      /\ FinishOk(v) =>
           /\ Len(v.text) = Len(want) + between * Max({0, Len(want) - 1})
           /\ \A n \in DOMAIN v.text :
                v.text[n].delimiter =
                  LET k == (n - 1) % (between + 1) IN IF k = 0 THEN 0 ELSE delimiters[k]

\* is_empty and contains agree with what record visits, and len counts at least that.
SetMeant(vs) ==
  LET recorded == RecordAll(vs)
  IN  /\ ValuesEmpty(vs) <=> recorded = <<>>
      /\ ValuesLen(vs) >= Len(recorded)
      /\ \A i \in DOMAIN vs.fields.names :
           LET f == FieldIter(vs.fields)[i]
           IN  /\ ValuesContain(vs, f) <=> \E p \in Range(recorded) : FieldEq(p[1], f)
               /\ FieldName(FieldNamed(vs.fields, FieldName(f))[1]) = FieldName(f)
===============================================================================
