------------------------------- MODULE Writers -------------------------------
(***************************************************************************)
(* The combinators of MakeWriter (fmt/writer.rs): how a tree of them makes *)
(* a writer for the metadata of an event, and where that writer writes.    *)
(* Levels are numbers, ERROR = 1 to TRACE = 5; a filter is the set of the  *)
(* levels it accepts.                                                      *)
(***************************************************************************)
EXTENDS Integers, FiniteSets

Leaf(id) == [make |-> "leaf", id |-> id]
WithMaxLevel(m, l) == [make |-> "max", inner |-> m, level |-> l]
WithMinLevel(m, l) == [make |-> "min", inner |-> m, level |-> l]
WithFilter(m, accepts) == [make |-> "filter", inner |-> m, accepts |-> accepts]
TeeOf(a, b) == [make |-> "tee", a |-> a, b |-> b]
OrElse(a, b) == [make |-> "orElse", a |-> a, b |-> b]

\* Only these make an OptionalWriter, which or_else asks of its left side.
MakesOptional(m) == m.make \in {"max", "min", "filter"}

\* Writers: a leaf's own, the two sides of an EitherWriter, and a Tee.
EitherA(w) == [writer |-> "A", w |-> w]
EitherB(w) == [writer |-> "B", w |-> w]
Sink == [writer |-> "sink"]

\* OrElse::make_writer: the right side's writer only if the left made none.
OrElseWriter(wa, wb) == IF wa.writer = "A" THEN EitherA(wa.w) ELSE EitherB(wb)

\* make_writer_for.
RECURSIVE MakeWriterFor(_, _)
MakeWriterFor(m, level) ==
  CASE m.make = "leaf" -> [writer |-> "leaf", id |-> m.id]
    [] m.make = "max" -> IF level <= m.level THEN EitherA(MakeWriterFor(m.inner, level))
                         ELSE EitherB(Sink)
    [] m.make = "min" -> IF level >= m.level THEN EitherA(MakeWriterFor(m.inner, level))
                         ELSE EitherB(Sink)
    [] m.make = "filter" -> IF level \in m.accepts THEN EitherA(MakeWriterFor(m.inner, level))
                            ELSE EitherB(Sink)
    [] m.make = "tee" -> [writer |-> "tee", a |-> MakeWriterFor(m.a, level),
                          b |-> MakeWriterFor(m.b, level)]
    [] m.make = "orElse" -> OrElseWriter(MakeWriterFor(m.a, level),
                                         MakeWriterFor(m.b, level))

\* impl_tee!: both sides are called before either result is looked at.
TeeBoth(ra, rb) == [wrote |-> ra.wrote \cup rb.wrote, ok |-> ra.ok /\ rb.ok]

\* write_all: the leaves that were called, and whether it returns Ok.
RECURSIVE WriteAll(_, _)
WriteAll(w, failing) ==
  CASE w.writer = "leaf" -> [wrote |-> {w.id}, ok |-> w.id \notin failing]
    [] w.writer = "sink" -> [wrote |-> {}, ok |-> TRUE]
    [] w.writer \in {"A", "B"} -> WriteAll(w.w, failing)
    [] w.writer = "tee" -> TeeBoth(WriteAll(w.a, failing), WriteAll(w.b, failing))

-----------------------------------------------------------------------------
\* The combinator itself lets the level through.
Accepts(m, level) ==
  CASE m.make = "max" -> level <= m.level
    [] m.make = "min" -> level >= m.level
    [] m.make = "filter" -> level \in m.accepts
    [] OTHER -> TRUE

\* The ways from the root to a leaf: <<combinator, side>> pairs.
RECURSIVE PathsTo(_, _)
PathsTo(m, id) ==
  CASE m.make = "leaf" -> IF m.id = id THEN {{}} ELSE {}
    [] m.make \in {"tee", "orElse"} ->
         {p \cup {<<m, "a">>} : p \in PathsTo(m.a, id)}
           \cup {p \cup {<<m, "b">>} : p \in PathsTo(m.b, id)}
    [] OTHER -> {p \cup {<<m, "inner">>} : p \in PathsTo(m.inner, id)}

Reaches(path, level) ==
  \A step \in path :
    /\ Accepts(step[1], level)
    /\ step[1].make = "orElse" /\ step[2] = "b" => ~Accepts(step[1].a, level)
    /\ step[1].make = "orElse" /\ step[2] = "a" => Accepts(step[1].a, level)

\* An event is written to a leaf iff every level and filter on some way to it
\* accepts the event and each or_else that it is on the right of was refused on
\* the left; another leaf's error keeps none from being written, and is
\* returned.
WritesExact(m, level, failing, leaves) ==
  LET result == WriteAll(MakeWriterFor(m, level), failing)
  IN  /\ result.wrote = {id \in leaves : \E p \in PathsTo(m, id) : Reaches(p, level)}
      /\ result.ok <=> result.wrote \cap failing = {}
=============================================================================
