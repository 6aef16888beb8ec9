------------------------------ MODULE LogRecords ------------------------------
(***************************************************************************)
(* Records of the log crate as events (tracing-log).  An event's metadata  *)
(* is static, so a record's own target, module, file and line travel as    *)
(* values of fields, and normalized_metadata puts them back.               *)
(* Levels are numbers, ERROR = 1 to TRACE = 5, in both crates.             *)
(***************************************************************************)
EXTENDS Integers, Sequences, SequencesExt

CONSTANT Absent     \* None

FieldNames == <<"message", "log.target", "log.module_path", "log.file", "log.line">>

\* A field is known by its callsite and its place in that callsite's set.
Field(callsite, i) == [callsite |-> callsite, i |-> i]

\* loglevel_to_cs: the callsite, the Fields and the metadata of a level.
LogCallsite(level) == [log |-> level]
LogMeta(level) ==
  [callsite |-> LogCallsite(level), name |-> "log event", target |-> "log", level |-> level,
   module |-> Absent, file |-> Absent, line |-> Absent, fields |-> FieldNames]
KeysOf(level) ==
  [name \in {FieldNames[i] : i \in DOMAIN FieldNames} |->
     Field(LogCallsite(level), CHOOSE i \in DOMAIN FieldNames : FieldNames[i] = name)]

\* Record::as_trace: what the dispatcher is asked about.
AsTrace(r) ==
  [callsite |-> LogCallsite(r.level), name |-> "log record", target |-> r.target,
   level |-> r.level, module |-> r.module, file |-> r.file, line |-> r.line,
   fields |-> FieldNames]

\* The event of dispatch_record: a value for each key, or none.
EventOf(r) ==
  LET keys == KeysOf(r.level)
  IN  [meta |-> LogMeta(r.level),
       values |-> <<<<keys["message"], [is |-> "debug", v |-> r.args]>>,
                    <<keys["log.target"], [is |-> "str", v |-> r.target]>>,
                    <<keys["log.module_path"], [is |-> "str", v |-> r.module]>>,
                    <<keys["log.file"], [is |-> "str", v |-> r.file]>>,
                    <<keys["log.line"], [is |-> "u64", v |-> r.line]>>>>]

\* ValueSet::record: the values that are there, of this event's own callsite.
Recorded(event) ==
  SelectSeq(event.values,
            LAMBDA p : p[2].v # Absent /\ p[1].callsite = event.meta.callsite)

\* LogVisitor, of one value.
LogVisit(seen, keys, pair) ==
  LET is(name) == pair[1] = keys[name]
  IN  CASE pair[2].is = "u64" /\ is("log.line") -> [seen EXCEPT !.line = pair[2].v]
        [] pair[2].is = "str" /\ is("log.file") -> [seen EXCEPT !.file = pair[2].v]
        [] pair[2].is = "str" /\ is("log.target") -> [seen EXCEPT !.target = pair[2].v]
        [] pair[2].is = "str" /\ is("log.module_path") -> [seen EXCEPT !.module = pair[2].v]
        [] OTHER -> seen

IsLog(event) == event.meta.callsite = LogCallsite(event.meta.level)

NormalizedMetadata(event) ==
  LET none == [target |-> Absent, module |-> Absent, file |-> Absent, line |-> Absent]
      seen == FoldLeft(LAMBDA a, p : LogVisit(a, KeysOf(event.meta.level), p),
                       none, Recorded(event))
  IN  IF ~IsLog(event) THEN Absent
      ELSE [callsite |-> event.meta.callsite, name |-> "log event",
            target |-> IF seen.target = Absent THEN "log" ELSE seen.target,
            level |-> event.meta.level, module |-> seen.module, file |-> seen.file,
            line |-> seen.line, fields |-> <<"message">>]

-----------------------------------------------------------------------------
\* A record comes out of its event as it went in: the normalized metadata has the
\* record's own target, level, module, file and line, each where the record has
\* one, and they are what the dispatcher was asked about.
RecordKept(r) ==
  LET m == NormalizedMetadata(EventOf(r))
      asked == AsTrace(r)
  IN  \A key \in {"target", "level", "module", "file", "line", "callsite"} :
        m[key] = asked[key]

\* An event that is not a record is never taken for one, whatever fields it has.
NotARecord(event) == NormalizedMetadata(event) = Absent
=============================================================================
