------------------------------- MODULE Rolling -------------------------------
(***************************************************************************)
(* The rolling file appender (tracing-appender/src/rolling.rs).            *)
(*                                                                         *)
(* Threads ask make_writer for a writer.  One that finds next_date passed  *)
(* and wins the exchange of next_date to the following period rolls over:  *)
(* under the write lock of `writer` it prunes old logs, creates the file   *)
(* of its period, moves the symlink and swaps the file.  The process may   *)
(* crash at any step; the directory stays.                                 *)
(*                                                                         *)
(* Write::write, which has the appender for itself, takes the same steps.  *)
(* A file is named by the beginning of its period.                         *)
(***************************************************************************)
EXTENDS Integers, Sequences, FiniteSets, SequencesExt

CONSTANTS Threads,
          Periods,     \* lengths of rotations; 0 is Rotation::NEVER
          Offset,      \* of the first period: weeks begin on a Sunday
          Limits,      \* values of max_files; 0 is None
          OldLogs,     \* what may be in the directory at first
          StartClock,
          MaxClock,    \* bound on the clock
          MaxFaults,   \* bound on errors of the file system
          NoFile

VARIABLES
  period, maxFiles,  \* rotation and max_files of the Builder
  byName,     \* whether the file system has no creation times
  clock,      \* now_utc
  nextDate,   \* Inner::next_date
  dir,        \* the log files, oldest first: as they were created, or by name
  latest,     \* where the symlink to the latest log points
  file,       \* the File in `writer`
  up,         \* RollingFileAppender exists
  pc, now, current,  \* the call of a thread and its locals
  faults,     \* history: errors so far
  clean,      \* history: no error and no overlapping rollovers while up
  made        \* history: names that were ever in the directory

config == <<period, maxFiles, byName>>
disk == <<dir, latest, made>>
locals == <<pc, now, current>>
vars == <<config, clock, nextDate, disk, file, up, locals, faults, clean>>

-----------------------------------------------------------------------------
(* Rotation                                                                *)

\* round_date: towards the past.
Round(p, t) == t - ((t + Offset) % p)

\* next_date, as the timestamp that next_date has: 0 for NEVER.
NextDate(p, t) == IF p = 0 THEN 0 ELSE Round(p, t + p)

\* join_date; the file of a NEVER appender has the one name.
JoinDate(p, t) == IF p = 0 THEN 0 ELSE Round(p, t)

\* The logs that are there at first are of periods that had begun.
ASSUME RollingAssumption ==
  /\ Periods \subseteq Nat /\ Offset \in Nat /\ Limits \subseteq Nat
  /\ StartClock \in Nat \ {0} /\ MaxClock \in Nat /\ MaxFaults \in Nat
  /\ NoFile \notin Int /\ OldLogs \subseteq Seq(Int)
  /\ \A logs \in OldLogs, p \in Periods \ {0} :
       \A i \in DOMAIN logs : logs[i] <= Round(p, StartClock)

-----------------------------------------------------------------------------
Init ==
  /\ period \in Periods /\ maxFiles \in Limits
  /\ byName \in BOOLEAN /\ (byName => period # 0)
  /\ clock = StartClock /\ nextDate = 0
  /\ dir \in OldLogs /\ (byName => \A i, j \in DOMAIN dir : i < j => dir[i] < dir[j])
  /\ latest = NoFile /\ made = ToSet(dir)
  /\ file = NoFile /\ up = FALSE
  /\ pc = [t \in Threads |-> "idle"]
  /\ now = [t \in Threads |-> 0] /\ current = [t \in Threads |-> 0]
  /\ faults = 0 /\ clean = TRUE

Goto(t, label) == pc' = [pc EXCEPT ![t] = label]
Refreshing(t) == pc[t] \in {"prune", "create", "link"}
Pending(t) == up /\ (pc[t] = "lock" \/ Refreshing(t))

Tick ==
  /\ clock < MaxClock
  /\ clock' = clock + 1
  /\ UNCHANGED <<config, nextDate, disk, file, up, locals, faults, clean>>

\* Inner::new: next_date is set, then the first file is made as in a rollover.
New(t) ==
  /\ ~up /\ \A u \in Threads : pc[u] = "idle"
  /\ nextDate' = NextDate(period, clock)
  /\ now' = [now EXCEPT ![t] = clock]
  /\ Goto(t, "prune")
  /\ clean' = TRUE
  /\ UNCHANGED <<config, clock, disk, file, up, current, faults>>

\* The process dies, or drops the appender when no call is under way.
Crash ==
  /\ up \/ \E t \in Threads : pc[t] # "idle"
  /\ up' = FALSE /\ nextDate' = 0 /\ file' = NoFile
  /\ pc' = [t \in Threads |-> "idle"]
  /\ now' = [t \in Threads |-> 0] /\ current' = [t \in Threads |-> 0]
  /\ UNCHANGED <<config, clock, disk, faults, clean>>

-----------------------------------------------------------------------------
(* make_writer                                                             *)

MakeWriter(t) ==
  /\ up /\ pc[t] = "idle"
  /\ now' = [now EXCEPT ![t] = clock]
  /\ Goto(t, "check")
  /\ UNCHANGED <<config, clock, nextDate, disk, file, up, current, faults, clean>>

\* should_rollover: the load of next_date.
ShouldRollover(t) ==
  /\ pc[t] = "check"
  /\ IF nextDate = 0 \/ now[t] < nextDate
     THEN Goto(t, "read") /\ UNCHANGED current
     ELSE /\ current' = [current EXCEPT ![t] = nextDate]
          /\ Goto(t, "cas")
  /\ UNCHANGED <<config, clock, nextDate, disk, file, up, now, faults, clean>>

\* Mutant: next_date is stored without comparing it.
AdvanceDateStores(t) ==
  /\ pc[t] = "cas"
  /\ nextDate' = NextDate(period, now[t])
  /\ clean' = (clean /\ \A u \in Threads \ {t} : ~Pending(u))
  /\ Goto(t, "lock")
  /\ UNCHANGED <<config, clock, disk, file, up, now, current, faults>>

\* Mutant: one period is added to next_date, however long it is past.
AdvanceDateOnePeriod(t) ==
  /\ pc[t] = "cas"
  /\ IF nextDate = current[t]
     THEN /\ nextDate' = nextDate + period
          /\ clean' = (clean /\ \A u \in Threads \ {t} : ~Pending(u))
          /\ Goto(t, "lock")
     ELSE Goto(t, "read") /\ UNCHANGED <<nextDate, clean>>
  /\ UNCHANGED <<config, clock, disk, file, up, now, current, faults>>

\* advance_date: the compare_exchange.  The winner refreshes the writer.
AdvanceDate(t) ==
  /\ pc[t] = "cas"
  /\ IF nextDate = current[t]
     THEN /\ nextDate' = NextDate(period, now[t])
          /\ clean' = (clean /\ \A u \in Threads \ {t} : ~Pending(u))
          /\ Goto(t, "lock")
     ELSE Goto(t, "read") /\ UNCHANGED <<nextDate, clean>>
  /\ UNCHANGED <<config, clock, disk, file, up, now, current, faults>>

\* writer.write().
Lock(t) ==
  /\ pc[t] = "lock"
  /\ \A u \in Threads : ~Refreshing(u) /\ pc[u] # "writing"
  /\ Goto(t, "prune")
  /\ UNCHANGED <<config, clock, nextDate, disk, file, up, now, current, faults,
                 clean>>

\* writer.read().
ReadLock(t) ==
  /\ pc[t] = "read" /\ \A u \in Threads : ~Refreshing(u)
  /\ Goto(t, "writing")
  /\ UNCHANGED <<config, clock, nextDate, disk, file, up, now, current, faults,
                 clean>>

\* The RollingWriter is used and dropped.
Write(t) ==
  /\ pc[t] = "writing"
  /\ Goto(t, "idle")
  /\ now' = [now EXCEPT ![t] = 0] /\ current' = [current EXCEPT ![t] = 0]
  /\ UNCHANGED <<config, clock, nextDate, disk, file, up, faults, clean>>

-----------------------------------------------------------------------------
(* refresh_writer, and the same steps of Inner::new                        *)

Name(t) == JoinDate(period, now[t])

\* Mutant: one file too many is kept.
KeptOneMore(files, n) ==
  IF Len(files) < n THEN files ELSE SubSeq(files, Len(files) - n + 1, Len(files))

\* Mutant: a file too many is removed.
KeptOneLess(files, n) ==
  IF Len(files) < n THEN files ELSE SubSeq(files, Len(files) - n + 3, Len(files))

\* prune_old_logs: the oldest files go until n - 1 are left.
Kept(files, n) ==
  IF Len(files) < n THEN files ELSE SubSeq(files, Len(files) - n + 2, Len(files))

PruneOldLogs(t) ==
  /\ pc[t] = "prune"
  /\ dir' = IF maxFiles = 0 THEN dir ELSE Kept(dir, maxFiles)
  /\ Goto(t, "create")
  /\ UNCHANGED <<config, clock, nextDate, latest, made, file, up, now, current,
                 faults, clean>>

\* create_writer failed: Inner::new gives up, refresh_writer keeps the file.
Fail(t) ==
  /\ faults < MaxFaults
  /\ faults' = faults + 1
  /\ clean' = FALSE
  /\ Goto(t, IF up THEN "read" ELSE "idle")
  /\ UNCHANGED <<file, up>>

\* A new file, and where prune_old_logs finds it when it sorts the files.
Created(f) ==
  \E i \in 0..Len(dir) :
    /\ IF byName THEN \A j \in DOMAIN dir : j <= i <=> dir[j] < f ELSE i = Len(dir)
    /\ dir' = InsertAt(dir, i + 1, f)

\* create_writer: the file is opened for appending, or created.
OpenFile(t) ==
  /\ pc[t] = "create"
  /\ \/ /\ IF Name(t) \in ToSet(dir) THEN UNCHANGED dir ELSE Created(Name(t))
        /\ made' = made \cup {Name(t)}
        /\ Goto(t, "link")
        /\ UNCHANGED <<file, up, faults, clean>>
     \/ Fail(t) /\ UNCHANGED <<dir, made>>
  /\ UNCHANGED <<config, clock, nextDate, latest, now, current>>

\* create_writer: the symlink is removed, if it can be, and made anew; then
\* refresh_writer swaps the file, and both locks are released.
Symlink(t) ==
  /\ pc[t] = "link"
  /\ \/ /\ latest' = Name(t) /\ file' = Name(t) /\ up' = TRUE
        /\ Goto(t, IF up THEN "read" ELSE "idle")
        /\ UNCHANGED <<faults, clean>>
     \/ Fail(t) /\ latest' \in {NoFile, latest}
  /\ UNCHANGED <<config, clock, nextDate, dir, made, now, current>>

-----------------------------------------------------------------------------
Step(t) ==
  \/ MakeWriter(t) \/ ShouldRollover(t) \/ AdvanceDate(t) \/ Lock(t)
  \/ ReadLock(t) \/ Write(t) \/ PruneOldLogs(t) \/ OpenFile(t) \/ Symlink(t)

Next == Tick \/ Crash \/ \E t \in Threads : New(t) \/ Step(t)

Spec == Init /\ [][Next]_vars

-----------------------------------------------------------------------------
Names == Int

\* The types of the variables; names are not repeated in the directory.
TypeOK ==
  /\ period \in Periods /\ maxFiles \in Limits /\ byName \in BOOLEAN
  /\ clock \in Nat /\ nextDate \in Nat
  /\ dir \in Seq(Names) /\ IsInjective(dir)
  /\ latest \in Names \cup {NoFile} /\ file \in Names \cup {NoFile}
  /\ up \in BOOLEAN /\ (up => file # NoFile)
  /\ pc \in [Threads -> {"idle", "check", "cas", "lock", "read", "writing",
                         "prune", "create", "link"}]
  /\ now \in [Threads -> Nat] /\ current \in [Threads -> Nat]

\* "Did we get the right to lock the file? If not, another thread did it"
\* (make_writer): however many threads find next_date passed, no two roll over
\* to the same period, and next_date is already past the period of each.
RolledOnce ==
  \A t \in Threads : Pending(t) =>
    /\ NextDate(period, now[t]) <= nextDate
    /\ \A u \in Threads \ {t} :
         Pending(u) => NextDate(period, now[t]) # NextDate(period, now[u])

\* "the appender will delete the oldest matching log files until at most n
\* files remain ... if you need to retain m log files, specify a max of m + 1"
\* (max_log_files), also when rollovers fail halfway or the process crashes in
\* one and starts again in the same period.
FilesBounded ==
  maxFiles # 0 =>
    /\ up => Len(dir) <= maxFiles
    /\ Len(dir) >= maxFiles - 1 \/ ToSet(dir) = made

\* The file that lines are written to is in the directory: pruning never
\* removes it in a process without file system errors and overlapping
\* rollovers, and with max_log_files(1) only while it is being replaced.
OpenKept ==
  /\ up /\ clean
  /\ maxFiles # 1 \/ \A t \in Threads : ~Refreshing(t)
  => file \in ToSet(dir)

\* "Logs will be written to this file for the duration of the period and will
\* automatically roll over to the newly created log file once the time period
\* has elapsed": when no rollover is under way the open file is the one of the
\* period that ends at next_date, provided that no rollover failed and none
\* was overtaken by the next.  At any time the symlink (create_writer) points to
\* the file that is written to, or is missing after an error: never to another log.
WriterCurrent ==
  /\ /\ up /\ clean /\ period # 0
     /\ \A t \in Threads : ~Pending(t)
     => file = JoinDate(period, nextDate - 1)
  /\ up => latest \in {file, NoFile}
==============================================================================
