---------------------------- MODULE ReloadProofs ----------------------------
(***************************************************************************)
(* Proofs about a filter that is reloaded, for any threads, callsites, log *)
(* records, filters and cache sizes: whatever is cached of the answers of  *)
(* the filter, events and log records follow the filter in force           *)
(* (ReloadExact), the caches of the log bridge are used only while they    *)
(* agree with it (LogCacheFresh), and a poisoned layer records nothing     *)
(* (PoisonedSilent).                                                       *)
(*                                                                         *)
(* The argument: a reload that has swapped the filter and not finished is  *)
(* the only thing that can make a cached answer wrong, and its own state   *)
(* says which ones are still to be renewed (Renewed).  For the caches of   *)
(* the threads it is the sentinel that has to be renewed (Fresh).          *)
(***************************************************************************)
EXTENDS Reload, TLAPS, SequenceTheorems

-----------------------------------------------------------------------------
(* The inductive invariant                                                 *)

Answers == {"empty", "never", "sometimes", "always"}
ModifyPcs == {"write", "max", "ask", "store", "set_max", "current", "log_max", "done"}
EventPcs == {"interest", "ask", "store", "enabled", "dispatch", "done"}
InitPcs == {"config", "bump", "logger", "log_filter", "done"}
LogPcs == {"epoch", "renew", "callback", "uncached", "record", "done"}
Pcs == {"idle"} \cup ModifyPcs \cup EventPcs \cup InitPcs \cup LogPcs

InitArgs == [config : CacheConfigs, level : LogLevels]
Args == {<<>>} \cup Filters \cup Sites \cup Records \cup InitArgs

Ops == {"none", "modify", "event", "init", "log"}
Calls == [op : Ops, pc : Pcs, arg : Args,
          site : Sites \cup {Sentinel, NoSite}, todo : SUBSET Sites, val : Answers,
          lvl : Nat, heard : BOOLEAN]

Configs == CacheConfigs \cup {Disabled}
Entries == [key : {Key(r) : r \in Records}, target : {r.target : r \in Records},
            yes : BOOLEAN]
States == {s \in [epoch : Nat, config : Configs, cache : Seq(Entries)] :
             Len(s.cache) <= s.config.size}

\* The types of the variables that are not history.
Types ==
  /\ filter \in Filters /\ poisoned \in BOOLEAN /\ alive \in BOOLEAN
  /\ reg \in [Sites -> {"UNREGISTERED", "REGISTERING", "REGISTERED"}]
  /\ interest \in [Sites -> Answers]
  /\ maxLevel \in Levels /\ logMax \in Levels /\ epoch \in Nat
  /\ logger \in BOOLEAN /\ sentinel \in BOOLEAN /\ config \in Configs
  /\ state \in [Threads -> States \cup {NoState}]
  /\ call \in [Threads -> Calls]
  /\ panicking \subseteq Threads

\* Where a call can be and what it has then, of its own variables.
CallOK(k) ==
  /\ k.op = "none" <=> k.pc = "idle"
  /\ k.op = "modify" => k.pc \in ModifyPcs /\ k.arg \in Filters /\ k.lvl \in Levels
  /\ k.op = "event" => k.pc \in EventPcs /\ k.arg \in Sites
  /\ k.op = "init" => k.pc \in InitPcs /\ k.arg \in InitArgs
  /\ k.op = "log" => k.pc \in LogPcs /\ k.arg \in Records
  /\ k.pc \in {"write", "max"} => k.site = NoSite
  /\ k.pc \in {"ask", "store"} =>
       /\ k.site # NoSite
       /\ k.op = "event" => k.site = k.arg
       /\ k.site = Sentinel => k.todo = {}

\* The callsites that a rebuild has met or will meet are in the list, and only
\* they have an interest.
Listed ==
  /\ \A t \in Threads : call[t].pc \in {"ask", "store"} =>
       /\ call[t].op = "modify" => call[t].todo \subseteq Pushed
       /\ call[t].site \in Pushed \cup {Sentinel}
  /\ \A c \in Sites : c \notin Pushed => interest[c] = "empty"

\* Under this the properties promise that events and records follow the filter.
Plain == ~overlapped /\ alive /\ ~poisoned

\* A reload has changed the filter and has not renewed c yet ...
Behind(k, c) ==
  /\ k.op = "modify"
  /\ k.pc = "max" \/ (k.pc \in {"ask", "store"} /\ c \in k.todo \cup {k.site})

\* ... or the maximum level, ...
BehindMax(k) == k.op = "modify" /\ k.pc \in {"max", "ask", "store", "set_max"}

\* ... or the level of the log crate, which init sets too.
BehindLog(k) ==
  \/ k.op = "modify" /\ k.pc \in {"max", "ask", "store", "set_max", "current", "log_max"}
  \/ k.op = "init" /\ k.pc = "log_filter"

\* Everything that no call is behind with is what the filter in force says, and
\* so is what a call has asked for and not stored.
Renewed ==
  /\ \A c \in Sites : (\A t \in Threads : ~Behind(call[t], c)) =>
       interest[c] \in {"empty", RegisterCallsite(filter, c)}
  /\ (\A t \in Threads : ~BehindMax(call[t])) => maxLevel = filter.hint
  /\ logger /\ (\A t \in Threads : ~BehindLog(call[t])) =>
       logMax \in LogLevels \cup {filter.hint}
  /\ \A t \in Threads :
       /\ call[t].op = "modify" /\ call[t].pc \in {"ask", "store", "set_max", "log_max"}
            => call[t].lvl = filter.hint
       /\ call[t].pc = "store" /\ call[t].site # Sentinel
            => call[t].val = RegisterCallsite(filter, call[t].site)

\* Two calls that change caches are never under way.
Alone == \A t, u \in Threads : Rebuilding(t) /\ Rebuilding(u) => t = u

\* How far a call that met no change of the filter has come is what the filter
\* says.
OnCourse(k) ==
  /\ k.op = "event" =>
       /\ k.pc = "dispatch" => k.arg \in filter.on
       /\ k.pc = "done" => (k.heard <=> k.arg \in filter.on)
  /\ k.op = "log" =>
       /\ k.pc # "done" => k.arg.target \notin Ignored
       /\ k.pc = "done" /\ logger /\ (\A l \in LogLevels : k.arg.level <= l) =>
            (k.heard <=> k.arg \in filter.on /\ k.arg.target \notin Ignored)

Undisturbed ==
  \A t \in clean : /\ \A u \in Threads : call[u].op \notin {"modify", "init"}
                   /\ Plain => OnCourse(call[t])

\* The epochs that threads know are not ahead, and whoever has a cache or makes
\* one has registered the sentinel.
Epochs ==
  /\ logger => sentinel
  /\ \A t \in Threads :
       /\ state[t] # NoState => sentinel /\ state[t].epoch <= epoch
       /\ call[t].op = "init" => sentinel
       /\ call[t].op = "log" /\ call[t].pc # "done" => state[t] # NoState
       /\ call[t].op = "log" /\ call[t].pc = "renew" => call[t].lvl <= epoch

\* The entries of a cache are what the filter in force says.
Agrees(cache) ==
  \A r \in Records, i \in DOMAIN cache :
    cache[i].key = Key(r) /\ cache[i].target = r.target => (cache[i].yes <=> r \in filter.on)

UpToDate(t) == state[t] # NoState /\ state[t].epoch = epoch

Fresh ==
  /\ alive /\ ~poisoned /\ (\A u \in Threads : ~BeforeBump(u)) =>
       \A t \in Threads : UpToDate(t) => Agrees(state[t].cache)
  /\ (\A u \in Threads : ~(call[u].op = "init" /\ call[u].pc = "bump")) =>
       \A t \in Threads : UpToDate(t) => state[t].config = config

Inv ==
  /\ Types /\ (\A t \in Threads : CallOK(call[t])) /\ Listed
  /\ clean \subseteq Threads /\ (~overlapped => Alone)
  /\ (Plain => Renewed) /\ Undisturbed /\ Epochs /\ Fresh

-----------------------------------------------------------------------------
(* Calls                                                                   *)

LEMMA CallTypes ==
  /\ "empty" \in Answers /\ 0 \in Nat /\ {} \in SUBSET Sites
  /\ NoSite \in Sites \cup {Sentinel, NoSite}
  /\ "none" \in Ops /\ "idle" \in Pcs /\ "done" \in Pcs /\ <<>> \in Args
BY SMT DEF Answers, Ops, Pcs, ModifyPcs, Args

\* A call that goes on.
LEMMA NextPc ==
  ASSUME NEW k \in Calls, NEW p \in Pcs
  PROVE  LET n == [k EXCEPT !.pc = p]
         IN  /\ n \in Calls /\ n.pc = p /\ n.op = k.op /\ n.arg = k.arg
             /\ n.site = k.site /\ n.todo = k.todo /\ n.val = k.val /\ n.lvl = k.lvl
             /\ n.heard = k.heard
BY SMT DEF Calls

\* A thread outside of a call.
LEMMA IdleCall ==
  /\ Idle \in Calls /\ Idle.op = "none" /\ Idle.pc = "idle" /\ Idle.heard = FALSE
  /\ CallOK(Idle)
<1>1. Idle \in Calls /\ Idle.op = "none" /\ Idle.pc = "idle" /\ Idle.heard = FALSE
  BY CallTypes, Zenon DEF Idle, Call, Calls
<1>2. QED
  BY <1>1, Zenon DEF CallOK

-----------------------------------------------------------------------------
(* What a step of one thread has to keep                                   *)

\* Of the calls, only that of t changes.
Only(t) ==
  call' \in [Threads -> Calls] /\ \A u \in Threads \ {t} : call'[u] = call[u]

LEMMA OnlyCall ==
  ASSUME call \in [Threads -> Calls], NEW t \in Threads, NEW k \in Calls,
         call' = [call EXCEPT ![t] = k]
  PROVE  Only(t) /\ call'[t] = k
BY Zenon DEF Only

LEMMA StartCall ==
  ASSUME Types, NEW t \in Threads, NEW o \in Ops,
         NEW p \in Pcs, NEW a \in Args, Start(t, o, p, a)
  PROVE  /\ Only(t) /\ call[t].pc = "idle" /\ call'[t].op = o /\ call'[t].pc = p
         /\ call'[t].arg = a /\ call'[t].lvl = 0 /\ call'[t].heard = FALSE
         /\ call'[t].site = NoSite
<1> DEFINE k == Call(o, p, a, FALSE)
<1>1. /\ k \in Calls /\ k.op = o /\ k.pc = p /\ k.arg = a /\ k.lvl = 0
      /\ k.heard = FALSE /\ k.site = NoSite
  BY CallTypes, Zenon DEF Call, Calls
<1>2. call' = [call EXCEPT ![t] = k] /\ call[t].pc = "idle"
  BY Zenon DEF Start, At
<1> HIDE DEF k
<1>3. Only(t) /\ call'[t] = k
  BY <1>1, <1>2, OnlyCall, Zenon DEF Types
<1>4. QED
  BY <1>1, <1>2, <1>3, Zenon

LEMMA EndCall ==
  ASSUME Types, NEW t \in Threads, NEW h \in BOOLEAN,
         call' = [call EXCEPT ![t] = Finished(t, h)]
  PROVE  /\ Only(t) /\ call'[t].op = call[t].op /\ call'[t].pc = "done"
         /\ call'[t].arg = call[t].arg /\ call'[t].lvl = 0 /\ call'[t].heard = h
<1> DEFINE k == Call(call[t].op, "done", call[t].arg, h)
<1>1. /\ call[t].op \in Ops
      /\ call[t].arg \in Args /\ "done" \in Pcs
  BY Zenon DEF Types, Calls, Pcs, ModifyPcs
<1>2. /\ k \in Calls /\ k.op = call[t].op /\ k.pc = "done" /\ k.arg = call[t].arg
      /\ k.lvl = 0 /\ k.heard = h
  BY <1>1, CallTypes, Zenon DEF Call, Calls
<1>3. call' = [call EXCEPT ![t] = k]
  BY Zenon DEF Finished
<1> HIDE DEF k
<1>4. Only(t) /\ call'[t] = k
  BY <1>2, <1>3, OnlyCall, Zenon DEF Types
<1>5. QED
  BY <1>2, <1>4, Zenon

LEMMA GotoCall ==
  ASSUME Types, NEW t \in Threads, NEW p \in Pcs, Goto(t, p)
  PROVE  /\ Only(t) /\ call'[t].op = call[t].op /\ call'[t].pc = p
         /\ call'[t].arg = call[t].arg
         /\ p = "done" => call'[t].lvl = 0 /\ call'[t].heard = FALSE
         /\ p # "done" => /\ call'[t].site = call[t].site /\ call'[t].todo = call[t].todo
                          /\ call'[t].val = call[t].val /\ call'[t].lvl = call[t].lvl
                          /\ call'[t].heard = call[t].heard
<1>1. CASE p = "done"
  BY <1>1, EndCall, Zenon DEF Goto
<1>2. CASE p # "done"
  <2> DEFINE k == [call[t] EXCEPT !.pc = p]
  <2>1. call[t] \in Calls
    BY Zenon DEF Types
  <2>2. /\ k \in Calls /\ k.pc = p /\ k.op = call[t].op /\ k.arg = call[t].arg
        /\ k.site = call[t].site /\ k.todo = call[t].todo /\ k.val = call[t].val
        /\ k.lvl = call[t].lvl /\ k.heard = call[t].heard
    BY <2>1, NextPc, Zenon
  <2>3. call' = [call EXCEPT ![t] = k]
    BY <1>2, Zenon DEF Goto
  <2> HIDE DEF k
  <2>4. Only(t) /\ call'[t] = k
    BY <2>2, <2>3, OnlyCall, Zenon DEF Types
  <2>5. QED
    BY <1>2, <2>2, <2>4, Zenon
<1>3. QED
  BY <1>1, <1>2, Zenon

\* What the history variables say after a step of t.
Watched(t) ==
  /\ overlapped => overlapped'
  /\ ~overlapped' => Alone'
  /\ clean' \subseteq Threads
  /\ \A u \in clean' :
       /\ call[u].op = "none" \/ u \in clean
       /\ call'[u].op \in {"event", "log"} /\ filterVars' = filterVars
       /\ \A v \in Threads \ {u} : call'[v].op \notin {"modify", "init"}

\* Inv after a step of t, of which the others need not be looked at again.
Kept(t) ==
  /\ Types' /\ Only(t) /\ CallOK(call[t])' /\ Listed' /\ (Plain' => Renewed')
  /\ t \in clean' /\ Plain' => OnCourse(call[t])'
  /\ call'[t].op # "init" => logger' = logger
  /\ Epochs' /\ Fresh'

LEMMA HistoryWatches ==
  ASSUME NEW t, History
  PROVE  Watched(t)
BY Zenon DEF History, Watched, Alone, Rebuilding

LEMMA KeptInv ==
  ASSUME Inv, NEW t \in Threads, Watched(t), Kept(t)
  PROVE  Inv'
<1>1. \A u \in Threads : CallOK(call[u])'
  BY Zenon DEF Inv, Kept, Only, CallOK
<1>2. ASSUME NEW u \in clean' PROVE \A v \in Threads : call'[v].op \notin {"modify", "init"}
  BY <1>2, Zenon DEF Watched
<1>3. ASSUME NEW u \in clean', Plain' PROVE OnCourse(call[u])'
  <2>1. CASE u = t
    BY <1>3, <2>1, Zenon DEF Kept
  <2>2. CASE u # t
    <3>1. u \in Threads /\ call'[u] = call[u] /\ call[u].op \in {"event", "log"}
      BY <1>3, <2>2, Zenon DEF Watched, Kept, Only
    <3>2. u \in clean /\ filter' = filter /\ Plain
      BY <1>3, <3>1, Zenon DEF Watched, filterVars, Plain
    <3>3. logger' = logger
      BY <1>2, Zenon DEF Kept
    <3>4. OnCourse(call[u])
      BY <3>2, Zenon DEF Inv, Undisturbed
    <3>5. QED
      BY <3>1, <3>2, <3>3, <3>4, Zenon DEF OnCourse
  <2>3. QED
    BY <2>1, <2>2, Zenon
<1>4. Undisturbed'
  BY <1>2, <1>3, Zenon DEF Undisturbed
<1>5. QED
  BY <1>1, <1>4, Zenon DEF Inv, Kept, Watched

-----------------------------------------------------------------------------
(* Steps that change a call and nothing else                               *)

Calm(t) ==
  /\ Only(t) /\ UNCHANGED <<filterVars, siteVars, logVars, state>>
  /\ panicking' \subseteq Threads /\ CallOK(call[t])'
  /\ poisoned \/ ~BehindLog(call[t])
  /\ ~(call[t].op = "init" /\ call[t].pc = "bump")
  /\ ~BehindLog(call'[t]) /\ call'[t].pc \notin {"ask", "store", "renew"}
  /\ call'[t].op = "init" => call[t].op = "init"
  /\ call'[t].op = "log" /\ call'[t].pc # "done" => state[t] # NoState
  /\ t \in clean' /\ Plain' => OnCourse(call[t])'

LEMMA CalmStep ==
  ASSUME Inv, NEW t \in Threads, Watched(t), Calm(t)
  PROVE  Inv'
<1> USE DEF filterVars, siteVars, logVars
<1>1. Types' /\ Only(t) /\ logger' = logger
  BY Zenon DEF Inv, Types, Calm, Only
<1>2. Listed'
  BY Zenon DEF Inv, Listed, Calm, Only, Pushed
<1>3. Plain' => Renewed'
  <2> SUFFICES ASSUME Plain' PROVE Renewed'
    OBVIOUS
  <2>1. Renewed /\ ~BehindLog(call[t]) /\ ~BehindLog(call'[t]) /\ call'[t].pc # "store"
    BY Zenon DEF Inv, Calm, Plain, Watched
  <2>2. /\ \A c \in Sites : (\A u \in Threads : ~Behind(call'[u], c)) =>
             \A u \in Threads : ~Behind(call[u], c)
        /\ (\A u \in Threads : ~BehindMax(call'[u])) => \A u \in Threads : ~BehindMax(call[u])
        /\ (\A u \in Threads : ~BehindLog(call'[u])) => \A u \in Threads : ~BehindLog(call[u])
    BY <1>1, <2>1, Zenon DEF Only, Behind, BehindMax, BehindLog
  <2>3. /\ \A c \in Sites : (\A u \in Threads : ~Behind(call'[u], c)) =>
             interest'[c] \in {"empty", RegisterCallsite(filter', c)}
        /\ (\A u \in Threads : ~BehindMax(call'[u])) => maxLevel' = filter'.hint
        /\ logger' /\ (\A u \in Threads : ~BehindLog(call'[u])) =>
             logMax' \in LogLevels \cup {filter'.hint}
    BY <2>1, <2>2, Zenon DEF Calm, Renewed
  <2>4. ASSUME NEW u \in Threads
        PROVE  /\ call'[u].op = "modify" /\ call'[u].pc \in {"ask", "store", "set_max", "log_max"}
                    => call'[u].lvl = filter'.hint
               /\ call'[u].pc = "store" /\ call'[u].site # Sentinel
                    => call'[u].val = RegisterCallsite(filter', call'[u].site)
    BY <2>1, Zenon DEF Calm, Only, Renewed, BehindLog
  <2>5. QED
    BY <2>3, <2>4, Zenon DEF Renewed
<1>4. Epochs'
  BY Zenon DEF Inv, Epochs, Calm, Only
<1>5. Fresh'
  <2>1. alive' /\ ~poisoned' /\ (\A u \in Threads : ~BeforeBump(u)') =>
          alive /\ ~poisoned /\ (\A u \in Threads : ~BeforeBump(u))
    BY Zenon DEF Calm, Only, BeforeBump, BehindLog
  <2>2. (\A u \in Threads : ~(call'[u].op = "init" /\ call'[u].pc = "bump")) =>
          \A u \in Threads : ~(call[u].op = "init" /\ call[u].pc = "bump")
    BY Zenon DEF Calm, Only
  <2>3. \A u \in Threads : (UpToDate(u)' <=> UpToDate(u)) 
                               /\ (Agrees(state[u].cache)' <=> Agrees(state[u].cache))
    BY Zenon DEF Calm, UpToDate, Agrees
  <2>4. QED
    BY <2>1, <2>2, <2>3, Zenon DEF Inv, Fresh, Calm
<1>6. Kept(t)
  BY <1>1, <1>2, <1>3, <1>4, <1>5, Zenon DEF Kept, Calm
<1>7. QED
  BY <1>6, KeptInv, Zenon

\* A panic: the layer is poisoned, and whatever the thread was about to renew
\* does not matter any more.
LEMMA UnwindStep ==
  ASSUME Inv, NEW t \in Threads, Watched(t), poisoned, Unwind(t),
         call[t].op # "init", UNCHANGED <<filterVars, siteVars, logVars, state>>
  PROVE  Inv'
<1>1. Only(t) /\ call'[t] = Idle
  BY IdleCall, OnlyCall, Zenon DEF Inv, Types, Unwind
<1>2. Calm(t)
  <2>1. CallOK(call[t])' /\ call'[t].op = "none" /\ call'[t].pc = "idle"
    BY <1>1, IdleCall, Zenon DEF CallOK
  <2>2. panicking' \subseteq Threads
    BY Zenon DEF Unwind, Inv, Types
  <2>3. QED
    BY <1>1, <2>1, <2>2, Zenon DEF Calm, BehindLog, OnCourse
<1>3. QED
  BY <1>2, CalmStep, Zenon

\* A call returns, or its panic is caught.
LEMMA ReturnStep ==
  ASSUME Inv, NEW t \in Threads, Watched(t), Return(t) \/ Catch(t)
  PROVE  Inv'
<1>1. CASE Return(t)
  <2>1. Only(t) /\ call'[t] = Idle
    BY <1>1, IdleCall, OnlyCall, Zenon DEF Inv, Types, Return
  <2>2. call[t].pc = "done" /\ panicking' \subseteq Threads
    BY <1>1, Zenon DEF Return, At, Inv, Types
  <2>3. CallOK(call[t])' /\ call'[t].op = "none" /\ call'[t].pc = "idle"
    BY <2>1, IdleCall, Zenon DEF CallOK
  <2>4. Calm(t)
    BY <1>1, <2>1, <2>2, <2>3, Zenon DEF Calm, BehindLog, OnCourse, Return
  <2>5. QED
    BY <2>4, CalmStep, Zenon
<1>2. CASE Catch(t)
  <2>1. call' = call /\ Only(t) /\ call[t].pc = "idle" /\ panicking' \subseteq Threads
    BY <1>2, Zenon DEF Catch, At, Only, Inv, Types
  <2>2. CallOK(call[t])' /\ call[t].op = "none"
    BY <2>1, Zenon DEF CallOK, Inv
  <2>3. Calm(t)
    BY <1>2, <2>1, <2>2, Zenon DEF Calm, BehindLog, OnCourse, Catch
  <2>4. QED
    BY <2>3, CalmStep, Zenon
<1>3. QED
  BY <1>1, <1>2, Zenon

\* The Handle is used.
LEMMA ModifyStep ==
  ASSUME Inv, NEW t \in Threads, Watched(t), NEW new \in Filters, Modify(t, new)
  PROVE  Inv'
<1> DEFINE p == IF alive THEN "write" ELSE "done"
<1>1. /\ p \in {"write", "done"} /\ p \in Pcs /\ new \in Args /\ call[t].pc = "idle"
      /\ "modify" \in Ops
  BY Zenon DEF Ops, Pcs, ModifyPcs, Args, Modify, Start, At
<1>2. Start(t, "modify", p, new)
  BY Zenon DEF Modify
<1> HIDE DEF p
<1>3. /\ Only(t) /\ call'[t].op = "modify" /\ call'[t].pc = p /\ call'[t].arg = new
      /\ call'[t].lvl = 0 /\ call'[t].site = NoSite
  BY <1>1, <1>2, StartCall, Zenon DEF Inv
<1>4. 0 \in Levels
  BY ReloadAssumption, SMT DEF ReloadAssumption, Levels
<1>5. CallOK(call[t])'
  BY <1>1, <1>3, <1>4, Zenon DEF CallOK, ModifyPcs
<1>6. Calm(t)
  BY <1>1, <1>3, <1>5, Zenon DEF Calm, BehindLog, OnCourse, Modify, Inv, Types
<1>7. QED
  BY <1>6, CalmStep, Zenon

-----------------------------------------------------------------------------
(* Events                                                                  *)

\* For a call that meets no change, everything that is cached is in force.
LEMMA InForce ==
  ASSUME Inv, NEW t \in Threads, Watched(t), Only(t), t \in clean', Plain',
         call[t].op \notin {"modify", "init"}
  PROVE  /\ filter' = filter /\ Plain /\ LockOf(t) = "ok" /\ maxLevel = filter.hint
         /\ \A c \in Sites : interest[c] \in {"empty", RegisterCallsite(filter, c)}
         /\ logger => logMax \in LogLevels \cup {filter.hint}
         /\ \A u \in Threads : call[u].op \notin {"modify", "init"}
<1>1. filter' = filter /\ Plain
  BY Zenon DEF Watched, filterVars, Plain
<1>2. \A u \in Threads : call[u].op \notin {"modify", "init"}
  BY Zenon DEF Watched, Only
<1>3. Renewed /\ LockOf(t) = "ok"
  BY <1>1, Zenon DEF Inv, Plain, LockOf
<1>4. QED
  BY <1>1, <1>2, <1>3, Zenon DEF Renewed, Behind, BehindMax, BehindLog

\* level_enabled!
LEMMA EventStep ==
  ASSUME Inv, NEW t \in Threads, Watched(t), NEW c \in Sites, Event(t, c)
  PROVE  Inv'
<1> DEFINE p == IF c.level <= maxLevel THEN "interest" ELSE "done"
<1>1. /\ p \in {"interest", "done"} /\ p \in Pcs /\ c \in Args /\ "event" \in Ops
      /\ Start(t, "event", p, c) /\ (p = "done" => ~(c.level <= maxLevel))
  BY Zenon DEF Pcs, EventPcs, Args, Ops, Event
<1> HIDE DEF p
<1>2. /\ Only(t) /\ call[t].pc = "idle" /\ call'[t].op = "event" /\ call'[t].pc = p
      /\ call'[t].arg = c /\ call'[t].heard = FALSE
  BY <1>1, StartCall, Zenon DEF Inv
<1>3. CallOK(call[t])' /\ call[t].op = "none"
  BY <1>1, <1>2, Zenon DEF CallOK, EventPcs, Inv
<1>4. ASSUME t \in clean', Plain' PROVE OnCourse(call[t])'
  <2>1. filter' = filter /\ maxLevel = filter.hint
    BY <1>2, <1>3, <1>4, InForce, Zenon
  <2>2. c \in filter.on => c.level <= filter.hint
    BY ReloadAssumption, Zenon DEF ReloadAssumption, Inv, Types
  <2>3. QED
    BY <1>1, <1>2, <2>1, <2>2, Zenon DEF OnCourse
<1>5. Calm(t)
  BY <1>1, <1>2, <1>3, <1>4, Zenon DEF Calm, BehindLog, Event, Inv, Types
<1>6. QED
  BY <1>5, CalmStep, Zenon

\* A cached interest is used, or the event goes on without it while another
\* thread registers the callsite.
LEMMA InterestStep ==
  ASSUME Inv, NEW t \in Threads, Watched(t), Interest(t), reg' = reg
  PROVE  Inv'
<1> DEFINE c == call[t].arg
<1>1. call[t].pc = "interest" /\ call[t].op = "event" /\ c \in Sites
  BY Zenon DEF Interest, At, Inv, CallOK, ModifyPcs, InitPcs, LogPcs, Types, Calls, Ops
<1>2. PICK p \in {"done", "enabled", "dispatch"} :
        /\ Goto(t, p) /\ (p = "done" => interest[c] = "never")
        /\ (p = "dispatch" => interest[c] = "always")
  <2>1. interest[c] \in Answers
    BY <1>1, Zenon DEF Inv, Types
  <2>2. ~(interest[c] = "empty" /\ reg[c] = "UNREGISTERED")
    BY <1>1, Zenon DEF Interest, Inv, Types
  <2>3. QED
    BY <2>1, <2>2, Zenon DEF Interest, Answers
<1>3. p \in Pcs
  BY Zenon DEF Pcs, EventPcs
<1>4. /\ Only(t) /\ call'[t].op = "event" /\ call'[t].pc = p /\ call'[t].arg = c
      /\ (p = "done" => call'[t].heard = FALSE)
  BY <1>1, <1>2, <1>3, GotoCall, Zenon DEF Inv
<1>5. CallOK(call[t])'
  BY <1>1, <1>4, Zenon DEF CallOK, EventPcs
<1>6. ASSUME t \in clean', Plain' PROVE OnCourse(call[t])'
  <2>1. filter' = filter /\ interest[c] \in {"empty", RegisterCallsite(filter, c)}
    BY <1>1, <1>4, <1>6, InForce, Zenon
  <2>2. /\ interest[c] = "never" => c \notin filter.on
        /\ interest[c] = "always" => c \in filter.on
    BY <2>1, Zenon DEF RegisterCallsite
  <2>3. QED
    BY <1>2, <1>4, <2>1, <2>2, Zenon DEF OnCourse
<1>7. Calm(t)
  BY <1>1, <1>4, <1>5, <1>6, Zenon DEF Calm, BehindLog, Interest, Inv, Types, siteVars
<1>8. QED
  BY <1>7, CalmStep, Zenon

\* try_lock! panics only if the lock is poisoned.
LEMMA PanicsPoisoned ==
  ASSUME NEW t \in Threads, Panics(t)
  PROVE  poisoned
BY Zenon DEF Panics, LockOf

\* __is_enabled.
LEMMA EnabledStep ==
  ASSUME Inv, NEW t \in Threads, Watched(t), Enabled(t)
  PROVE  Inv'
<1> DEFINE c == call[t].arg
           p == IF AskEnabled(t, c) THEN "dispatch" ELSE "done"
<1>1. call[t].pc = "enabled" /\ call[t].op = "event" /\ c \in Sites
  BY Zenon DEF Enabled, At, Inv, CallOK, ModifyPcs, InitPcs, LogPcs, Types, Calls, Ops
<1>2. CASE Panics(t) /\ Unwind(t)
  BY <1>1, <1>2, PanicsPoisoned, UnwindStep, Zenon DEF Enabled
<1>3. CASE Goto(t, p) /\ UNCHANGED panicking
  <2>1. p \in {"dispatch", "done"} /\ p \in Pcs /\ (p = "dispatch" <=> AskEnabled(t, c))
    BY Zenon DEF Pcs, EventPcs
  <2> HIDE DEF p
  <2>2. /\ Only(t) /\ call'[t].op = "event" /\ call'[t].pc = p /\ call'[t].arg = c
        /\ (p = "done" => call'[t].heard = FALSE)
    BY <1>1, <1>3, <2>1, GotoCall, Zenon DEF Inv
  <2>3. CallOK(call[t])'
    BY <1>1, <2>1, <2>2, Zenon DEF CallOK, EventPcs
  <2>4. ASSUME t \in clean', Plain' PROVE OnCourse(call[t])'
    <3>1. filter' = filter /\ Plain /\ LockOf(t) = "ok"
      BY <1>1, <2>2, <2>4, InForce, Zenon
    <3>2. QED
      BY <2>1, <2>2, <3>1, Zenon DEF OnCourse, AskEnabled, Plain
  <2>5. Calm(t)
    BY <1>1, <1>3, <2>1, <2>2, <2>3, <2>4, Zenon DEF Calm, BehindLog, Enabled, Inv, Types
  <2>6. QED
    BY <2>5, CalmStep, Zenon
<1>4. QED
  BY <1>2, <1>3, Zenon DEF Enabled

\* Event::dispatch, and dispatch_record, which asks the filter again.
LEMMA DispatchStep ==
  ASSUME Inv, NEW t \in Threads, Watched(t), DispatchEvent(t) \/ DispatchRecord(t)
  PROVE  Inv'
<1> DEFINE h == IF call[t].pc = "dispatch" THEN alive /\ LockOf(t) = "ok"
                ELSE AskEnabled(t, call[t].arg)
<1>1. \/ call[t].pc = "dispatch" /\ call[t].op = "event" /\ DispatchEvent(t)
      \/ call[t].pc = "record" /\ call[t].op = "log" /\ DispatchRecord(t)
  BY Zenon DEF DispatchEvent, DispatchRecord, At, Inv, CallOK, ModifyPcs, EventPcs, InitPcs,
               LogPcs, Types, Calls, Ops
<1>2. UNCHANGED <<filterVars, siteVars, logVars, state>>
  BY <1>1, Zenon DEF DispatchEvent, DispatchRecord
<1>3. CASE Panics(t) /\ Unwind(t)
  BY <1>1, <1>2, <1>3, PanicsPoisoned, UnwindStep, Zenon
<1>4. CASE call' = [call EXCEPT ![t] = Finished(t, h)] /\ UNCHANGED panicking
  <2>1. h \in BOOLEAN
    BY Zenon DEF AskEnabled, Inv, Types
  <2> HIDE DEF h
  <2>2. /\ Only(t) /\ call'[t].op = call[t].op /\ call'[t].pc = "done"
        /\ call'[t].arg = call[t].arg /\ call'[t].heard = h
    BY <1>4, <2>1, EndCall, Zenon DEF Inv
  <2>3. CallOK(call[t])'
    BY <1>1, <2>2, Zenon DEF CallOK, EventPcs, LogPcs, Inv
  <2>4. ASSUME t \in clean', Plain' PROVE OnCourse(call[t])'
    <3>1. /\ filter' = filter /\ Plain /\ LockOf(t) = "ok" /\ t \in clean
      BY <1>1, <2>2, <2>4, InForce, Zenon DEF Watched
    <3>2. OnCourse(call[t])
      BY <3>1, Zenon DEF Inv, Undisturbed
    <3>3. call[t].op = "event" => (h <=> call[t].arg \in filter.on)
      BY <1>1, <3>1, <3>2, Zenon DEF OnCourse, Plain, h
    <3>4. call[t].op = "log" =>
            (h <=> call[t].arg \in filter.on) /\ call[t].arg.target \notin Ignored
      BY <1>1, <3>1, <3>2, Zenon DEF OnCourse, Plain, h, AskEnabled
    <3>5. QED
      BY <1>1, <2>2, <3>1, <3>3, <3>4, Zenon DEF OnCourse
  <2>5. Calm(t)
    BY <1>1, <1>2, <1>4, <2>2, <2>3, <2>4, Zenon DEF Calm, BehindLog, Inv, Types
  <2>6. QED
    BY <2>5, CalmStep, Zenon
<1>5. QED
  BY <1>1, <1>3, <1>4, Zenon DEF DispatchEvent, DispatchRecord

\* Handle::with_current of a poisoned layer.
LEMMA WithCurrentStep ==
  ASSUME Inv, NEW t \in Threads, Watched(t), WithCurrent(t)
  PROVE  Inv'
<1>1. poisoned /\ Unwind(t) /\ call[t].op # "init"
  BY Zenon DEF WithCurrent, LockOf, At, Inv, CallOK, InitPcs
<1>2. QED
  BY <1>1, UnwindStep, Zenon DEF WithCurrent

-----------------------------------------------------------------------------
(* Steps of a rebuild                                                      *)

\* Renewed, as far as one call k is behind.
RenewedBy(k) ==
  /\ \A c \in Sites : ~Behind(k, c) => interest[c] \in {"empty", RegisterCallsite(filter, c)}
  /\ ~BehindMax(k) => maxLevel = filter.hint
  /\ logger /\ ~BehindLog(k) => logMax \in LogLevels \cup {filter.hint}
  /\ k.op = "modify" /\ k.pc \in {"ask", "store", "set_max", "log_max"} => k.lvl = filter.hint
  /\ k.pc = "store" /\ k.site # Sentinel => k.val = RegisterCallsite(filter, k.site)

\* No two rebuilds overlap, so the one that takes a step is the only one.
LEMMA RenewedStep ==
  ASSUME Inv, NEW t \in Threads, Watched(t), Only(t), Plain' => Plain,
         Rebuilding(t) \/ Rebuilding(t)',
         Plain /\ RenewedBy(call[t]) => RenewedBy(call[t])'
  PROVE  Plain' => Renewed'
<1> SUFFICES ASSUME Plain' PROVE Renewed'
  OBVIOUS
<1>1. Plain /\ Renewed /\ Alone /\ Alone'
  BY Zenon DEF Inv, Plain, Watched
<1>2. ASSUME NEW u \in Threads \ {t} PROVE ~Rebuilding(u)
  BY <1>1, <1>2, Zenon DEF Alone, Rebuilding, Only
<1>3. ASSUME NEW u \in Threads \ {t}
      PROVE  /\ call'[u] = call[u] /\ ~BehindLog(call[u]) /\ ~BehindMax(call[u])
             /\ call[u].pc # "store" /\ \A c \in Sites : ~Behind(call[u], c)
  <2>1. call'[u] = call[u] /\ CallOK(call[u]) /\ call[u].op \in Ops
    BY Zenon DEF Inv, Only, Types, Calls
  <2>2. QED
    BY <1>2, <2>1, Zenon DEF Rebuilding, BehindLog, BehindMax, Behind, CallOK, LogPcs, InitPcs, Ops
<1>4. RenewedBy(call[t])
  BY <1>1, <1>3, Zenon DEF Renewed, RenewedBy
<1>5. RenewedBy(call[t])'
  BY <1>1, <1>4, Zenon
<1>6. /\ \A c \in Sites : (\A u \in Threads : ~Behind(call'[u], c)) =>
           interest'[c] \in {"empty", RegisterCallsite(filter', c)}
      /\ (\A u \in Threads : ~BehindMax(call'[u])) => maxLevel' = filter'.hint
      /\ logger' /\ (\A u \in Threads : ~BehindLog(call'[u])) =>
           logMax' \in LogLevels \cup {filter'.hint}
  BY <1>5, Zenon DEF RenewedBy
<1>7. ASSUME NEW u \in Threads
      PROVE  /\ call'[u].op = "modify" /\ call'[u].pc \in {"ask", "store", "set_max", "log_max"}
                  => call'[u].lvl = filter'.hint
             /\ call'[u].pc = "store" /\ call'[u].site # Sentinel
                  => call'[u].val = RegisterCallsite(filter', call'[u].site)
  <2>1. CASE u = t
    BY <1>5, <2>1, Zenon DEF RenewedBy
  <2>2. CASE u # t
    BY <1>3, <2>2, Zenon DEF BehindLog
  <2>3. QED
    BY <2>1, <2>2, Zenon
<1>8. QED
  BY <1>6, <1>7, Zenon DEF Renewed

\* The caches of the log bridge do not notice a step that leaves them, the epoch
\* and the configuration alone and is not the end of a reload's turn.
LEMMA FreshSame ==
  ASSUME Inv, NEW t \in Threads, Only(t), UNCHANGED <<state, config, epoch>>,
         call'[t].op = "init" /\ call'[t].pc = "bump" <=> call[t].op = "init" /\ call[t].pc = "bump",
         alive' /\ ~poisoned' /\ ~BeforeBump(t)' =>
           alive /\ ~poisoned /\ ~BeforeBump(t) /\ filter' = filter
  PROVE  Fresh'
<1>1. \A u \in Threads : UpToDate(u)' <=> UpToDate(u)
  BY Zenon DEF UpToDate
<1>2. ASSUME alive', ~poisoned', \A u \in Threads : ~BeforeBump(u)',
             NEW u \in Threads, UpToDate(u)'
      PROVE  Agrees(state[u].cache)'
  <2>1. \A v \in Threads : ~BeforeBump(v)
    BY <1>2, Zenon DEF Only, BeforeBump
  <2>2. Agrees(state[u].cache) /\ filter' = filter
    BY <1>1, <1>2, <2>1, Zenon DEF Inv, Fresh
  <2>3. QED
    BY <2>2, Zenon DEF Agrees
<1>3. ASSUME \A u \in Threads : ~(call'[u].op = "init" /\ call'[u].pc = "bump"),
             NEW u \in Threads, UpToDate(u)'
      PROVE  state'[u].config = config'
  <2>1. \A v \in Threads : ~(call[v].op = "init" /\ call[v].pc = "bump")
    BY <1>3, Zenon DEF Only
  <2>2. QED
    BY <1>1, <1>3, <2>1, Zenon DEF Inv, Fresh
<1>4. QED
  BY <1>2, <1>3, Zenon DEF Fresh

LEMMA EpochsSame ==
  ASSUME Inv, NEW t \in Threads, Only(t), UNCHANGED <<state, epoch, sentinel, logger>>,
         call'[t].op \notin {"init", "log"}
  PROVE  Epochs'
BY Zenon DEF Inv, Epochs, Only

\* The filter is replaced: from here on the reload is behind with everything.
LEMMA SwapStep ==
  ASSUME Inv, NEW t \in Threads, Watched(t), Swap(t)
  PROVE  Inv'
<1>1. call[t].pc = "write" /\ call[t].op = "modify" /\ call[t].arg \in Filters
  BY Zenon DEF Swap, At, Inv, CallOK, EventPcs, InitPcs, LogPcs, Types, Calls, Ops
<1>2. CASE LockOf(t) = "ok"
  <2>1. filter' = call[t].arg /\ Goto(t, "max") /\ UNCHANGED panicking
    BY <1>2, Zenon DEF Swap
  <2>2. "max" \in Pcs
    BY Zenon DEF Pcs, ModifyPcs
  <2>3. /\ Only(t) /\ call'[t].op = "modify" /\ call'[t].pc = "max"
        /\ call'[t].arg = call[t].arg /\ call'[t].lvl = call[t].lvl
        /\ call'[t].site = call[t].site
    BY <1>1, <2>1, <2>2, GotoCall, Zenon DEF Inv
  <2>4. UNCHANGED <<poisoned, alive, siteVars, logVars, state>> /\ (Plain' => Plain)
    BY Zenon DEF Swap, Watched, Plain
  <2>5. call[t].site = NoSite => CallOK(call[t])'
    BY <1>1, <2>3, Zenon DEF CallOK, ModifyPcs, Inv
  <2>6. QED
    <3>1. call[t].site = NoSite
      BY <1>1, Zenon DEF Inv, CallOK
    <3>2. CallOK(call[t])' /\ Types'
      BY <1>1, <2>1, <2>3, <2>4, <2>5, <3>1, Zenon DEF Inv, Types, siteVars, logVars, Only
    <3>3. Listed'
      BY <2>3, <2>4, Zenon DEF Inv, Listed, Pushed, Only, siteVars
    <3>4. RenewedBy(call[t])' /\ Rebuilding(t)' /\ BeforeBump(t)'
      BY <2>3, Zenon DEF RenewedBy, Rebuilding, Behind, BehindMax, BehindLog, BeforeBump
    <3>5. Plain' => Renewed'
      BY <2>3, <2>4, <3>4, RenewedStep, Zenon
    <3>6. Fresh'
      BY <1>1, <2>3, <2>4, <3>4, FreshSame, Zenon DEF logVars
    <3>7. Epochs'
      BY <2>3, <2>4, EpochsSame, Zenon DEF logVars
    <3>8. t \notin clean' /\ logger' = logger
      BY <2>3, <2>4, Zenon DEF Watched, logVars
    <3>9. Kept(t)
      BY <2>3, <3>2, <3>3, <3>5, <3>6, <3>7, <3>8, Zenon DEF Kept
    <3>10. QED
      BY <3>9, KeptInv, Zenon
<1>3. CASE LockOf(t) = "panic"
  <2>1. poisoned /\ Unwind(t) /\ filter' = filter
    BY <1>3, Zenon DEF Swap, LockOf
  <2>2. UNCHANGED <<filterVars, siteVars, logVars, state>>
    BY <2>1, Zenon DEF Swap, filterVars
  <2>3. QED
    BY <1>1, <2>1, <2>2, UnwindStep, Zenon
<1>4. CASE LockOf(t) = "else"
  <2>1. poisoned /\ Goto(t, "done") /\ UNCHANGED <<filter, panicking>>
    BY <1>4, Zenon DEF Swap, LockOf
  <2>2. "done" \in Pcs /\ 0 \in Levels
    BY ReloadAssumption, SMT DEF Pcs, ModifyPcs, ReloadAssumption, Levels
  <2>3. /\ Only(t) /\ call'[t].op = "modify" /\ call'[t].pc = "done"
        /\ call'[t].arg = call[t].arg /\ call'[t].lvl = 0
    BY <1>1, <2>1, <2>2, GotoCall, Zenon DEF Inv
  <2>4. CallOK(call[t])'
    BY <1>1, <2>2, <2>3, Zenon DEF CallOK, ModifyPcs
  <2>5. UNCHANGED <<filterVars, siteVars, logVars, state>>
    BY <2>1, Zenon DEF Swap, filterVars
  <2>6. Calm(t)
    BY <1>1, <2>1, <2>3, <2>4, <2>5, Zenon DEF Calm, BehindLog, OnCourse, Inv, Types
  <2>7. QED
    BY <2>6, CalmStep, Zenon
<1>5. QED
  BY <1>2, <1>3, <1>4, Zenon DEF LockOf

\* The closure panics: the layer is poisoned.
LEMMA SwapPanicsStep ==
  ASSUME Inv, NEW t \in Threads, Watched(t), SwapPanics(t)
  PROVE  Inv'
<1>1. call[t].pc = "write" /\ call[t].op = "modify" /\ call[t].arg \in Filters
  BY Zenon DEF SwapPanics, At, Inv, CallOK, EventPcs, InitPcs, LogPcs, Types, Calls, Ops
<1>2. Only(t) /\ call'[t] = Idle /\ panicking' \subseteq Threads
  BY IdleCall, OnlyCall, Zenon DEF Inv, Types, Unwind, SwapPanics
<1>3. CallOK(call[t])' /\ call'[t].op = "none" /\ call'[t].pc = "idle"
  BY <1>2, IdleCall, Zenon DEF CallOK
<1>4. poisoned' /\ filter' \in Filters /\ UNCHANGED <<alive, siteVars, logVars, state>>
  BY <1>1, Zenon DEF SwapPanics, Inv, Types
<1>5. Types'
  BY <1>2, <1>4, Zenon DEF Inv, Types, siteVars, logVars, Only
<1>6. Listed'
  BY <1>2, <1>3, <1>4, Zenon DEF Inv, Listed, Pushed, Only, siteVars
<1>7. Fresh'
  BY <1>1, <1>2, <1>3, <1>4, FreshSame, Zenon DEF logVars
<1>8. Epochs'
  BY <1>2, <1>3, <1>4, EpochsSame, Zenon DEF logVars
<1>9. Kept(t)
  BY <1>2, <1>3, <1>4, <1>5, <1>6, <1>7, <1>8, Zenon DEF Kept, Plain, OnCourse, logVars
<1>10. QED
  BY <1>9, KeptInv, Zenon

\* A rebuild k goes to a callsite of the list, to the sentinel, or on.
VisitsList(k, n) == n.pc = "ask" /\ n.site \in k.todo /\ n.todo = k.todo \ {n.site}
VisitsSentinel(k, n) ==
  k.todo = {} /\ sentinel /\ k.site # Sentinel /\ n.pc = "ask" /\ n.site = Sentinel /\ n.todo = {}
VisitsNone(k, n) ==
  k.todo = {} /\ (sentinel => k.site = Sentinel) /\ n.pc = "set_max" /\ n.site = NoSite
Visits(k, n) == VisitsList(k, n) \/ VisitsSentinel(k, n) \/ VisitsNone(k, n)

LEMMA VisitCall ==
  ASSUME Types, NEW t \in Threads, NEW k \in Calls, Visit(t, k)
  PROVE  /\ Only(t) /\ Visits(k, call'[t])
         /\ call'[t].op = k.op /\ call'[t].arg = k.arg
         /\ call'[t].val = k.val /\ call'[t].lvl = k.lvl
<1>1. ASSUME NEW c \in k.todo,
             call' = [call EXCEPT ![t] = [k EXCEPT !.site = c, !.todo = @ \ {c}, !.pc = "ask"]]
      PROVE  /\ Only(t) /\ VisitsList(k, call'[t])
             /\ call'[t].op = k.op /\ call'[t].arg = k.arg
             /\ call'[t].val = k.val /\ call'[t].lvl = k.lvl
  <2> DEFINE n == [k EXCEPT !.site = c, !.todo = k.todo \ {c}, !.pc = "ask"]
  <2>1. c \in Sites \cup {Sentinel, NoSite} /\ k.todo \ {c} \in SUBSET Sites /\ "ask" \in Pcs
    BY Zenon DEF Calls, Pcs, ModifyPcs
  <2>2. /\ n \in Calls /\ n.site = c /\ n.todo = k.todo \ {c} /\ n.pc = "ask"
        /\ n.op = k.op /\ n.arg = k.arg /\ n.val = k.val /\ n.lvl = k.lvl
    BY <2>1, Zenon DEF Calls
  <2>3. call' = [call EXCEPT ![t] = n]
    BY <1>1, Zenon
  <2> HIDE DEF n
  <2>4. Only(t) /\ call'[t] = n
    BY <2>2, <2>3, OnlyCall, Zenon DEF Types
  <2>5. QED
    BY <2>2, <2>4, Zenon DEF VisitsList
<1>2. ASSUME k.todo = {}, NEW c \in {Sentinel, NoSite}, NEW p \in {"ask", "set_max"},
             call' = [call EXCEPT ![t] = [k EXCEPT !.site = c, !.pc = p]]
      PROVE  /\ Only(t) /\ call'[t].site = c /\ call'[t].todo = {} /\ call'[t].pc = p
             /\ call'[t].op = k.op /\ call'[t].arg = k.arg
             /\ call'[t].val = k.val /\ call'[t].lvl = k.lvl
  <2> DEFINE n == [k EXCEPT !.site = c, !.pc = p]
  <2>1. c \in Sites \cup {Sentinel, NoSite} /\ p \in Pcs
    BY Zenon DEF Pcs, ModifyPcs
  <2>2. /\ n \in Calls /\ n.site = c /\ n.todo = k.todo /\ n.pc = p
        /\ n.op = k.op /\ n.arg = k.arg /\ n.val = k.val /\ n.lvl = k.lvl
    BY <2>1, Zenon DEF Calls
  <2>3. call' = [call EXCEPT ![t] = n]
    BY <1>2, Zenon
  <2> HIDE DEF n
  <2>4. Only(t) /\ call'[t] = n
    BY <2>2, <2>3, OnlyCall, Zenon DEF Types
  <2>5. QED
    BY <1>2, <2>2, <2>4, Zenon
<1>3. CASE k.todo = {} /\ sentinel /\ k.site # Sentinel
           /\ call' = [call EXCEPT ![t] = [k EXCEPT !.site = Sentinel, !.pc = "ask"]]
  BY <1>2, <1>3, Zenon DEF Visits, VisitsSentinel
<1>4. CASE k.todo = {} /\ (sentinel => k.site = Sentinel)
           /\ call' = [call EXCEPT ![t] = [k EXCEPT !.site = NoSite, !.pc = "set_max"]]
  BY <1>2, <1>4, Zenon DEF Visits, VisitsNone
<1>5. QED
  BY <1>1, <1>3, <1>4, Zenon DEF Visit, Visits

\* A step in the middle of a rebuild or a registration.
Rebuilds(t) ==
  /\ Only(t) /\ call'[t].op = call[t].op /\ call[t].op \in {"modify", "event"}
  /\ Rebuilding(t) \/ Rebuilding(t)'
  /\ UNCHANGED <<filterVars, logger, sentinel, config, state, panicking>>
  /\ call'[t].op = "event" => call'[t].pc \notin {"dispatch", "done"}
  /\ reg' \in [Sites -> {"UNREGISTERED", "REGISTERING", "REGISTERED"}]
  /\ interest' \in [Sites -> Answers]
  /\ maxLevel' \in Levels /\ logMax' \in Levels /\ epoch' \in {epoch, epoch + 1}

LEMMA LaterEpoch ==
  ASSUME Inv, epoch' \in {epoch, epoch + 1}
  PROVE  /\ epoch' \in Nat
         /\ \A u \in Threads : state[u] # NoState => state[u].epoch <= epoch'
         /\ \A u \in Threads : call[u].op = "log" /\ call[u].pc = "renew" => call[u].lvl <= epoch'
         /\ epoch' = epoch + 1 => \A u \in Threads : state[u] # NoState => state[u].epoch # epoch'
<1>1. epoch \in Nat
  BY Zenon DEF Inv, Types
<1>2. ASSUME NEW x \in Nat, x <= epoch PROVE x <= epoch' /\ (epoch' = epoch + 1 => x # epoch')
  BY <1>1, <1>2, SMT
<1>3. \A u \in Threads : state[u] # NoState => state[u].epoch \in Nat /\ state[u].epoch <= epoch
  BY Zenon DEF Inv, Types, States, Epochs
<1>4. \A u \in Threads : call[u].lvl \in Nat
  BY Zenon DEF Inv, Types, Calls
<1>5. \A u \in Threads : call[u].op = "log" /\ call[u].pc = "renew" => call[u].lvl <= epoch
  BY Zenon DEF Inv, Epochs
<1>6. epoch' \in Nat
  BY <1>1, SMT
<1>7. QED
  BY <1>2, <1>3, <1>4, <1>5, <1>6, Zenon

LEMMA RebuildStep ==
  ASSUME Inv, NEW t \in Threads, Watched(t), Rebuilds(t),
         CallOK(call[t])', Listed', Fresh',
         Plain /\ RenewedBy(call[t]) => RenewedBy(call[t])'
  PROVE  Inv'
<1>1. epoch' \in {epoch, epoch + 1}
  BY Zenon DEF Rebuilds
<1>2. Types'
  BY <1>1, LaterEpoch, Zenon DEF Rebuilds, Inv, Types, filterVars, Only
<1>3. Plain' => Plain
  BY Zenon DEF Rebuilds, Plain, Watched, filterVars
<1>4. Only(t) /\ (Rebuilding(t) \/ Rebuilding(t)')
  BY Zenon DEF Rebuilds
<1>5. Plain' => Renewed'
  BY <1>3, <1>4, RenewedStep, Zenon
<1>6. Epochs'
  <2>1. call'[t].op \notin {"init", "log"} /\ UNCHANGED <<state, sentinel, logger>>
    BY Zenon DEF Rebuilds
  <2>2. \A u \in Threads \ {t} : call'[u] = call[u]
    BY <1>4, Zenon DEF Only
  <2>3. \A u \in Threads : call[u].op = "log" /\ call[u].pc = "renew" => call[u].lvl <= epoch'
    BY <1>1, LaterEpoch, Zenon
  <2>4. \A u \in Threads : state[u] # NoState => state[u].epoch <= epoch'
    BY <1>1, LaterEpoch, Zenon
  <2>5. QED
    BY <2>1, <2>2, <2>3, <2>4, Zenon DEF Inv, Epochs
<1>7. OnCourse(call[t])'
  BY Zenon DEF Rebuilds, OnCourse
<1>8. Kept(t)
  BY <1>2, <1>4, <1>5, <1>6, <1>7, Zenon DEF Kept, Rebuilds
<1>9. QED
  BY <1>8, KeptInv, Zenon

\* Where nobody has met the sentinel there is no cache, ...
LEMMA FreshNone ==
  ASSUME Inv, ~sentinel, UNCHANGED state
  PROVE  Fresh'
BY Zenon DEF Inv, Epochs, Fresh, UpToDate

\* ... and where it has just been met no cache is used.
LEMMA FreshLater ==
  ASSUME Inv, epoch' = epoch + 1, UNCHANGED state
  PROVE  Fresh'
<1>1. \A u \in Threads : ~UpToDate(u)'
  BY LaterEpoch, Zenon DEF UpToDate
<1>2. QED
  BY <1>1, Zenon DEF Fresh

LEMMA LayerAnswers ==
  ASSUME Inv, NEW t \in Threads
  PROVE  /\ AskHint(t) \in Levels /\ AskHint(t) \in Nat
         /\ \A c : AskInterest(t, c) \in Answers
         /\ Plain => /\ AskHint(t) = filter.hint
                     /\ \A c : AskInterest(t, c) = RegisterCallsite(filter, c)
<1>1. Trace \in Levels /\ \A f \in Filters : f.hint \in Levels
  BY ReloadAssumption, SMT DEF ReloadAssumption, Levels
<1>2. AskHint(t) \in Levels
  BY <1>1, Zenon DEF AskHint, Inv, Types
<1>3. AskHint(t) \in Nat
  BY <1>2, ReloadAssumption, SMT DEF ReloadAssumption, Levels
<1>4. \A c : AskInterest(t, c) \in Answers
  BY Zenon DEF AskInterest, RegisterCallsite, Answers
<1>5. QED
  BY <1>2, <1>3, <1>4, Zenon DEF AskHint, AskInterest, Plain, LockOf

LEMMA ListedStep ==
  ASSUME Inv, NEW t \in Threads, Only(t), Pushed \subseteq Pushed',
         call'[t].pc \in {"ask", "store"} =>
           /\ call'[t].op = "modify" => call'[t].todo \subseteq Pushed'
           /\ call'[t].site \in Pushed' \cup {Sentinel},
         \A c \in Sites : c \notin Pushed' => interest'[c] = "empty"
  PROVE  Listed'
<1>1. ASSUME NEW u \in Threads, call'[u].pc \in {"ask", "store"}
      PROVE  /\ call'[u].op = "modify" => call'[u].todo \subseteq Pushed'
             /\ call'[u].site \in Pushed' \cup {Sentinel}
  <2>1. CASE u = t
    BY <1>1, <2>1, Zenon
  <2>2. CASE u # t
    BY <1>1, <2>2, Zenon DEF Only, Inv, Listed
  <2>3. QED
    BY <2>1, <2>2, Zenon
<1>2. QED
  BY <1>1, Zenon DEF Listed

\* The walk over the list after a step of a rebuild: k is what the rebuild knows
\* when it looks for the next callsite.
LEMMA WalkOn ==
  ASSUME Inv, NEW t \in Threads, NEW k \in Calls, Visit(t, k), Pushed' = Pushed,
         k.op = "modify", k.arg \in Filters, k.lvl \in Levels, k.todo \subseteq Pushed,
         \A c \in Sites : c \notin Pushed => interest'[c] = "empty"
  PROVE  CallOK(call[t])' /\ Listed' /\ Rebuilding(t)'
<1>1. /\ Only(t) /\ Visits(k, call'[t]) /\ call'[t].op = "modify" /\ call'[t].arg \in Filters
      /\ call'[t].lvl \in Levels
  BY VisitCall, Zenon DEF Inv
<1>2. NoSite # Sentinel /\ NoSite \notin Sites /\ Sentinel \notin Sites /\ k.todo \subseteq Sites
  BY ReloadAssumption, Zenon DEF ReloadAssumption, Calls
<1>3. call'[t].pc \in {"ask", "set_max"}
  BY <1>1, Zenon DEF Visits, VisitsList, VisitsSentinel, VisitsNone
<1>4. call'[t].pc = "ask" =>
        /\ call'[t].site # NoSite /\ (call'[t].site = Sentinel => call'[t].todo = {})
        /\ call'[t].site \in k.todo \cup {Sentinel} /\ call'[t].todo \subseteq k.todo
  BY <1>1, <1>2, Zenon DEF Visits, VisitsList, VisitsSentinel, VisitsNone
<1>5. CallOK(call[t])' /\ Rebuilding(t)'
  BY <1>1, <1>3, <1>4, Zenon DEF CallOK, ModifyPcs, Rebuilding
<1>6. Listed'
  BY <1>1, <1>3, <1>4, ListedStep, Zenon
<1>7. QED
  BY <1>5, <1>6, Zenon

LEMMA ComputeMaxStep ==
  ASSUME Inv, NEW t \in Threads, Watched(t), ComputeMax(t)
  PROVE  Inv'
<1>1. /\ call[t].pc = "max" /\ call[t].op = "modify" /\ call[t].arg \in Filters
      /\ call[t].site = NoSite /\ call[t] \in Calls
  BY Zenon DEF ComputeMax, At, Inv, CallOK, EventPcs, InitPcs, LogPcs, Types, Calls, Ops
<1>2. CASE Panics(t) /\ Unwind(t)
  BY <1>1, <1>2, PanicsPoisoned, UnwindStep, Zenon DEF ComputeMax
<1>3. CASE ~Panics(t) /\ UNCHANGED panicking
           /\ Visit(t, [call[t] EXCEPT !.lvl = AskHint(t), !.todo = Pushed])
  <2> DEFINE k == [call[t] EXCEPT !.lvl = AskHint(t), !.todo = Pushed]
  <2>1. Pushed \in SUBSET Sites /\ AskHint(t) \in Nat /\ AskHint(t) \in Levels
    BY LayerAnswers, Zenon DEF Pushed
  <2>2. /\ k \in Calls /\ k.op = "modify" /\ k.arg \in Filters /\ k.lvl = AskHint(t)
        /\ k.todo = Pushed /\ k.site = NoSite
    BY <1>1, <2>1, Zenon DEF Calls
  <2>3. Visit(t, k)
    BY <1>3, Zenon
  <2> HIDE DEF k
  <2>4. UNCHANGED <<filterVars, siteVars, logVars, state>>
    BY Zenon DEF ComputeMax
  <2>5. Pushed' = Pushed /\ \A c \in Sites : c \notin Pushed => interest'[c] = "empty"
    BY <2>4, Zenon DEF Pushed, siteVars, Inv, Listed
  <2>6. CallOK(call[t])' /\ Listed' /\ Rebuilding(t)'
    BY <2>1, <2>2, <2>3, <2>5, WalkOn, Zenon
  <2>7. /\ Only(t) /\ Visits(k, call'[t]) /\ call'[t].op = "modify" /\ call'[t].lvl = AskHint(t)
    BY <2>2, <2>3, VisitCall, Zenon DEF Inv
  <2>8. Rebuilds(t)
    BY <1>1, <1>3, <2>4, <2>6, <2>7, Zenon DEF Rebuilds, logVars, siteVars, Inv, Types
  <2>9. Fresh'
    <3>1. CASE VisitsNone(k, call'[t])
      BY <2>2, <2>4, <3>1, ReloadAssumption, FreshNone, Zenon DEF VisitsNone, ReloadAssumption
    <3>2. CASE ~VisitsNone(k, call'[t])
      <4>1. BeforeBump(t)'
        BY <2>7, <3>2, Zenon DEF BeforeBump, Visits, VisitsList, VisitsSentinel
      <4>2. QED
        BY <1>1, <2>4, <2>7, <4>1, FreshSame, Zenon DEF logVars
    <3>3. QED
      BY <3>1, <3>2, Zenon
  <2>10. ASSUME Plain PROVE RenewedBy(call[t])'
    <3>1. call'[t].lvl = filter'.hint
      BY <2>4, <2>7, <2>10, LayerAnswers, Zenon DEF filterVars
    <3>2. BehindMax(call'[t]) /\ BehindLog(call'[t]) /\ call'[t].pc # "store"
      BY <2>7, Zenon DEF Visits, VisitsList, VisitsSentinel, VisitsNone, BehindMax, BehindLog
    <3>3. \A c \in Sites : ~Behind(call'[t], c) => c \notin Pushed
      BY <2>2, <2>7, Zenon DEF Visits, VisitsList, VisitsSentinel, VisitsNone, Behind
    <3>4. QED
      BY <2>5, <3>1, <3>2, <3>3, Zenon DEF RenewedBy
  <2>11. QED
    BY <2>6, <2>8, <2>9, <2>10, RebuildStep, Zenon
<1>4. QED
  BY <1>2, <1>3, Zenon DEF ComputeMax

\* The subscriber is asked for the interest of a callsite.
LEMMA AskStep ==
  ASSUME Inv, NEW t \in Threads, Watched(t), Ask(t)
  PROVE  Inv'
<1>1. /\ call[t].pc = "ask" /\ call[t].op \in {"modify", "event"} /\ CallOK(call[t])
      /\ call[t] \in Calls
  BY Zenon DEF Ask, At, Inv, CallOK, InitPcs, LogPcs, Types, Calls, Ops
<1>2. CASE Panics(t) /\ Unwind(t)
  BY <1>1, <1>2, PanicsPoisoned, UnwindStep, Zenon DEF Ask
<1>3. CASE /\ ~Panics(t) /\ UNCHANGED panicking
           /\ call' = [call EXCEPT ![t].val = AskInterest(t, call[t].site), ![t].pc = "store"]
  <2> DEFINE v == AskInterest(t, call[t].site)
             n == [call[t] EXCEPT !.val = v, !.pc = "store"]
  <2>1. v \in Answers /\ "store" \in Pcs
    BY LayerAnswers, Zenon DEF Pcs, ModifyPcs
  <2>2. call \in [Threads -> Calls] /\ call' = [call EXCEPT ![t] = n]
    BY <1>3, Zenon DEF Inv, Types
  <2> HIDE DEF v
  <2>3. /\ n \in Calls /\ n.val = v /\ n.pc = "store" /\ n.op = call[t].op
        /\ n.arg = call[t].arg /\ n.site = call[t].site /\ n.todo = call[t].todo
        /\ n.lvl = call[t].lvl
    BY <1>1, <2>1, Zenon DEF Calls
  <2> HIDE DEF n
  <2>4. Only(t) /\ call'[t] = n
    BY <2>2, <2>3, OnlyCall, Zenon
  <2>5. UNCHANGED <<filterVars, siteVars, logVars, state>>
    BY Zenon DEF Ask
  <2>6. CallOK(call[t])'
    BY <1>1, <2>3, <2>4, Zenon DEF CallOK, ModifyPcs, EventPcs
  <2>7. Listed'
    <3>1. Pushed' = Pushed /\ \A c \in Sites : c \notin Pushed => interest'[c] = "empty"
      BY <2>5, Zenon DEF Inv, Listed, Pushed, siteVars
    <3>2. /\ call[t].op = "modify" => call[t].todo \subseteq Pushed
          /\ call[t].site \in Pushed \cup {Sentinel}
      BY <1>1, Zenon DEF Inv, Listed
    <3>3. QED
      BY <2>3, <2>4, <3>1, <3>2, ListedStep, Zenon
  <2>8. Rebuilds(t)
    BY <1>1, <1>3, <2>3, <2>4, <2>5, Zenon DEF Rebuilds, Rebuilding, logVars, siteVars, Inv, Types
  <2>9. Fresh'
    BY <1>1, <2>3, <2>4, <2>5, FreshSame, Zenon DEF logVars, filterVars, BeforeBump
  <2>10. ASSUME Plain, RenewedBy(call[t]) PROVE RenewedBy(call[t])'
    <3>1. v = RegisterCallsite(filter, call[t].site)
      BY <2>10, LayerAnswers, Zenon DEF v
    <3>2. /\ \A c : Behind(call'[t], c) <=> Behind(call[t], c)
          /\ BehindMax(call'[t]) <=> BehindMax(call[t])
          /\ BehindLog(call'[t]) <=> BehindLog(call[t])
      BY <1>1, <2>3, <2>4, Zenon DEF Behind, BehindMax, BehindLog
    <3>3. UNCHANGED <<filter, interest, maxLevel, logMax, logger>>
      BY <2>5, Zenon DEF filterVars, siteVars, logVars
    <3>4. QED
      BY <1>1, <2>3, <2>4, <2>10, <3>1, <3>2, <3>3, Zenon DEF RenewedBy
  <2>11. QED
    BY <2>6, <2>7, <2>8, <2>9, <2>10, RebuildStep, Zenon
<1>4. QED
  BY <1>2, <1>3, Zenon DEF Ask

\* The end of a reload: the maximum level, and the log crate's.
LEMMA LevelStep ==
  ASSUME Inv, NEW t \in Threads, Watched(t), SetMax(t) \/ Current(t) \/ SetLogMax(t)
  PROVE  Inv'
<1>1. /\ call[t].pc \in {"set_max", "current", "log_max"} /\ call[t].op = "modify"
      /\ CallOK(call[t]) /\ call[t].arg \in Filters /\ call[t].lvl \in Levels
      /\ call[t] \in Calls
  BY Zenon DEF SetMax, Current, SetLogMax, At, Inv, CallOK, EventPcs, InitPcs, LogPcs,
               Types, Calls, Ops
<1>2. maxLevel \in Nat /\ 0 \in Levels /\ maxLevel \in Levels
  BY ReloadAssumption, SMT DEF ReloadAssumption, Levels, Inv, Types
<1>3. /\ Only(t) /\ call'[t].op = "modify" /\ call'[t].arg = call[t].arg
      /\ call'[t].lvl \in Levels /\ call'[t].pc \in {"current", "log_max", "done"}
      /\ Current(t) => call'[t].lvl = maxLevel /\ call'[t].pc = "log_max"
      /\ SetMax(t) => call'[t].pc = "current"
      /\ SetLogMax(t) => call'[t].pc = "done"
  <2>1. CASE SetMax(t)
    <3>1. Goto(t, "current") /\ "current" \in Pcs
      BY <2>1, Zenon DEF SetMax, Pcs, ModifyPcs
    <3>2. ~Current(t) /\ ~SetLogMax(t)
      BY <2>1, Zenon DEF SetMax, Current, SetLogMax, At
    <3>3. QED
      BY <1>1, <3>1, <3>2, GotoCall, Zenon DEF Inv
  <2>2. CASE Current(t)
    <3> DEFINE n == [call[t] EXCEPT !.lvl = maxLevel, !.pc = "log_max"]
    <3>1. call \in [Threads -> Calls] /\ call' = [call EXCEPT ![t] = n] /\ "log_max" \in Pcs
      BY <2>2, Zenon DEF Current, Inv, Types, Pcs, ModifyPcs
    <3>2. /\ n \in Calls /\ n.lvl = maxLevel /\ n.pc = "log_max" /\ n.op = "modify"
          /\ n.arg = call[t].arg
      BY <1>1, <1>2, <3>1, Zenon DEF Calls
    <3> HIDE DEF n
    <3>3. Only(t) /\ call'[t] = n
      BY <3>1, <3>2, OnlyCall, Zenon
    <3>4. ~SetMax(t) /\ ~SetLogMax(t)
      BY <2>2, Zenon DEF SetMax, Current, SetLogMax, At
    <3>5. QED
      BY <1>2, <3>2, <3>3, <3>4, Zenon
  <2>3. CASE SetLogMax(t)
    <3>1. Goto(t, "done") /\ "done" \in Pcs
      BY <2>3, Zenon DEF SetLogMax, Pcs, ModifyPcs
    <3>2. ~Current(t) /\ ~SetMax(t)
      BY <2>3, Zenon DEF SetMax, Current, SetLogMax, At
    <3>3. QED
      BY <1>1, <1>2, <3>1, <3>2, GotoCall, Zenon DEF Inv
  <2>4. QED
    BY <2>1, <2>2, <2>3, Zenon
<1>4. CallOK(call[t])'
  BY <1>1, <1>3, Zenon DEF CallOK, ModifyPcs
<1>5. /\ UNCHANGED <<filterVars, reg, interest, logger, sentinel, config, epoch, state, panicking>>
      /\ maxLevel' = IF SetMax(t) THEN call[t].lvl ELSE maxLevel
      /\ logMax' = IF SetLogMax(t) THEN call[t].lvl ELSE logMax
  BY Zenon DEF SetMax, Current, SetLogMax, At, siteVars, logVars
<1>6. Listed'
  BY <1>3, <1>5, Zenon DEF Inv, Listed, Pushed, Only
<1>7. Rebuilds(t)
  BY <1>1, <1>3, <1>5, Zenon DEF Rebuilds, Rebuilding, Inv, Types
<1>8. Fresh'
  BY <1>1, <1>3, <1>5, FreshSame, Zenon DEF filterVars, BeforeBump
<1>9. ASSUME Plain, RenewedBy(call[t]) PROVE RenewedBy(call[t])'
  <2>1. \A c : ~Behind(call[t], c)
    BY <1>1, Zenon DEF Behind
  <2>2. ~BehindMax(call'[t]) => maxLevel' = filter'.hint
    BY <1>1, <1>3, <1>5, <1>9, Zenon DEF RenewedBy, BehindMax, filterVars, SetMax, Current,
                                         SetLogMax, At
  <2>3. ~BehindLog(call'[t]) => logMax' = filter'.hint
    BY <1>1, <1>3, <1>5, <1>9, Zenon DEF RenewedBy, BehindLog, filterVars, SetMax, Current,
                                         SetLogMax, At
  <2>4. call'[t].pc = "log_max" => call'[t].lvl = filter'.hint
    BY <1>1, <1>3, <1>5, <1>9, Zenon DEF RenewedBy, BehindMax, filterVars, SetMax, Current,
                                         SetLogMax, At
  <2>5. QED
    BY <1>3, <1>5, <1>9, <2>1, <2>2, <2>3, <2>4, Zenon DEF RenewedBy, filterVars
<1>10. QED
  BY <1>4, <1>6, <1>7, <1>8, <1>9, RebuildStep, Zenon

\* set_interest of the callsite that a registration is for.
LEMMA StoreRegistered ==
  ASSUME Inv, NEW t \in Threads, Watched(t), Store(t), call[t].op = "event"
  PROVE  Inv'
<1> DEFINE c == call[t].site
<1>1. /\ call[t].pc = "store" /\ CallOK(call[t]) /\ c = call[t].arg /\ c \in Sites
      /\ call[t].val \in Answers
  BY Zenon DEF Store, At, Inv, CallOK, Types, Calls
<1>2. c # Sentinel /\ c \in Pushed
  BY <1>1, ReloadAssumption, Zenon DEF Inv, Listed, ReloadAssumption
<1>3. /\ interest' = [interest EXCEPT ![c] = call[t].val]
      /\ reg' = [reg EXCEPT ![c] = "REGISTERED"] /\ Goto(t, "interest")
      /\ UNCHANGED <<filterVars, maxLevel, logVars, state, panicking>>
  BY <1>2, Zenon DEF Store, logVars
<1> HIDE DEF c
<1>4. "interest" \in Pcs
  BY Zenon DEF Pcs, EventPcs
<1>5. /\ Only(t) /\ call'[t].op = "event" /\ call'[t].pc = "interest"
      /\ call'[t].arg = call[t].arg
  BY <1>3, <1>4, GotoCall, Zenon DEF Inv
<1>6. CallOK(call[t])'
  BY <1>1, <1>5, Zenon DEF CallOK, EventPcs
<1>7. reg \in [Sites -> {"UNREGISTERED", "REGISTERING", "REGISTERED"}]
      /\ interest \in [Sites -> Answers]
  BY Zenon DEF Inv, Types
<1>8. /\ reg' \in [Sites -> {"UNREGISTERED", "REGISTERING", "REGISTERED"}]
      /\ interest' \in [Sites -> Answers]
  BY <1>1, <1>3, <1>7, Zenon
<1>9. Pushed \subseteq Pushed'
  BY <1>3, <1>7, Zenon DEF Pushed
<1>10. \A d \in Sites : d # c => interest'[d] = interest[d]
  BY <1>3, <1>7, Zenon
<1>11. Listed'
  BY <1>2, <1>5, <1>9, <1>10, ListedStep, Zenon DEF Inv, Listed
<1>12. Rebuilds(t)
  BY <1>1, <1>3, <1>5, <1>8, Zenon DEF Rebuilds, Rebuilding, logVars, Inv, Types
<1>13. Fresh'
  BY <1>3, <1>5, FreshSame, Zenon DEF logVars, filterVars, BeforeBump
<1>14. ASSUME RenewedBy(call[t]) PROVE RenewedBy(call[t])'
  <2>1. interest'[c] = RegisterCallsite(filter, c)
    BY <1>1, <1>2, <1>3, <1>7, <1>14, Zenon DEF RenewedBy, c
  <2>2. UNCHANGED <<filter, maxLevel, logMax, logger>>
    BY <1>3, Zenon DEF filterVars, logVars
  <2>3. ~BehindMax(call[t]) /\ ~BehindLog(call[t]) /\ \A d : ~Behind(call[t], d)
    BY Zenon DEF BehindMax, BehindLog, Behind
  <2>4. QED
    BY <1>5, <1>10, <1>14, <2>1, <2>2, <2>3, Zenon DEF RenewedBy
<1>15. QED
  BY <1>6, <1>11, <1>12, <1>13, <1>14, RebuildStep, Zenon

\* set_interest of a callsite that a rebuild meets, or of the sentinel.
LEMMA StoreRebuilt ==
  ASSUME Inv, NEW t \in Threads, Watched(t), Store(t), call[t].op # "event"
  PROVE  Inv'
<1> DEFINE c == call[t].site
           k == [call[t] EXCEPT !.val = "empty"]
<1>1. /\ call[t].pc = "store" /\ CallOK(call[t]) /\ call[t].op = "modify"
      /\ call[t].val \in Answers /\ call[t] \in Calls
      /\ call[t].arg \in Filters /\ call[t].lvl \in Levels
  BY Zenon DEF Store, At, Inv, CallOK, InitPcs, LogPcs, Types, Calls, Ops
<1>2. c \in Pushed \cup {Sentinel} /\ call[t].todo \subseteq Pushed
  BY <1>1, Zenon DEF Inv, Listed
<1>3. /\ Visit(t, k) /\ UNCHANGED <<filterVars, maxLevel, logMax, logger, sentinel, config,
                                    state, panicking, reg>>
      /\ c = Sentinel => epoch' = epoch + 1 /\ interest' = interest
      /\ c # Sentinel => epoch' = epoch /\ interest' = [interest EXCEPT ![c] = call[t].val]
  BY Zenon DEF Store
<1>4. /\ k \in Calls /\ k.op = "modify" /\ k.arg = call[t].arg /\ k.lvl = call[t].lvl
      /\ k.todo = call[t].todo /\ k.site = c
  BY <1>1, CallTypes, Zenon DEF Calls
<1> HIDE DEF c, k
<1>5. Pushed' = Pushed /\ Pushed \subseteq Sites
  BY <1>3, Zenon DEF Pushed
<1>6. /\ interest \in [Sites -> Answers] /\ interest' \in [Sites -> Answers]
      /\ \A d \in Sites : d # c => interest'[d] = interest[d]
  BY <1>1, <1>2, <1>3, <1>5, Zenon DEF Inv, Types
<1>7. \A d \in Sites : d \notin Pushed => interest'[d] = "empty"
  <2>1. CASE c = Sentinel
    BY <1>3, <2>1, Zenon DEF Inv, Listed
  <2>2. CASE c # Sentinel
    BY <1>2, <1>6, <2>2, Zenon DEF Inv, Listed
  <2>3. QED
    BY <2>1, <2>2, Zenon
<1>8. CallOK(call[t])' /\ Listed' /\ Rebuilding(t)'
  BY <1>1, <1>2, <1>3, <1>4, <1>5, <1>7, WalkOn, Zenon
<1>9. /\ Only(t) /\ Visits(k, call'[t]) /\ call'[t].op = "modify" /\ call'[t].lvl = call[t].lvl
  BY <1>3, <1>4, VisitCall, Zenon DEF Inv
<1>10. Rebuilds(t)
  BY <1>1, <1>3, <1>6, <1>8, <1>9, Zenon DEF Rebuilds, Inv, Types
<1>11. Fresh'
  <2>1. CASE c = Sentinel
    BY <1>3, <2>1, FreshLater, Zenon
  <2>2. CASE c # Sentinel /\ VisitsNone(k, call'[t])
    BY <1>3, <1>4, <2>2, FreshNone, Zenon DEF VisitsNone
  <2>3. CASE c # Sentinel /\ ~VisitsNone(k, call'[t])
    <3>1. BeforeBump(t)'
      BY <1>9, <2>3, Zenon DEF BeforeBump, Visits, VisitsList, VisitsSentinel
    <3>2. QED
      BY <1>1, <1>3, <1>9, <2>3, <3>1, FreshSame, Zenon
  <2>4. QED
    BY <2>1, <2>2, <2>3, Zenon
<1>12. ASSUME Plain, RenewedBy(call[t]) PROVE RenewedBy(call[t])'
  <2>1. c \in Sites => interest'[c] = RegisterCallsite(filter, c)
    BY <1>1, <1>3, <1>6, <1>12, ReloadAssumption, Zenon DEF RenewedBy, c, ReloadAssumption
  <2>2. UNCHANGED <<filter, maxLevel, logMax, logger>>
    BY <1>3, Zenon DEF filterVars
  <2>3. BehindMax(call'[t]) /\ BehindLog(call'[t]) /\ call'[t].pc # "store"
    BY <1>9, Zenon DEF Visits, VisitsList, VisitsSentinel, VisitsNone, BehindMax, BehindLog
  <2>4. \A d \in Sites : ~Behind(call'[t], d) => d \notin k.todo
    BY <1>9, Zenon DEF Visits, VisitsList, VisitsSentinel, VisitsNone, Behind
  <2>5. \A d \in Sites : ~Behind(call'[t], d) /\ d # c => ~Behind(call[t], d)
    BY <1>1, <1>4, <2>4, Zenon DEF Behind, c
  <2>6. \A d \in Sites : ~Behind(call'[t], d) => interest'[d] \in {"empty", RegisterCallsite(filter, d)}
    BY <1>6, <1>12, <2>1, <2>5, Zenon DEF RenewedBy
  <2>7. call'[t].lvl = filter'.hint
    BY <1>1, <1>9, <1>12, <2>2, Zenon DEF RenewedBy
  <2>8. QED
    BY <2>2, <2>3, <2>6, <2>7, Zenon DEF RenewedBy
<1>13. QED
  BY <1>8, <1>10, <1>11, <1>12, RebuildStep, Zenon

\* A callsite that nobody has registered: this call does.
LEMMA RegisterStep ==
  ASSUME Inv, NEW t \in Threads, Watched(t), Interest(t), reg' # reg
  PROVE  Inv'
<1> DEFINE c == call[t].arg
           n == [call[t] EXCEPT !.site = c, !.pc = "ask"]
<1>1. /\ call[t].pc = "interest" /\ call[t].op = "event" /\ c \in Sites /\ call[t] \in Calls
      /\ interest[c] \in Answers
  BY Zenon DEF Interest, At, Inv, CallOK, ModifyPcs, InitPcs, LogPcs, Types, Calls, Ops
<1>2. /\ reg' = [reg EXCEPT ![c] = "REGISTERING"] /\ call' = [call EXCEPT ![t] = n]
      /\ UNCHANGED <<filterVars, interest, maxLevel, logVars, state, panicking>>
  BY <1>1, Zenon DEF Interest, Answers
<1>3. /\ n \in Calls /\ n.site = c /\ n.pc = "ask" /\ n.op = "event" /\ n.arg = c
  <2>1. "ask" \in Pcs /\ c \in Sites \cup {Sentinel, NoSite}
    BY <1>1, Zenon DEF Pcs, ModifyPcs
  <2>2. QED
    BY <1>1, <2>1, Zenon DEF Calls
<1> HIDE DEF n, c
<1>4. Only(t) /\ call'[t] = n
  BY <1>2, <1>3, OnlyCall, Zenon DEF Inv, Types
<1>5. CallOK(call[t])'
  <2>1. c # NoSite /\ c # Sentinel
    BY <1>1, ReloadAssumption, Zenon DEF ReloadAssumption
  <2>2. QED
    BY <1>1, <1>3, <1>4, <2>1, Zenon DEF CallOK, EventPcs
<1>6. /\ reg \in [Sites -> {"UNREGISTERED", "REGISTERING", "REGISTERED"}]
      /\ reg' \in [Sites -> {"UNREGISTERED", "REGISTERING", "REGISTERED"}]
  BY <1>1, <1>2, Zenon DEF Inv, Types
<1>7. Pushed \subseteq Pushed' /\ c \in Pushed'
  BY <1>1, <1>2, <1>6, Zenon DEF Pushed
<1>8. Listed'
  BY <1>2, <1>3, <1>4, <1>7, ListedStep, Zenon DEF Inv, Listed
<1>9. Rebuilds(t)
  BY <1>1, <1>2, <1>3, <1>4, <1>6, Zenon DEF Rebuilds, Rebuilding, logVars, Inv, Types
<1>10. Fresh'
  BY <1>1, <1>2, <1>3, <1>4, FreshSame, Zenon DEF logVars, filterVars, BeforeBump
<1>11. ASSUME RenewedBy(call[t]) PROVE RenewedBy(call[t])'
  <2>1. /\ ~BehindMax(call[t]) /\ ~BehindLog(call[t]) /\ \A d : ~Behind(call[t], d)
    BY <1>1, Zenon DEF BehindMax, BehindLog, Behind
  <2>2. UNCHANGED <<filter, interest, maxLevel, logMax, logger>>
    BY <1>2, Zenon DEF filterVars, logVars
  <2>3. QED
    BY <1>3, <1>4, <1>11, <2>1, <2>2, Zenon DEF RenewedBy
<1>12. QED
  BY <1>5, <1>8, <1>9, <1>10, <1>11, RebuildStep, Zenon

\* The subscriber is dropped.
LEMMA DropStep ==
  ASSUME Inv, NEW t, Watched(t), DropSubscriber
  PROVE  Inv'
<1>1. /\ ~alive' /\ alive /\ alive' \in BOOLEAN
      /\ UNCHANGED <<filter, poisoned, siteVars, logVars, state, call, panicking>>
  BY Zenon DEF DropSubscriber
<1>2. clean' = {}
  BY <1>1, Zenon DEF Watched, filterVars
<1>3. Types' /\ Listed' /\ Epochs' /\ \A u \in Threads : CallOK(call[u])'
  BY <1>1, Zenon DEF Inv, Types, Listed, Pushed, Epochs, CallOK, siteVars, logVars
<1>4. Fresh'
  BY <1>1, Zenon DEF Inv, Fresh, UpToDate, logVars
<1>5. QED
  BY <1>1, <1>2, <1>3, <1>4, Zenon DEF Inv, Plain, Undisturbed, Watched

-----------------------------------------------------------------------------
(* Steps of Builder::init                                                  *)

Inits(t) ==
  /\ Only(t) /\ call'[t].op = "init" /\ call[t].op \in {"none", "init"} /\ CallOK(call[t])'
  /\ Rebuilding(t) \/ Rebuilding(t)'
  /\ UNCHANGED <<filterVars, siteVars, state, panicking>>
  /\ logMax' \in Levels /\ logger' \in BOOLEAN /\ config' \in Configs
  /\ sentinel' = TRUE /\ epoch' \in {epoch, epoch + 1}

LEMMA InitStep ==
  ASSUME Inv, NEW t \in Threads, Watched(t), Inits(t), Fresh',
         Plain /\ RenewedBy(call[t]) => RenewedBy(call[t])'
  PROVE  Inv'
<1>1. epoch' \in {epoch, epoch + 1} /\ Only(t) /\ (Rebuilding(t) \/ Rebuilding(t)')
  BY Zenon DEF Inits
<1>2. Types'
  BY <1>1, LaterEpoch, Zenon DEF Inits, Inv, Types, filterVars, siteVars, Only
<1>3. Plain' => Plain
  BY Zenon DEF Inits, Plain, Watched, filterVars
<1>4. Plain' => Renewed'
  BY <1>1, <1>3, RenewedStep, Zenon
<1>5. Epochs'
  <2>1. call'[t].op = "init" /\ sentinel' = TRUE /\ UNCHANGED state
    BY Zenon DEF Inits
  <2>2. \A u \in Threads \ {t} : call'[u] = call[u]
    BY <1>1, Zenon DEF Only
  <2>3. \A u \in Threads : call[u].op = "log" /\ call[u].pc = "renew" => call[u].lvl <= epoch'
    BY <1>1, LaterEpoch, Zenon
  <2>4. \A u \in Threads : state[u] # NoState => state[u].epoch <= epoch'
    BY <1>1, LaterEpoch, Zenon
  <2>5. QED
    BY <2>1, <2>2, <2>3, <2>4, Zenon DEF Inv, Epochs
<1>6. Listed'
  <2>1. call'[t].pc \notin {"ask", "store"} /\ UNCHANGED siteVars
    BY Zenon DEF Inits, CallOK, InitPcs
  <2>2. Pushed' = Pushed
    BY <2>1, Zenon DEF siteVars, Pushed
  <2>3. \A c \in Sites : c \notin Pushed => interest'[c] = "empty"
    BY <2>1, Zenon DEF siteVars, Inv, Listed
  <2>4. QED
    BY <1>1, <2>1, <2>2, <2>3, ListedStep, Zenon
<1>7. Kept(t)
  BY <1>1, <1>2, <1>4, <1>5, <1>6, Zenon DEF Kept, Inits, OnCourse
<1>8. QED
  BY <1>7, KeptInv, Zenon

LEMMA InitLoggerStep ==
  ASSUME Inv, NEW t \in Threads, Watched(t), NEW new \in CacheConfigs, NEW level \in LogLevels,
         InitLogger(t, new, level)
  PROVE  Inv'
<1> DEFINE a == [config |-> new, level |-> level]
<1>1. /\ a \in InitArgs /\ a \in Args /\ "init" \in Ops /\ "config" \in Pcs
      /\ Start(t, "init", "config", a)
  BY Zenon DEF InitArgs, Args, Ops, Pcs, InitPcs, InitLogger
<1> HIDE DEF a
<1>2. /\ Only(t) /\ call[t].pc = "idle" /\ call'[t].op = "init" /\ call'[t].pc = "config"
      /\ call'[t].arg = a
  BY <1>1, StartCall, Zenon DEF Inv
<1>3. CallOK(call[t])' /\ call[t].op = "none"
  BY <1>1, <1>2, Zenon DEF CallOK, InitPcs, Inv
<1>4. /\ UNCHANGED <<filterVars, siteVars, logMax, logger, config, state, panicking>>
      /\ sentinel' = TRUE /\ epoch' = IF sentinel THEN epoch ELSE epoch + 1
  BY Zenon DEF InitLogger
<1>5. Inits(t)
  BY <1>2, <1>3, <1>4, Zenon DEF Inits, Rebuilding, Inv, Types
<1>6. Fresh'
  <2>1. CASE sentinel
    BY <1>2, <1>3, <1>4, <2>1, FreshSame, Zenon DEF BeforeBump, filterVars
  <2>2. CASE ~sentinel
    BY <1>4, <2>2, FreshNone, Zenon
  <2>3. QED
    BY <2>1, <2>2, Zenon
<1>7. ASSUME RenewedBy(call[t]) PROVE RenewedBy(call[t])'
  <2>1. ~BehindMax(call[t]) /\ ~BehindLog(call[t]) /\ \A d : ~Behind(call[t], d)
    BY <1>3, Zenon DEF BehindMax, BehindLog, Behind
  <2>2. UNCHANGED <<filter, interest, maxLevel, logMax, logger>>
    BY <1>4, Zenon DEF filterVars, siteVars
  <2>3. QED
    BY <1>2, <1>7, <2>1, <2>2, Zenon DEF RenewedBy
<1>8. QED
  BY <1>5, <1>6, <1>7, InitStep, Zenon

\* configure, set_boxed_logger and set_max_level.
LEMMA SetUpStep ==
  ASSUME Inv, NEW t \in Threads, Watched(t),
         Configure(t) \/ Bump(t) \/ SetLogger(t) \/ SetLogFilter(t)
  PROVE  Inv'
<1>1. /\ call[t].pc \in {"config", "bump", "logger", "log_filter"} /\ call[t].op = "init"
      /\ call[t].arg \in InitArgs /\ sentinel
  BY Zenon DEF Configure, Bump, SetLogger, SetLogFilter, At, Inv, CallOK, ModifyPcs, EventPcs,
               LogPcs, Types, Calls, Ops, Epochs
<1>2. PICK p \in {"bump", "logger", "log_filter", "done"} :
        /\ Goto(t, p)
        /\ Configure(t) <=> p = "bump"
        /\ Bump(t) <=> p = "logger"
        /\ p = "log_filter" => SetLogger(t) /\ logger' = TRUE
        /\ SetLogger(t) => p = (IF logger THEN "done" ELSE "log_filter")
        /\ SetLogFilter(t) => p = "done"
  BY <1>1, Zenon DEF Configure, Bump, SetLogger, SetLogFilter, At
<1>3. p \in Pcs /\ call[t].arg.config \in CacheConfigs /\ call[t].arg.level \in LogLevels
  BY <1>1, Zenon DEF Pcs, InitPcs, InitArgs
<1>4. Only(t) /\ call'[t].op = "init" /\ call'[t].pc = p /\ call'[t].arg = call[t].arg
  BY <1>1, <1>2, <1>3, GotoCall, Zenon DEF Inv
<1>5. CallOK(call[t])'
  BY <1>1, <1>4, Zenon DEF CallOK, InitPcs
<1>6. /\ UNCHANGED <<filterVars, siteVars, sentinel, state, panicking>>
      /\ config' = IF Configure(t) THEN call[t].arg.config ELSE config
      /\ epoch' = IF Bump(t) THEN epoch + 1 ELSE epoch
      /\ logger' = IF SetLogger(t) THEN TRUE ELSE logger
      /\ logMax' = IF SetLogFilter(t) THEN call[t].arg.level ELSE logMax
  BY Zenon DEF Configure, Bump, SetLogger, SetLogFilter, At
<1>7. LogLevels \subseteq Levels /\ sentinel = TRUE
  BY <1>1, ReloadAssumption, Zenon DEF ReloadAssumption, Inv, Types
<1>8. Inits(t)
  BY <1>1, <1>3, <1>4, <1>5, <1>6, <1>7, Zenon DEF Inits, Rebuilding, Inv, Types, Configs
<1>9. Fresh'
  <2>1. CASE Bump(t)
    BY <1>6, <2>1, FreshLater, Zenon
  <2>2. CASE Configure(t)
    <3>1. UNCHANGED <<state, epoch, filterVars>>
      BY <1>2, <1>6, <2>2, Zenon
    <3>2. ASSUME alive', ~poisoned', \A u \in Threads : ~BeforeBump(u)',
                 NEW u \in Threads, UpToDate(u)'
          PROVE  Agrees(state[u].cache)'
      <4>1. \A v \in Threads : ~BeforeBump(v)
        BY <1>1, <1>4, <3>2, Zenon DEF Only, BeforeBump
      <4>2. Agrees(state[u].cache)
        BY <3>1, <3>2, <4>1, Zenon DEF Inv, Fresh, UpToDate, filterVars
      <4>3. QED
        BY <3>1, <4>2, Zenon DEF Agrees, filterVars
    <3>3. call'[t].op = "init" /\ call'[t].pc = "bump"
      BY <1>2, <1>4, <2>2, Zenon
    <3>4. QED
      BY <3>2, <3>3, Zenon DEF Fresh
  <2>3. CASE SetLogger(t) \/ SetLogFilter(t)
    <3>1. /\ call[t].pc # "bump" /\ call'[t].pc # "bump" /\ ~Configure(t) /\ ~Bump(t)
      BY <1>2, <1>4, <2>3, Zenon DEF SetLogger, SetLogFilter, At, Configure, Bump
    <3>2. QED
      BY <1>1, <1>4, <1>6, <3>1, FreshSame, Zenon DEF BeforeBump, filterVars
  <2>4. QED
    BY <2>1, <2>2, <2>3, Zenon
<1>10. ASSUME RenewedBy(call[t]) PROVE RenewedBy(call[t])'
  <2>1. /\ ~BehindMax(call[t]) /\ \A d : ~Behind(call[t], d)
        /\ UNCHANGED <<filter, interest, maxLevel>> /\ call'[t].pc # "store"
    BY <1>1, <1>4, <1>6, Zenon DEF BehindMax, Behind, filterVars, siteVars
  <2>2. ASSUME logger', ~BehindLog(call'[t]) PROVE logMax' \in LogLevels \cup {filter'.hint}
    <3>1. CASE SetLogFilter(t)
      BY <1>3, <1>6, <3>1, Zenon
    <3>2. CASE ~SetLogFilter(t)
      <4>1. p # "log_filter" /\ ~BehindLog(call[t])
        BY <1>1, <1>2, <1>4, <2>2, <3>2, Zenon DEF BehindLog, Configure, Bump, SetLogger, At
      <4>2. logger /\ logMax' = logMax
        BY <1>2, <1>6, <2>2, <3>2, <4>1, Zenon
      <4>3. QED
        BY <1>10, <2>1, <4>1, <4>2, Zenon DEF RenewedBy
    <3>3. QED
      BY <3>1, <3>2, Zenon
  <2>3. QED
    BY <1>4, <1>10, <2>1, <2>2, Zenon DEF RenewedBy
<1>11. QED
  BY <1>8, <1>9, <1>10, InitStep, Zenon

-----------------------------------------------------------------------------
(* The cache of a thread                                                   *)

\* The entry is what the filter in force says.
Right(e) ==
  \A r \in Records : e.key = Key(r) /\ e.target = r.target => (e.yes <=> r \in filter.on)

LEMMA AgreesRight ==
  ASSUME NEW cache
  PROVE  Agrees(cache) <=> \A i \in DOMAIN cache : Right(cache[i])
BY Zenon DEF Agrees, Right

\* The entries of q are those of the cache, and maybe e.
Drawn(q, cache) == \A i \in DOMAIN q : \E j \in DOMAIN cache : q[i] = cache[j]
DrawnOr(q, cache, e) == \A i \in DOMAIN q : q[i] = e \/ \E j \in DOMAIN cache : q[i] = cache[j]

LEMMA RestLength ==
  ASSUME NEW n \in Nat, NEW p \in 1 .. n
  PROVE  (IF p + 1 <= n THEN n - (p + 1) + 1 ELSE 0) = n - p
BY SMT

\* The cache without one key has the other entries, and one less if it had it.
LEMMA OthersLemma ==
  ASSUME NEW S, NEW cache \in Seq(S), NEW k
  PROVE  /\ Others(cache, k) \in Seq(S) /\ Drawn(Others(cache, k), cache)
         /\ Holds(cache, k) => Len(Others(cache, k)) = Len(cache) - 1
<1>1. CASE ~Holds(cache, k)
  BY <1>1, Zenon DEF Others, Drawn
<1>2. CASE Holds(cache, k)
  <2> DEFINE p == PlaceOf(cache, k)
             a == SubSeq(cache, 1, p - 1)
             b == SubSeq(cache, p + 1, Len(cache))
  <2>1. p \in 1 .. Len(cache) /\ Len(cache) \in Nat /\ DOMAIN cache = 1 .. Len(cache)
    BY <1>2, SMT DEF Holds, PlaceOf
  <2>2. Others(cache, k) = a \o b
    BY <1>2, Zenon DEF Others, Without
  <2> HIDE DEF p
  <2>3. /\ a \in Seq(S) /\ Len(a) = p - 1 /\ b \in Seq(S) /\ Len(b) = Len(cache) - p
        /\ \A i \in 1 .. Len(a) : a[i] = cache[i]
        /\ \A i \in 1 .. Len(b) : b[i] = cache[p + i]
    <3>1. a \in Seq(S) /\ Len(a) = p - 1
      BY <2>1, SMT
    <3>2. b \in Seq(S) /\ Len(b) = Len(cache) - p
      <4>1. p + 1 \in Int /\ Len(cache) \in Int /\ \A i \in p + 1 .. Len(cache) : cache[i] \in S
        BY <2>1, SMT
      <4>2. /\ b \in Seq(S)
            /\ Len(b) = IF p + 1 <= Len(cache) THEN Len(cache) - (p + 1) + 1 ELSE 0
        BY <4>1, SubSeqProperties, Zenon
      <4> HIDE DEF b
      <4>3. QED
        BY <2>1, <4>2, RestLength, Zenon
    <3>3. \A i \in 1 .. p - 1 : a[i] = cache[i]
      BY <2>1, SMT
    <3>4. \A i \in 1 .. Len(cache) - p : b[i] = cache[p + i]
      BY <2>1, SMT
    <3>5. QED
      BY <3>1, <3>2, <3>3, <3>4, Zenon
  <2> DEFINE q == a \o b
  <2> HIDE DEF a, b
  <2>4. /\ q \in Seq(S) /\ Len(q) = Len(a) + Len(b)
        /\ \A i \in 1 .. Len(a) + Len(b) : q[i] = IF i <= Len(a) THEN a[i] ELSE b[i - Len(a)]
    BY <2>3, ConcatProperties, Zenon
  <2> HIDE DEF q
  <2>5. Len(q) = Len(cache) - 1 /\ DOMAIN q = 1 .. Len(cache) - 1
    BY <2>1, <2>3, <2>4, SMT
  <2>6. ASSUME NEW i \in DOMAIN q PROVE \E j \in DOMAIN cache : q[i] = cache[j]
    <3>1. i \in 1 .. Len(cache) - 1 /\ i \in 1 .. Len(a) + Len(b)
      BY <2>1, <2>3, <2>5, SMT
    <3>2. CASE i <= Len(a)
      <4>1. i \in 1 .. Len(a) /\ i \in 1 .. Len(cache)
        BY <2>1, <2>3, <3>1, <3>2, SMT
      <4>2. QED
        BY <2>1, <2>3, <2>4, <3>1, <3>2, <4>1, Zenon
    <3>3. CASE ~(i <= Len(a))
      <4>1. i - Len(a) \in 1 .. Len(b) /\ p + (i - Len(a)) \in 1 .. Len(cache)
        BY <2>1, <2>3, <3>1, <3>3, SMT
      <4>2. QED
        BY <2>1, <2>3, <2>4, <3>1, <3>3, <4>1, Zenon
    <3>4. QED
      BY <3>2, <3>3, Zenon
  <2>7. QED
    BY <1>2, <2>2, <2>4, <2>5, <2>6, Zenon DEF Drawn, q
<1>3. QED
  BY <1>1, <1>2, Zenon

LEMMA UsedLemma ==
  ASSUME NEW S, NEW cache \in Seq(S), NEW e \in S
  PROVE  /\ Used(cache, e) \in Seq(S) /\ DrawnOr(Used(cache, e), cache, e)
         /\ Holds(cache, e.key) => Len(Used(cache, e)) = Len(cache)
<1> DEFINE o == Others(cache, e.key)
           q == <<e>> \o o
<1>1. /\ o \in Seq(S) /\ Drawn(o, cache)
      /\ Holds(cache, e.key) => Len(o) = Len(cache) - 1
  BY OthersLemma, Zenon
<1>2. Used(cache, e) = q
  BY Zenon DEF Used
<1> HIDE DEF o
<1>3. /\ q \in Seq(S) /\ q[1] = e /\ Len(q) = Len(o) + 1
      /\ \A i \in DOMAIN q : i = 1 \/ (i - 1 \in DOMAIN o /\ q[i] = o[i - 1])
  BY <1>1, SMT
<1> HIDE DEF q
<1>4. DrawnOr(q, cache, e)
  <2>1. ASSUME NEW i \in DOMAIN q PROVE q[i] = e \/ \E j \in DOMAIN cache : q[i] = cache[j]
    <3>1. CASE i = 1
      BY <1>3, <3>1, Zenon
    <3>2. CASE i - 1 \in DOMAIN o /\ q[i] = o[i - 1]
      BY <1>1, <3>2, Zenon DEF Drawn
    <3>3. QED
      BY <1>3, <2>1, <3>1, <3>2, Zenon
  <2>2. QED
    BY <2>1, Zenon DEF DrawnOr
<1>5. Len(o) \in Nat /\ Len(cache) \in Nat
  BY <1>1, LenProperties, Zenon
<1>6. ASSUME Len(o) = Len(cache) - 1 PROVE Len(q) = Len(cache)
  BY <1>3, <1>5, <1>6, SMT
<1>7. QED
  BY <1>1, <1>2, <1>3, <1>4, <1>6, Zenon

LEMMA PutLemma ==
  ASSUME NEW S, NEW cache \in Seq(S), NEW e \in S, NEW size \in Nat
  PROVE  /\ Put(cache, size, e) \in Seq(S) /\ DrawnOr(Put(cache, size, e), cache, e)
         /\ Len(Put(cache, size, e)) <= size
<1> DEFINE all == Used(cache, e)
           n == IF Len(all) <= size THEN Len(all) ELSE size
           q == SubSeq(all, 1, n)
<1>1. all \in Seq(S) /\ DrawnOr(all, cache, e)
  BY UsedLemma, Zenon
<1>2. Put(cache, size, e) = q
  BY Zenon DEF Put
<1> HIDE DEF all
<1>3. n \in 0 .. Len(all) /\ n <= size
  BY <1>1, SMT
<1> HIDE DEF n
<1>4. /\ q \in Seq(S) /\ Len(q) = n
      /\ \A i \in DOMAIN q : i \in DOMAIN all /\ q[i] = all[i]
  BY <1>1, <1>3, SMT
<1> HIDE DEF q
<1>5. DrawnOr(q, cache, e)
  BY <1>1, <1>4, Zenon DEF DrawnOr
<1>6. QED
  BY <1>2, <1>3, <1>4, <1>5, Zenon

-----------------------------------------------------------------------------
(* Records of the log crate                                                *)

\* Nobody has to tell the sentinel of another filter, ...
Told == alive /\ ~poisoned /\ \A u \in Threads : ~BeforeBump(u)
\* ... or of another configuration.
Configured == \A u \in Threads : ~(call[u].op = "init" /\ call[u].pc = "bump")

\* A step of a log macro, which may change the cache of its own thread.
Logs(t) ==
  /\ Only(t) /\ UNCHANGED <<filterVars, siteVars, logVars, panicking>>
  /\ call[t].op \in {"none", "log"} /\ call'[t].op = "log" /\ CallOK(call[t])'
  /\ state' \in [Threads -> States \cup {NoState}]
  /\ \A u \in Threads \ {t} : state'[u] = state[u]
  /\ state'[t] # NoState => sentinel /\ state'[t].epoch <= epoch
  /\ call'[t].pc # "done" => state'[t] # NoState
  /\ call'[t].pc = "renew" => call'[t].lvl <= epoch
  /\ state'[t] # NoState /\ state'[t].epoch = epoch =>
       /\ Told => Agrees(state'[t].cache)
       /\ Configured => state'[t].config = config
  /\ t \in clean' /\ Plain' => OnCourse(call[t])'

LEMMA LogStep ==
  ASSUME Inv, NEW t \in Threads, Watched(t), Logs(t)
  PROVE  Inv'
<1> USE DEF filterVars, siteVars, logVars
<1>1. Types' /\ Only(t) /\ logger' = logger /\ call'[t].op = "log" /\ filter' = filter
  BY Zenon DEF Inv, Types, Logs, Only
<1>2. /\ call[t].pc \notin {"ask", "store"} /\ call'[t].pc \notin {"ask", "store"}
      /\ call[t].op \notin {"modify", "event", "init"} /\ CallOK(call[t])'
  BY Zenon DEF Inv, Logs, CallOK, LogPcs
<1>3. Listed'
  BY <1>1, <1>2, Zenon DEF Inv, Listed, Logs, Only, Pushed
<1>4. Plain' => Renewed'
  <2> SUFFICES ASSUME Plain' PROVE Renewed'
    OBVIOUS
  <2>1. Renewed /\ UNCHANGED <<interest, maxLevel, logMax>>
    BY Zenon DEF Inv, Logs, Plain, Watched
  <2>2. /\ \A c \in Sites : (\A u \in Threads : ~Behind(call'[u], c)) =>
             \A u \in Threads : ~Behind(call[u], c)
        /\ (\A u \in Threads : ~BehindMax(call'[u])) => \A u \in Threads : ~BehindMax(call[u])
        /\ (\A u \in Threads : ~BehindLog(call'[u])) => \A u \in Threads : ~BehindLog(call[u])
    BY <1>1, <1>2, Zenon DEF Only, Behind, BehindMax, BehindLog
  <2>3. /\ \A c \in Sites : (\A u \in Threads : ~Behind(call'[u], c)) =>
             interest'[c] \in {"empty", RegisterCallsite(filter', c)}
        /\ (\A u \in Threads : ~BehindMax(call'[u])) => maxLevel' = filter'.hint
        /\ logger' /\ (\A u \in Threads : ~BehindLog(call'[u])) =>
             logMax' \in LogLevels \cup {filter'.hint}
    BY <1>1, <2>1, <2>2, Zenon DEF Renewed
  <2>4. ASSUME NEW u \in Threads
        PROVE  /\ call'[u].op = "modify" /\ call'[u].pc \in {"ask", "store", "set_max", "log_max"}
                    => call'[u].lvl = filter'.hint
               /\ call'[u].pc = "store" /\ call'[u].site # Sentinel
                    => call'[u].val = RegisterCallsite(filter', call'[u].site)
    BY <1>1, <1>2, <2>1, Zenon DEF Only, Renewed
  <2>5. QED
    BY <2>3, <2>4, Zenon DEF Renewed
<1>5. Epochs'
  <2>1. epoch' = epoch /\ sentinel' = sentinel
    BY Zenon DEF Logs
  <2>2. ASSUME NEW u \in Threads
        PROVE  /\ state'[u] # NoState => sentinel /\ state'[u].epoch <= epoch
               /\ call'[u].op = "init" => sentinel
               /\ call'[u].op = "log" /\ call'[u].pc # "done" => state'[u] # NoState
               /\ call'[u].op = "log" /\ call'[u].pc = "renew" => call'[u].lvl <= epoch
    <3>1. CASE u = t
      BY <1>1, <3>1, Zenon DEF Logs
    <3>2. CASE u # t
      BY <3>2, Zenon DEF Logs, Only, Inv, Epochs
    <3>3. QED
      BY <3>1, <3>2, Zenon
  <2>3. QED
    BY <1>1, <2>1, <2>2, Zenon DEF Inv, Epochs
<1>6. Fresh'
  <2>1. (Told' <=> Told) /\ (Configured' <=> Configured)
    BY <1>1, <1>2, Zenon DEF Told, Configured, BeforeBump, Only, Logs
  <2>2. epoch' = epoch /\ config' = config /\ \A u \in Threads \ {t} : state'[u] = state[u]
    BY Zenon DEF Logs
  <2>3. ASSUME NEW u \in Threads, UpToDate(u)', Told PROVE Agrees(state[u].cache)'
    <3>1. Agrees(state'[u].cache)
      <4>1. CASE u = t
        BY <2>2, <2>3, <4>1, Zenon DEF Logs, UpToDate
      <4>2. CASE u # t
        BY <2>2, <2>3, <4>2, Zenon DEF Inv, Fresh, UpToDate, Told
      <4>3. QED
        BY <4>1, <4>2, Zenon
    <3>2. QED
      BY <1>1, <3>1, Zenon DEF Agrees
  <2>4. ASSUME NEW u \in Threads, UpToDate(u)', Configured PROVE state'[u].config = config'
    <3>1. CASE u = t
      BY <2>2, <2>4, <3>1, Zenon DEF Logs, UpToDate
    <3>2. CASE u # t
      BY <2>2, <2>4, <3>2, Zenon DEF Inv, Fresh, UpToDate, Configured
    <3>3. QED
      BY <3>1, <3>2, Zenon
  <2>5. QED
    BY <2>1, <2>3, <2>4, Zenon DEF Fresh, Told, Configured
<1>7. Kept(t)
  BY <1>1, <1>2, <1>3, <1>4, <1>5, <1>6, Zenon DEF Kept, Logs
<1>8. QED
  BY <1>7, KeptInv, Zenon

\* STATE when it is first used, or used again after another epoch.
LEMMA NewState ==
  ASSUME Inv, NEW e \in Nat
  PROVE  LET s == [epoch |-> e, config |-> config, cache |-> <<>>]
         IN  /\ s \in States /\ s # NoState /\ s.epoch = e /\ s.config = config
             /\ s.cache = <<>> /\ Agrees(s.cache)
<1> DEFINE s == [epoch |-> e, config |-> config, cache |-> <<>>]
<1>1. config \in Configs /\ <<>> \in Seq(Entries) /\ Len(<<>>) = 0 /\ DOMAIN <<>> = {}
  BY SMT DEF Inv, Types
<1>2. Disabled.size = 0 /\ NoState.epoch = -1
  BY Zenon DEF Disabled, NoState
<1>3. \A c \in Configs : c.size \in Nat
  BY <1>2, ReloadAssumption, SMT DEF Configs, ReloadAssumption
<1>4. 0 <= config.size /\ e # -1
  BY <1>1, <1>3, SMT
<1>5. /\ s.epoch = e /\ s.config = config /\ s.cache = <<>>
      /\ s \in [epoch : Nat, config : Configs, cache : Seq(Entries)]
  BY <1>1, Zenon
<1> HIDE DEF s
<1>6. s \in States
  BY <1>1, <1>4, <1>5, Zenon DEF States
<1>7. s # NoState
  BY <1>2, <1>4, <1>5, Zenon
<1>8. Agrees(s.cache)
  BY <1>1, <1>5, Zenon DEF Agrees
<1>9. QED
  BY <1>5, <1>6, <1>7, <1>8, Zenon DEF s

\* A macro of the log crate.
LEMMA LogMacroStep ==
  ASSUME Inv, NEW t \in Threads, Watched(t), NEW r \in Records, Log(t, r)
  PROVE  Inv'
<1> DEFINE asks == /\ logger /\ r.level <= logMax
                   /\ r.level <= maxLevel /\ r.target \notin Ignored
           s == [epoch |-> epoch, config |-> config, cache |-> <<>>]
           p == IF asks THEN "epoch" ELSE "done"
<1>1. /\ Start(t, "log", p, r) /\ UNCHANGED <<filterVars, siteVars, logVars, panicking>>
      /\ state' = IF asks /\ state[t] = NoState THEN [state EXCEPT ![t] = s] ELSE state
  BY Zenon DEF Log
<1>2. /\ s \in States /\ s # NoState /\ s.epoch = epoch /\ s.config = config
      /\ Agrees(s.cache)
  BY NewState, Zenon DEF Inv, Types
<1> HIDE DEF s
<1>3. asks => logger /\ r.target \notin Ignored
  OBVIOUS
<1>4. ASSUME logger, ~asks, \A l \in LogLevels : r.level <= l, maxLevel = filter.hint,
             logMax \in LogLevels \cup {filter.hint}, r \in filter.on
      PROVE  r.target \in Ignored
  BY <1>4, ReloadAssumption, Zenon DEF ReloadAssumption, Inv, Types
<1>5. p = IF asks THEN "epoch" ELSE "done"
  OBVIOUS
<1>6. asks \in BOOLEAN
  OBVIOUS
<1> HIDE DEF asks, p
<1>7. p \in Pcs /\ "log" \in Ops /\ r \in Args /\ p \in {"epoch", "done"}
  BY <1>5, Zenon DEF Pcs, LogPcs, Ops, Args
<1>8. /\ Only(t) /\ call[t].pc = "idle" /\ call'[t].op = "log" /\ call'[t].pc = p
      /\ call'[t].arg = r /\ call'[t].heard = FALSE
  BY <1>1, <1>7, StartCall, Zenon DEF Inv
<1>9. CallOK(call[t])' /\ call[t].op = "none"
  BY <1>7, <1>8, Zenon DEF CallOK, LogPcs, Inv
<1>10. /\ state \in [Threads -> States \cup {NoState}] /\ (logger => sentinel)
       /\ epoch \in Nat /\ (state[t] # NoState => sentinel /\ state[t].epoch <= epoch)
  BY Zenon DEF Inv, Types, Epochs
<1>11. epoch <= epoch
  BY <1>10, SMT
<1>12. /\ state' \in [Threads -> States \cup {NoState}]
       /\ \A u \in Threads \ {t} : state'[u] = state[u]
       /\ state'[t] = state[t] \/ (logger /\ state'[t] = s)
       /\ p # "done" => state'[t] # NoState
  BY <1>1, <1>2, <1>3, <1>5, <1>10, Zenon
<1>13. state'[t] # NoState /\ state'[t].epoch = epoch =>
         /\ Told => Agrees(state'[t].cache)
         /\ Configured => state'[t].config = config
  BY <1>2, <1>12, Zenon DEF Inv, Fresh, UpToDate, Told, Configured
<1>14. ASSUME t \in clean', Plain' PROVE OnCourse(call[t])'
  <2>1. /\ filter' = filter /\ maxLevel = filter.hint
        /\ logger => logMax \in LogLevels \cup {filter.hint}
    BY <1>8, <1>9, <1>14, InForce, Zenon
  <2>2. logger' = logger
    BY <1>1, Zenon DEF logVars
  <2>3. CASE asks
    BY <1>3, <1>5, <1>8, <2>3, Zenon DEF OnCourse
  <2>4. CASE ~asks
    BY <1>4, <1>5, <1>8, <2>1, <2>2, <2>4, Zenon DEF OnCourse
  <2>5. QED
    BY <2>3, <2>4, Zenon
<1>15. Logs(t)
  BY <1>1, <1>2, <1>7, <1>8, <1>9, <1>10, <1>11, <1>12, <1>13, <1>14, Zenon DEF Logs
<1>16. QED
  BY <1>15, LogStep, Zenon

\* Another cache for a state.
LEMMA StateCache ==
  ASSUME NEW s \in States, NEW q \in Seq(Entries), Len(q) <= s.config.size
  PROVE  LET n == [s EXCEPT !.cache = q]
         IN  n \in States /\ n.epoch = s.epoch /\ n.config = s.config /\ n.cache = q
<1> DEFINE n == [s EXCEPT !.cache = q]
<1>1. /\ n.epoch = s.epoch /\ n.config = s.config /\ n.cache = q
      /\ n \in [epoch : Nat, config : Configs, cache : Seq(Entries)]
  BY Zenon DEF States
<1> HIDE DEF n
<1>2. n \in States
  BY <1>1, Zenon DEF States
<1>3. QED
  BY <1>1, <1>2, Zenon DEF n

LEMMA DrawnAgrees ==
  ASSUME NEW q, NEW cache, NEW e, DrawnOr(q, cache, e), Agrees(cache), Right(e)
  PROVE  Agrees(q)
<1>1. \A i \in DOMAIN cache : Right(cache[i])
  BY AgreesRight, Zenon
<1>2. \A i \in DOMAIN q : Right(q[i])
  BY <1>1, Zenon DEF DrawnOr
<1>3. QED
  BY <1>2, AgreesRight, Zenon

\* The place of a key in a cache.
LEMMA FoundEntry ==
  ASSUME NEW cache \in Seq(Entries), NEW k, Holds(cache, k)
  PROVE  LET e == cache[PlaceOf(cache, k)]
         IN  /\ PlaceOf(cache, k) \in DOMAIN cache /\ e \in Entries /\ e.key = k
<1>1. PlaceOf(cache, k) \in DOMAIN cache /\ cache[PlaceOf(cache, k)].key = k
  BY Zenon DEF Holds, PlaceOf
<1>2. \A i \in DOMAIN cache : cache[i] \in Entries
  BY SMT
<1>3. QED
  BY <1>1, <1>2, Zenon

\* try_cache, with a state s that is the thread's or a new one.
LEMMA LookupStep ==
  ASSUME Inv, NEW t \in Threads, Watched(t), call[t].op = "log", call[t].pc # "done",
         NEW s \in States, s.epoch <= epoch, s # NoState, Lookup(t, s),
         UNCHANGED <<filterVars, siteVars, logVars, panicking>>,
         Told => Agrees(s.cache),
         s.epoch = epoch /\ Configured => s.config = config
  PROVE  Inv'
<1> DEFINE r == call[t].arg
           entry == s.cache[PlaceOf(s.cache, Key(r))]
           caches == s.config.size > 0 /\ r.level >= s.config.min
           found == caches /\ Holds(s.cache, Key(r))
           hit == found /\ entry.target = r.target
           q == IF found THEN Used(s.cache, entry) ELSE s.cache
           p == IF hit THEN "record" ELSE IF caches THEN "callback" ELSE "uncached"
           n == [call[t] EXCEPT !.lvl = 0, !.pc = p]
           z == [s EXCEPT !.cache = q]
<1>1. /\ state' = [state EXCEPT ![t] = z]
      /\ call' = [call EXCEPT ![t] = IF hit /\ ~entry.yes THEN Finished(t, FALSE) ELSE n]
  BY Zenon DEF Lookup
<1>2. /\ r \in Records /\ CallOK(call[t]) /\ call[t] \in Calls /\ s.cache \in Seq(Entries)
      /\ Len(s.cache) <= s.config.size
  BY Zenon DEF Inv, CallOK, Types, States
<1>3. found => PlaceOf(s.cache, Key(r)) \in DOMAIN s.cache /\ entry \in Entries /\ entry.key = Key(r)
  BY <1>2, FoundEntry, Zenon
<1>4. hit => found /\ entry.target = r.target
  OBVIOUS
<1>5. found => Holds(s.cache, Key(r))
  OBVIOUS
<1>6. p \in {"record", "callback", "uncached"} /\ p \in Pcs
  BY Zenon DEF Pcs, LogPcs
<1>7. q = s.cache \/ (found /\ q = Used(s.cache, entry))
  OBVIOUS
<1> HIDE DEF entry, found, hit, p, q
<1>8. /\ q \in Seq(Entries) /\ Len(q) <= s.config.size
      /\ q = s.cache \/ (found /\ DrawnOr(q, s.cache, entry))
  <2>1. CASE q = s.cache
    BY <1>2, <2>1, Zenon
  <2>2. CASE found /\ q = Used(s.cache, entry)
    <3>1. Holds(s.cache, entry.key) /\ entry \in Entries
      BY <1>3, <1>5, <2>2, Zenon
    <3>2. /\ Used(s.cache, entry) \in Seq(Entries) /\ DrawnOr(Used(s.cache, entry), s.cache, entry)
          /\ Len(Used(s.cache, entry)) = Len(s.cache)
      BY <1>2, <3>1, UsedLemma, Zenon
    <3>3. QED
      BY <1>2, <2>2, <3>2, Zenon
  <2>3. QED
    BY <1>7, <2>1, <2>2, Zenon
<1>9. z \in States /\ z.epoch = s.epoch /\ z.config = s.config /\ z.cache = q /\ z # NoState
  <2>1. z \in States /\ z.epoch = s.epoch /\ z.config = s.config /\ z.cache = q
    BY <1>8, StateCache, Zenon
  <2>2. NoState.epoch = -1 /\ s.epoch \in Nat
    BY Zenon DEF NoState, States
  <2>3. s.epoch # -1
    BY <2>2, SMT
  <2>4. QED
    BY <2>1, <2>2, <2>3, Zenon
<1> HIDE DEF z
<1>10. /\ state' \in [Threads -> States \cup {NoState}] /\ state'[t] = z
       /\ \A u \in Threads \ {t} : state'[u] = state[u]
  BY <1>1, <1>9, Zenon DEF Inv, Types
<1>11. Told => Agrees(q)
  <2>1. ASSUME Told, found PROVE Right(entry)
    BY <1>3, <2>1, AgreesRight, Zenon DEF entry
  <2>2. QED
    BY <1>8, <2>1, DrawnAgrees, Zenon
<1>12. CASE hit /\ ~entry.yes
  <2>1. call' = [call EXCEPT ![t] = Finished(t, FALSE)] /\ FALSE \in BOOLEAN
    BY <1>1, <1>12, Zenon
  <2>2. /\ Only(t) /\ call'[t].op = "log" /\ call'[t].pc = "done" /\ call'[t].arg = r
        /\ call'[t].heard = FALSE
    BY <2>1, EndCall, Zenon DEF Inv
  <2>3. CallOK(call[t])'
    BY <1>2, <2>2, Zenon DEF CallOK, LogPcs
  <2>4. ASSUME t \in clean', Plain' PROVE OnCourse(call[t])'
    <3>1. filter' = filter /\ Plain /\ \A u \in Threads : call[u].op \notin {"modify", "init"}
      BY <2>2, <2>4, InForce, Zenon
    <3>2. Told
      BY <3>1, Zenon DEF Told, Plain, BeforeBump
    <3>3. Right(entry)
      BY <1>3, <1>4, <1>12, <3>2, AgreesRight, Zenon DEF entry
    <3>4. r \notin filter.on
      BY <1>2, <1>3, <1>4, <1>12, <3>3, Zenon DEF Right
    <3>5. QED
      BY <2>2, <3>1, <3>4, Zenon DEF OnCourse
  <2>5. Logs(t)
    BY <1>9, <1>10, <1>11, <2>2, <2>3, <2>4, Zenon DEF Logs, Inv, Epochs
  <2>6. QED
    BY <2>5, LogStep, Zenon
<1>13. CASE ~(hit /\ ~entry.yes)
  <2>1. call' = [call EXCEPT ![t] = n]
    BY <1>1, <1>13, Zenon
  <2>2. n \in Calls /\ n.op = "log" /\ n.pc = p /\ n.arg = r
    BY <1>2, <1>6, CallTypes, Zenon DEF Calls
  <2> HIDE DEF n
  <2>3. Only(t) /\ call'[t].op = "log" /\ call'[t].pc = p /\ call'[t].arg = r
    BY <2>1, <2>2, OnlyCall, Zenon DEF Inv, Types
  <2>4. CallOK(call[t])'
    BY <1>2, <1>6, <2>3, Zenon DEF CallOK, LogPcs
  <2>5. ASSUME t \in clean', Plain' PROVE OnCourse(call[t])'
    <3>1. Plain /\ t \in clean
      BY <2>5, Zenon DEF Watched, Plain, filterVars
    <3>2. OnCourse(call[t])
      BY <3>1, Zenon DEF Inv, Undisturbed
    <3>3. QED
      BY <1>6, <2>3, <3>2, Zenon DEF OnCourse
  <2>6. Logs(t)
    BY <1>6, <1>9, <1>10, <1>11, <2>3, <2>4, <2>5, Zenon DEF Logs, Inv, Epochs
  <2>7. QED
    BY <2>6, LogStep, Zenon
<1>14. QED
  BY <1>12, <1>13, Zenon

\* The epoch is the one that the thread knows, or it is remembered.
LEMMA LoadEpochStep ==
  ASSUME Inv, NEW t \in Threads, Watched(t), LoadEpoch(t)
  PROVE  Inv'
<1>1. /\ call[t].pc = "epoch" /\ call[t].op = "log" /\ CallOK(call[t]) /\ call[t] \in Calls
      /\ call[t].arg \in Records
  BY Zenon DEF LoadEpoch, At, Inv, CallOK, ModifyPcs, EventPcs, InitPcs, Types, Calls, Ops
<1>2. /\ state[t] # NoState /\ state[t] \in States /\ epoch \in Nat /\ state[t].epoch <= epoch
      /\ sentinel
  BY <1>1, Zenon DEF Inv, Types, Epochs
<1>3. UNCHANGED <<filterVars, siteVars, logVars, panicking>>
  BY Zenon DEF LoadEpoch
<1>4. CASE epoch = state[t].epoch
  <2>1. Told => Agrees(state[t].cache)
    BY <1>2, <1>4, Zenon DEF Inv, Fresh, UpToDate, Told
  <2>2. Configured => state[t].config = config
    BY <1>2, <1>4, Zenon DEF Inv, Fresh, UpToDate, Configured
  <2>3. Lookup(t, state[t])
    BY <1>4, Zenon DEF LoadEpoch
  <2>4. QED
    BY <1>1, <1>2, <1>3, <2>1, <2>2, <2>3, LookupStep, Zenon
<1>5. CASE epoch # state[t].epoch
  <2> DEFINE n == [call[t] EXCEPT !.lvl = epoch, !.pc = "renew"]
  <2>1. call' = [call EXCEPT ![t] = n] /\ state' = state
    BY <1>5, Zenon DEF LoadEpoch
  <2>2. "renew" \in Pcs
    BY Zenon DEF Pcs, LogPcs
  <2>3. n \in Calls /\ n.op = "log" /\ n.pc = "renew" /\ n.arg = call[t].arg /\ n.lvl = epoch
    BY <1>1, <1>2, <2>2, Zenon DEF Calls
  <2> HIDE DEF n
  <2>4. /\ Only(t) /\ call'[t].op = "log" /\ call'[t].pc = "renew" /\ call'[t].arg = call[t].arg
        /\ call'[t].lvl = epoch
    BY <2>1, <2>3, OnlyCall, Zenon DEF Inv, Types
  <2>5. CallOK(call[t])'
    BY <1>1, <2>4, Zenon DEF CallOK, LogPcs
  <2>6. ASSUME t \in clean', Plain' PROVE OnCourse(call[t])'
    <3>1. Plain /\ t \in clean
      BY <1>1, <2>6, Zenon DEF Watched, Plain, filterVars
    <3>2. OnCourse(call[t])
      BY <3>1, Zenon DEF Inv, Undisturbed
    <3>3. QED
      BY <1>1, <2>4, <3>2, Zenon DEF OnCourse
  <2>7. epoch <= epoch /\ state \in [Threads -> States \cup {NoState}]
    BY <1>2, SMT DEF Inv, Types
  <2>8. Logs(t)
    BY <1>1, <1>2, <1>3, <1>5, <2>1, <2>4, <2>5, <2>6, <2>7, Zenon DEF Logs
  <2>9. QED
    BY <2>8, LogStep, Zenon
<1>6. QED
  BY <1>4, <1>5, Zenon

\* A new state, with the epoch that was read and the configuration of now.
LEMMA RenewStep ==
  ASSUME Inv, NEW t \in Threads, Watched(t), Renew(t)
  PROVE  Inv'
<1> DEFINE s == [epoch |-> call[t].lvl, config |-> config, cache |-> <<>>]
<1>1. /\ call[t].pc = "renew" /\ call[t].op = "log" /\ call[t].lvl \in Nat
  BY Zenon DEF Renew, At, Inv, CallOK, ModifyPcs, EventPcs, InitPcs, Types, Calls, Ops
<1>2. call[t].lvl <= epoch
  BY <1>1, Zenon DEF Inv, Epochs
<1>3. /\ s \in States /\ s # NoState /\ s.epoch = call[t].lvl /\ s.config = config
      /\ Agrees(s.cache)
  BY <1>1, NewState, Zenon
<1>4. Lookup(t, s) /\ UNCHANGED <<filterVars, siteVars, logVars, panicking>>
  BY Zenon DEF Renew
<1> HIDE DEF s
<1>5. QED
  BY <1>1, <1>2, <1>3, <1>4, LookupStep, Zenon

\* The subscriber is asked, and its answer may be put in the cache.
LEMMA CallbackStep ==
  ASSUME Inv, NEW t \in Threads, Watched(t), Callback(t)
  PROVE  Inv'
<1> DEFINE r == call[t].arg
           yes == AskEnabled(t, r)
           entry == [key |-> Key(r), target |-> r.target, yes |-> yes]
           p == IF yes THEN "record" ELSE "done"
<1>1. /\ call[t].pc \in {"callback", "uncached"} /\ call[t].op = "log" /\ r \in Records
  BY Zenon DEF Callback, Inv, CallOK, ModifyPcs, EventPcs, InitPcs, Types, Calls, Ops
<1>2. /\ state[t] # NoState /\ state[t] \in States /\ state[t].epoch <= epoch /\ sentinel
      /\ state \in [Threads -> States \cup {NoState}]
  BY <1>1, Zenon DEF Inv, Types, Epochs
<1>3. CASE Panics(t) /\ Unwind(t) /\ UNCHANGED state
  BY <1>1, <1>3, PanicsPoisoned, UnwindStep, Zenon DEF Callback
<1>4. CASE /\ ~Panics(t) /\ UNCHANGED panicking
           /\ state' = IF At(t, "uncached") THEN state
                       ELSE [state EXCEPT ![t].cache = Put(@, state[t].config.size, entry)]
           /\ Goto(t, IF yes THEN "record" ELSE "done")
  <2> DEFINE q == Put(state[t].cache, state[t].config.size, entry)
             z == [state[t] EXCEPT !.cache = q]
  <2>1. state' = state \/ state' = [state EXCEPT ![t] = z]
    BY <1>4, Zenon
  <2>2. Goto(t, p) /\ UNCHANGED <<filterVars, siteVars, logVars, panicking>>
    BY <1>4, Zenon DEF Callback
  <2>3. yes \in BOOLEAN
    BY Zenon DEF AskEnabled
  <2>4. alive /\ ~poisoned => (yes <=> r \in filter.on)
    BY Zenon DEF AskEnabled, LockOf
  <2>5. p \in {"record", "done"} /\ p \in Pcs /\ (p = "record" <=> yes)
    BY Zenon DEF Pcs, LogPcs
  <2> HIDE DEF yes, p
  <2>6. entry \in Entries /\ entry.key = Key(r) /\ entry.target = r.target /\ entry.yes = yes
    BY <1>1, <2>3, Zenon DEF Entries
  <2> HIDE DEF entry
  <2>7. ASSUME alive, ~poisoned PROVE Right(entry)
    <3>1. ASSUME NEW x \in Records, Key(r) = Key(x), r.target = x.target PROVE x = r
      <4>1. r.slot = x.slot /\ r.level = x.level
        BY <3>1, SMT DEF Key
      <4>2. QED
        BY <1>1, <3>1, <4>1, ReloadAssumption, Zenon DEF ReloadAssumption
    <3>2. QED
      BY <2>4, <2>6, <2>7, <3>1, Zenon DEF Right
  <2>8. /\ state[t].cache \in Seq(Entries) /\ state[t].config \in Configs
    BY <1>2, Zenon DEF States
  <2>9. state[t].config.size \in Nat
    <3>1. Disabled.size = 0
      BY Zenon DEF Disabled, NoState
    <3>2. \A c \in Configs : c.size \in Nat
      BY <3>1, ReloadAssumption, SMT DEF Configs, ReloadAssumption
    <3>3. QED
      BY <2>8, <3>2, Zenon
  <2>10. /\ q \in Seq(Entries) /\ DrawnOr(q, state[t].cache, entry)
         /\ Len(q) <= state[t].config.size
    BY <2>6, <2>8, <2>9, PutLemma, Zenon
  <2> HIDE DEF q
  <2>11. z \in States /\ z.epoch = state[t].epoch /\ z.config = state[t].config /\ z.cache = q
    BY <1>2, <2>10, StateCache, Zenon
  <2> HIDE DEF z
  <2>12. z # NoState
    <3>1. NoState.epoch = -1 /\ state[t].epoch \in Nat
      BY <1>2, Zenon DEF NoState, States
    <3>2. state[t].epoch # -1
      BY <3>1, SMT
    <3>3. QED
      BY <2>11, <3>1, <3>2, Zenon
  <2>13. /\ state' \in [Threads -> States \cup {NoState}]
         /\ \A u \in Threads \ {t} : state'[u] = state[u]
         /\ state'[t] = state[t] \/ state'[t] = z
    BY <1>2, <2>1, <2>11, Zenon
  <2>14. /\ state'[t] # NoState /\ state'[t].epoch = state[t].epoch
         /\ state'[t].config = state[t].config
    BY <1>2, <2>11, <2>12, <2>13, Zenon
  <2>15. ASSUME state[t].epoch = epoch
         PROVE  /\ Told => Agrees(state'[t].cache)
                /\ Configured => state[t].config = config
    <3>1. /\ Told => Agrees(state[t].cache)
          /\ Configured => state[t].config = config
      BY <1>2, <2>15, Zenon DEF Inv, Fresh, UpToDate, Told, Configured
    <3>2. Told => Agrees(q)
      BY <2>7, <2>10, <3>1, DrawnAgrees, Zenon DEF Told
    <3>3. QED
      BY <2>11, <2>13, <3>1, <3>2, Zenon
  <2>16. /\ Only(t) /\ call'[t].op = "log" /\ call'[t].pc = p /\ call'[t].arg = r
         /\ p = "done" => call'[t].heard = FALSE
    BY <1>1, <2>2, <2>5, GotoCall, Zenon DEF Inv
  <2>17. CallOK(call[t])'
    BY <1>1, <2>5, <2>16, Zenon DEF CallOK, LogPcs
  <2>18. ASSUME t \in clean', Plain' PROVE OnCourse(call[t])'
    <3>1. Plain /\ t \in clean /\ filter' = filter
      BY <1>1, <2>18, Zenon DEF Watched, Plain, filterVars
    <3>2. OnCourse(call[t]) /\ (yes <=> r \in filter.on)
      BY <2>4, <3>1, Zenon DEF Inv, Undisturbed, Plain
    <3>3. QED
      BY <1>1, <2>5, <2>16, <3>1, <3>2, Zenon DEF OnCourse
  <2>19. Logs(t)
    BY <1>1, <1>2, <2>2, <2>5, <2>13, <2>14, <2>15, <2>16, <2>17, <2>18, Zenon DEF Logs
  <2>20. QED
    BY <2>19, LogStep, Zenon
<1>5. QED
  BY <1>3, <1>4, Zenon DEF Callback

-----------------------------------------------------------------------------
(* The invariant holds                                                     *)

LEMMA InitInv ==
  ASSUME Init
  PROVE  Inv
<1>1. /\ Idle \in Calls /\ Idle.op = "none" /\ Idle.pc = "idle" /\ CallOK(Idle)
  BY IdleCall, Zenon
<1>2. \A t \in Threads : call[t] = Idle /\ state[t] = NoState
  BY Zenon DEF Init
<1>3. 0 \in Levels /\ filter.hint \in Levels /\ LogLevels \subseteq Levels /\ 0 \in Nat
  BY ReloadAssumption, SMT DEF Init, ReloadAssumption, Levels
<1>4. Types
  BY <1>1, <1>3, Zenon DEF Init, Types, Answers, Configs
<1>5. Listed /\ Alone /\ Undisturbed
  BY <1>1, <1>2, Zenon DEF Init, Listed, Alone, Rebuilding, Undisturbed
<1>6. Renewed
  BY <1>1, <1>2, Zenon DEF Init, Renewed
<1>7. Epochs /\ Fresh
  BY <1>1, <1>2, Zenon DEF Init, Epochs, Fresh, UpToDate
<1>8. clean = {}
  BY Zenon DEF Init
<1>9. QED
  BY <1>1, <1>2, <1>4, <1>5, <1>6, <1>7, <1>8, Zenon DEF Inv

LEMMA StepInv ==
  ASSUME Inv, NEW t \in Threads, Watched(t), Step(t)
  PROVE  Inv'
<1>1. CASE Swap(t) \/ SwapPanics(t) \/ ComputeMax(t) \/ Ask(t)
  BY <1>1, SwapStep, SwapPanicsStep, ComputeMaxStep, AskStep, Zenon
<1>2. CASE Store(t)
  BY <1>2, StoreRegistered, StoreRebuilt, Zenon
<1>3. CASE SetMax(t) \/ Current(t) \/ SetLogMax(t)
  BY <1>3, LevelStep, Zenon
<1>4. CASE Interest(t)
  BY <1>4, InterestStep, RegisterStep, Zenon
<1>5. CASE Enabled(t) \/ DispatchEvent(t) \/ DispatchRecord(t) \/ Return(t)
  BY <1>5, EnabledStep, DispatchStep, ReturnStep, Zenon
<1>6. CASE Configure(t) \/ Bump(t) \/ SetLogger(t) \/ SetLogFilter(t)
  BY <1>6, SetUpStep, Zenon
<1>7. CASE LoadEpoch(t) \/ Renew(t) \/ Callback(t)
  BY <1>7, LoadEpochStep, RenewStep, CallbackStep, Zenon
<1>8. QED
  BY <1>1, <1>2, <1>3, <1>4, <1>5, <1>6, <1>7, Zenon DEF Step

LEMMA NextInv ==
  ASSUME Inv, [Next]_vars
  PROVE  Inv'
<1>1. CASE UNCHANGED vars
  <2>1. /\ UNCHANGED <<filter, poisoned, alive, reg, interest, maxLevel, logMax, logger>>
        /\ UNCHANGED <<sentinel, config, epoch, state, call, panicking, clean, overlapped>>
    BY <1>1, Zenon DEF vars, filterVars, siteVars, logVars
  <2>2. Types' /\ (\A t \in Threads : CallOK(call[t])') /\ Listed'
    BY <2>1, Zenon DEF Inv, Types, CallOK, Listed, Pushed
  <2>3. (~overlapped' => Alone') /\ (Plain' => Renewed')
    BY <2>1, Zenon DEF Inv, Alone, Rebuilding, Plain, Renewed, Behind, BehindMax, BehindLog
  <2>4. Undisturbed'
    BY <2>1, Zenon DEF Inv, Undisturbed, Plain, OnCourse
  <2>5. Epochs' /\ Fresh'
    BY <2>1, Zenon DEF Inv, Epochs, Fresh, UpToDate, Agrees, BeforeBump
  <2>6. QED
    BY <2>1, <2>2, <2>3, <2>4, <2>5, Zenon DEF Inv
<1>2. CASE Next
  <2>1. History /\ \A t : Watched(t)
    BY <1>2, HistoryWatches, Zenon DEF Next
  <2>2. CASE DropSubscriber
    BY <2>1, <2>2, DropStep, Zenon
  <2>3. ASSUME NEW t \in Threads, Step(t) \/ Catch(t) \/ WithCurrent(t)
        PROVE  Inv'
    BY <2>1, <2>3, StepInv, ReturnStep, WithCurrentStep, Zenon
  <2>4. ASSUME NEW t \in Threads, NEW new \in Filters, Modify(t, new) PROVE Inv'
    BY <2>1, <2>4, ModifyStep, Zenon
  <2>5. ASSUME NEW t \in Threads, NEW c \in Sites, Event(t, c) PROVE Inv'
    BY <2>1, <2>5, EventStep, Zenon
  <2>6. ASSUME NEW t \in Threads, NEW r \in Records, Log(t, r) PROVE Inv'
    BY <2>1, <2>6, LogMacroStep, Zenon
  <2>7. ASSUME NEW t \in Threads, NEW new \in CacheConfigs, NEW level \in LogLevels,
               InitLogger(t, new, level)
        PROVE  Inv'
    BY <2>1, <2>7, InitLoggerStep, Zenon
  <2>8. QED
    BY <1>2, <2>2, <2>3, <2>4, <2>5, <2>6, <2>7, Zenon DEF Next
<1>3. QED
  BY <1>1, <1>2, Zenon

\* The inductive invariant holds in every state of the layer, the callsites
\* and the log bridge that the program reaches.
THEOREM Invariance == Spec => []Inv
<1>1. Init => Inv
  BY InitInv, Zenon
<1>2. Inv /\ [Next]_vars => Inv'
  BY NextInv, Zenon
<1>3. QED
  BY <1>1, <1>2, PTL DEF Spec

\* The levels, answers and registrations stay in range, and the cache of a thread
\* never grows past the size it is configured with (interest_cache.rs).
THEOREM TypeCorrect == Spec => []TypeOK
<1>1. ASSUME Inv PROVE TypeOK
  <2>1. Len(NoState.cache) <= NoState.config.size
    <3>1. NoState.cache = <<>> /\ NoState.config.size = 0
      BY Zenon DEF NoState
    <3>2. Len(<<>>) <= 0
      BY SMT
    <3>3. QED
      BY <3>1, <3>2, Zenon
  <2>2. QED
    BY <1>1, <2>1, Zenon DEF Inv, Types, TypeOK, States, Answers
<1>2. QED
  BY <1>1, Invariance, PTL

\* Whatever was reloaded, panicked or registered before, an event or a log record
\* that meets no reload is recorded exactly if the filter in force enables it, as
\* long as no two rebuilds overlapped (reload.rs: Handle::modify, which rebuilds
\* the cached interests and the levels).
THEOREM ReloadedExactly == Spec => []ReloadExact
<1>1. ASSUME Inv PROVE ReloadExact
  <2>1. \A t \in clean : ~overlapped /\ alive /\ ~poisoned => OnCourse(call[t])
    BY <1>1, Zenon DEF Inv, Undisturbed, Plain
  <2>2. EventExact
    BY <2>1, Zenon DEF EventExact, OnCourse
  <2>3. LogExact
    BY <2>1, Zenon DEF LogExact, OnCourse
  <2>4. QED
    BY <2>2, <2>3, Zenon DEF ReloadExact
<1>2. QED
  BY <1>1, Invariance, PTL

\* Whatever overlaps, the cached interests that a thread would use for log records
\* are those of the filter in force, unless a reload has not come to the sentinel
\* callsite, and their configuration is the one in force (interest_cache.rs).
THEOREM LogCachesFresh == Spec => []LogCacheFresh
<1>1. ASSUME Inv PROVE LogCacheFresh
  <2>1. ASSUME NEW t \in Threads, state[t] # NoState, state[t].epoch = epoch, alive, ~poisoned,
               \A u \in Threads : ~BeforeBump(u),
               \A u \in Threads : ~(call[u].op = "init" /\ call[u].pc = "bump")
        PROVE  Agrees(state[t].cache) /\ state[t].config = config
    BY <1>1, <2>1, Zenon DEF Inv, Fresh, UpToDate
  <2>2. QED
    BY <2>1, Zenon DEF LogCacheFresh, Agrees
<1>2. QED
  BY <1>1, Invariance, PTL

-----------------------------------------------------------------------------
(* A poisoned layer                                                        *)

Silent == \A u \in Threads : call'[u].heard => call[u].heard

LEMMA SilentCall ==
  ASSUME Types, NEW t \in Threads, NEW k, k.heard => call[t].heard,
         call' = [call EXCEPT ![t] = k]
  PROVE  Silent
BY Zenon DEF Types, Silent

LEMMA FinishedHeard ==
  ASSUME NEW t, NEW h
  PROVE  Finished(t, h).heard = h
BY Zenon DEF Finished, Call

LEMMA GotoSilent ==
  ASSUME Types, NEW t \in Threads, NEW p, Goto(t, p)
  PROVE  Silent
<1>1. CASE p = "done"
  <2>1. call' = [call EXCEPT ![t] = Finished(t, FALSE)] /\ Finished(t, FALSE).heard = FALSE
    BY <1>1, FinishedHeard, Zenon DEF Goto
  <2>2. QED
    BY <2>1, SilentCall, Zenon
<1>2. CASE p # "done"
  <2> DEFINE k == [call[t] EXCEPT !.pc = p]
  <2>1. call' = [call EXCEPT ![t] = k] /\ k.heard = call[t].heard
    BY <1>2, Zenon DEF Goto, Types, Calls
  <2> HIDE DEF k
  <2>2. QED
    BY <2>1, SilentCall, Zenon
<1>3. QED
  BY <1>1, <1>2, Zenon

LEMMA StartSilent ==
  ASSUME Types, NEW t \in Threads, NEW o, NEW p, NEW a, Start(t, o, p, a)
  PROVE  Silent
<1> DEFINE k == Call(o, p, a, FALSE)
<1>1. call' = [call EXCEPT ![t] = k] /\ k.heard = FALSE
  BY Zenon DEF Start, Call
<1> HIDE DEF k
<1>2. QED
  BY <1>1, SilentCall, Zenon

LEMMA IdleSilent ==
  ASSUME Types, NEW t \in Threads, call' = [call EXCEPT ![t] = Idle]
  PROVE  Silent
BY IdleCall, SilentCall, Zenon

LEMMA VisitSilent ==
  ASSUME Types, NEW t \in Threads, NEW k \in Calls, k.heard = call[t].heard, Visit(t, k)
  PROVE  Silent
<1>1. ASSUME NEW c, NEW d, NEW p,
             \/ call' = [call EXCEPT ![t] = [k EXCEPT !.site = c, !.todo = @ \ {d}, !.pc = p]]
             \/ call' = [call EXCEPT ![t] = [k EXCEPT !.site = c, !.pc = p]]
      PROVE  Silent
  <2> DEFINE n == [k EXCEPT !.site = c, !.todo = @ \ {d}, !.pc = p]
             m == [k EXCEPT !.site = c, !.pc = p]
  <2>1. n.heard = call[t].heard /\ m.heard = call[t].heard
    BY Zenon DEF Calls
  <2>2. call' = [call EXCEPT ![t] = n] \/ call' = [call EXCEPT ![t] = m]
    BY <1>1, Zenon
  <2> HIDE DEF n, m
  <2>3. QED
    BY <2>1, <2>2, SilentCall, Zenon
<1>2. QED
  BY <1>1, Zenon DEF Visit

LEMMA LookupSilent ==
  ASSUME Types, NEW t \in Threads, NEW s, Lookup(t, s)
  PROVE  Silent
<1> DEFINE n(p) == [call[t] EXCEPT !.lvl = 0, !.pc = p]
<1>1. ASSUME NEW p PROVE n(p).heard = call[t].heard
  BY Zenon DEF Types, Calls
<1>2. \/ call' = [call EXCEPT ![t] = Finished(t, FALSE)]
      \/ \E p : call' = [call EXCEPT ![t] = n(p)]
  BY Zenon DEF Lookup
<1> HIDE DEF n
<1>3. QED
  BY <1>1, <1>2, FinishedHeard, SilentCall, Zenon

LEMMA StepSilent ==
  ASSUME Inv, poisoned, NEW t \in Threads, Step(t)
  PROVE  Silent
<1>1. Types /\ call[t] \in Calls /\ call \in [Threads -> Calls]
  BY Zenon DEF Inv, Types
<1>2. ASSUME Unwind(t) PROVE Silent
  BY <1>1, <1>2, IdleSilent, Zenon DEF Unwind
<1>3. CASE Swap(t)
  BY <1>1, <1>2, <1>3, GotoSilent, Zenon DEF Swap, LockOf
<1>4. CASE SwapPanics(t)
  BY <1>2, <1>4, Zenon DEF SwapPanics
<1>5. CASE ComputeMax(t)
  <2> DEFINE k == [call[t] EXCEPT !.lvl = AskHint(t), !.todo = Pushed]
  <2>1. AskHint(t) \in Nat /\ Pushed \in SUBSET Sites
    BY LayerAnswers, Zenon DEF Pushed
  <2>2. k \in Calls /\ k.heard = call[t].heard
    BY <1>1, <2>1, Zenon DEF Calls
  <2>3. Unwind(t) \/ Visit(t, k)
    BY <1>5, Zenon DEF ComputeMax
  <2> HIDE DEF k
  <2>4. QED
    BY <1>1, <1>2, <2>2, <2>3, VisitSilent, Zenon
<1>6. CASE Ask(t)
  <2> DEFINE v == AskInterest(t, call[t].site)
             k == [call[t] EXCEPT !.val = v, !.pc = "store"]
  <2>1. Unwind(t) \/ call' = [call EXCEPT ![t] = k]
    BY <1>1, <1>6, Zenon DEF Ask
  <2> HIDE DEF v
  <2>2. k.heard = call[t].heard
    BY <1>1, Zenon DEF Calls
  <2> HIDE DEF k
  <2>3. QED
    BY <1>1, <1>2, <2>1, <2>2, SilentCall, Zenon
<1>7. CASE Store(t)
  <2> DEFINE k == [call[t] EXCEPT !.val = "empty"]
  <2>1. k \in Calls /\ k.heard = call[t].heard
    BY <1>1, CallTypes, Zenon DEF Calls
  <2>2. Goto(t, "interest") \/ Visit(t, k)
    BY <1>7, Zenon DEF Store
  <2> HIDE DEF k
  <2>3. QED
    BY <1>1, <2>1, <2>2, GotoSilent, VisitSilent, Zenon
<1>8. CASE SetMax(t) \/ SetLogMax(t) \/ Configure(t) \/ Bump(t) \/ SetLogger(t) \/ SetLogFilter(t)
  <2>1. \E p : Goto(t, p)
    BY <1>8, Zenon DEF SetMax, SetLogMax, Configure, Bump, SetLogger, SetLogFilter
  <2>2. QED
    BY <1>1, <2>1, GotoSilent, Zenon
<1>9. CASE Current(t) \/ LoadEpoch(t) \/ Renew(t)
  <2> DEFINE k(v, p) == [call[t] EXCEPT !.lvl = v, !.pc = p]
  <2>1. (\E s : Lookup(t, s)) \/ \E v, p : call' = [call EXCEPT ![t] = k(v, p)]
    <3>1. ASSUME Current(t) PROVE call' = [call EXCEPT ![t] = k(maxLevel, "log_max")]
      BY <1>1, <3>1, Zenon DEF Current
    <3>2. ASSUME LoadEpoch(t)
          PROVE  Lookup(t, state[t]) \/ call' = [call EXCEPT ![t] = k(epoch, "renew")]
      BY <1>1, <3>2, Zenon DEF LoadEpoch
    <3>3. ASSUME Renew(t) PROVE \E s : Lookup(t, s)
      BY <3>3, Zenon DEF Renew
    <3> HIDE DEF k
    <3>4. QED
      BY <1>9, <3>1, <3>2, <3>3, Zenon
  <2>2. \A v, p : k(v, p).heard = call[t].heard
    BY <1>1, Zenon DEF Calls
  <2> HIDE DEF k
  <2>3. QED
    BY <1>1, <2>1, <2>2, LookupSilent, SilentCall, Zenon
<1>10. CASE Interest(t)
  <2> DEFINE c == call[t].arg
             k == [call[t] EXCEPT !.site = c, !.pc = "ask"]
  <2>1. call[t].op = "event" /\ c \in Sites /\ interest[c] \in Answers
    BY <1>10, Zenon DEF Interest, At, Inv, CallOK, ModifyPcs, InitPcs, LogPcs, Types, Calls, Ops
  <2>2. (\E p : Goto(t, p)) \/ call' = [call EXCEPT ![t] = k]
    BY <1>10, <2>1, Zenon DEF Interest, Answers
  <2>3. k.heard = call[t].heard
    BY <1>1, Zenon DEF Calls
  <2> HIDE DEF k
  <2>4. QED
    BY <1>1, <2>2, <2>3, GotoSilent, SilentCall, Zenon
<1>11. CASE Enabled(t) \/ Callback(t)
  <2>1. Unwind(t) \/ \E p : Goto(t, p)
    BY <1>11, Zenon DEF Enabled, Callback
  <2>2. QED
    BY <1>1, <1>2, <2>1, GotoSilent, Zenon
<1>12. CASE DispatchEvent(t) \/ DispatchRecord(t)
  <2>1. Unwind(t) \/ call' = [call EXCEPT ![t] = Finished(t, FALSE)]
    BY <1>12, Zenon DEF DispatchEvent, DispatchRecord, LockOf, AskEnabled
  <2>2. Finished(t, FALSE).heard = FALSE
    BY FinishedHeard, Zenon
  <2>3. QED
    BY <1>1, <1>2, <2>1, <2>2, SilentCall, Zenon
<1>13. CASE Return(t)
  BY <1>1, <1>13, IdleSilent, Zenon DEF Return
<1>14. QED
  BY <1>3, <1>4, <1>5, <1>6, <1>7, <1>8, <1>9, <1>10, <1>11, <1>12, <1>13, Zenon DEF Step

\* After a panic in the closure of a reload nothing is recorded through the layer
\* any more (reload.rs: try_lock!, whose poisoned lock panics or gives up).
THEOREM PoisonedStaysSilent == Spec => PoisonedSilent
<1>1. ASSUME Inv, [Next]_vars, poisoned PROVE Silent
  <2>1. Types
    BY <1>1, Zenon DEF Inv
  <2>2. CASE call' = call
    BY <2>2, Zenon DEF Silent
  <2>3. ASSUME NEW t \in Threads, Step(t) PROVE Silent
    BY <1>1, <2>3, StepSilent, Zenon
  <2>4. ASSUME NEW t \in Threads, WithCurrent(t) PROVE Silent
    BY <2>1, <2>4, IdleSilent, Zenon DEF WithCurrent, Unwind
  <2>5. ASSUME NEW t \in Threads, NEW o, NEW p, NEW a, Start(t, o, p, a) PROVE Silent
    BY <2>1, <2>5, StartSilent, Zenon
  <2>6. QED
    BY <1>1, <2>2, <2>3, <2>4, <2>5, Zenon
       DEF Next, vars, DropSubscriber, Catch, Modify, Event, Log, InitLogger
<1>2. Inv /\ [Next]_vars => [poisoned => \A t \in Threads : call'[t].heard => call[t].heard]_vars
  BY <1>1, Zenon DEF Silent
<1>3. QED
  BY <1>2, Invariance, PTL DEF Spec, PoisonedSilent
=============================================================================
