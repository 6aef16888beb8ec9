-------------------------------- MODULE Reload --------------------------------
(***************************************************************************)
(* A filter that is replaced while the program traces, and everything that *)
(* remembers what it answered: reload::Layer and its Handle                *)
(* (tracing-subscriber/src/reload.rs), the interest of each callsite and   *)
(* the maximum level (tracing-core/src/callsite.rs), and for the records   *)
(* of the log crate its own maximum level and a cache per thread           *)
(* (tracing-log/src/log_tracer.rs, tracing-log/src/interest_cache.rs).     *)
(*                                                                         *)
(* There is one subscriber, which holds the reload layer, so a rebuild     *)
(* takes no lock of the registry of callsites (Callsites has the others).  *)
(* The RwLock around the layer is held for single calls of it, which are   *)
(* single steps here; a panic under the write lock poisons it.             *)
(***************************************************************************)
EXTENDS Integers, Sequences, FiniteSets

CONSTANTS Threads,
          Sites,       \* callsites: records with a level
          Records,     \* log records: a level, a target, and the slot of
                       \*   memory (address and length) the target is in
          Ignored,     \* targets that start with one of ignore_crates
          Filters,     \* values of the layer: a hint, what they enable, and
                       \*   whether they decide that once for a callsite
          CacheConfigs,\* InterestCacheConfigs: a size and a min_verbosity
          LogLevels,   \* levels given to Builder::with_max_level
          Sentinel,    \* SENTINEL_CALLSITE
          NoSite,
          Trace,       \* LevelFilter::TRACE
          MaxChanges   \* bound: calls of modify and of init

Levels == 0 .. Trace

ASSUME ReloadAssumption ==
  /\ Sentinel \notin Sites /\ NoSite \notin Sites \cup {Sentinel}
  /\ Trace \in Nat /\ LogLevels \subseteq Levels
  /\ CacheConfigs \subseteq [size : Nat, min : Nat]
  /\ \A r, s \in Records :
       r.level = s.level /\ r.target = s.target /\ r.slot = s.slot => r = s
  /\ \A f \in Filters : /\ f.hint \in Levels /\ f.on \subseteq Sites \cup Records
                        /\ f.sure \in BOOLEAN /\ \A m \in f.on : m.level <= f.hint

VARIABLES
  filter,    \* the value in the RwLock
  poisoned,  \* whether a thread panicked while it held the write lock
  alive,     \* whether the subscriber exists: the Handle's Weak upgrades
  reg,       \* DefaultCallsite::registration
  interest,  \* the cached interest; "empty" is 0xFF
  maxLevel,  \* MAX_LEVEL
  logMax,    \* log::max_level
  logger,    \* whether a logger is set
  sentinel,  \* whether SENTINEL_CALLSITE is registered: CONFIG was used
  config,    \* CONFIG
  epoch,     \* INTEREST_CACHE_EPOCH
  state,     \* each thread's STATE
  call,      \* the call each thread is in
  panicking, \* the threads that unwind
  changes,
  clean,     \* history: threads whose call no change of a filter met
  overlapped \* history: two rebuilds or registrations went on at once

filterVars == <<filter, poisoned, alive>>
siteVars == <<reg, interest, maxLevel>>
logVars == <<logMax, logger, sentinel, config, epoch>>
vars == <<filterVars, siteVars, logVars, state, call, panicking, changes,
          clean, overlapped>>

NoState == [epoch |-> -1, config |-> [size |-> 0, min |-> 4], cache |-> <<>>]
Disabled == NoState.config  \* InterestCacheConfig::disabled

\* arg: the filter of modify, the record of log, the arguments of init.
Call(op, pc, arg, heard) ==
  [op |-> op, pc |-> pc, arg |-> arg, site |-> NoSite, todo |-> {}, val |-> "empty",
   lvl |-> 0, heard |-> heard]
Idle == Call("none", "idle", <<>>, FALSE)

Init ==
  /\ filter \in Filters /\ poisoned = FALSE /\ alive = TRUE
  /\ reg = [c \in Sites |-> "UNREGISTERED"]
  /\ interest = [c \in Sites |-> "empty"]
  /\ maxLevel = filter.hint
  /\ \/ logger = FALSE /\ sentinel = FALSE /\ logMax = 0 /\ config = Disabled
     \/ logger = TRUE /\ sentinel = TRUE /\ logMax \in LogLevels /\ config \in CacheConfigs
  /\ epoch = 0
  /\ state = [t \in Threads |-> NoState]
  /\ call = [t \in Threads |-> Idle]
  /\ panicking = {} /\ changes = 0
  /\ clean = {} /\ overlapped = FALSE

-----------------------------------------------------------------------------
(* The layer                                                               *)

RegisterCallsite(f, c) ==
  IF ~f.sure THEN "sometimes" ELSE IF c \in f.on THEN "always" ELSE "never"

\* Mutant: the value is taken out of a poisoned lock.
LockOfPoisoned(t) == "ok"

\* try_lock!: a poisoned lock panics, or gives up if the thread unwinds already.
LockOf(t) == IF ~poisoned THEN "ok" ELSE IF t \in panicking THEN "else" ELSE "panic"

\* What the subscriber answers to thread t through the lock; without a
\* subscriber, what Dispatch::none does.
AskInterest(t, c) ==
  IF ~alive THEN "never"
  ELSE IF LockOf(t) = "ok" THEN RegisterCallsite(filter, c) ELSE "sometimes"

AskHint(t) ==
  IF alive /\ LockOf(t) = "ok" THEN filter.hint ELSE Trace

AskEnabled(t, m) == alive /\ LockOf(t) = "ok" /\ m \in filter.on

Panics(t) == alive /\ LockOf(t) = "panic"

-----------------------------------------------------------------------------
(* Calls                                                                   *)

At(t, pc) == call[t].pc = pc

Finished(t, heard) == Call(call[t].op, "done", call[t].arg, heard)

Goto(t, pc) ==
  call' = [call EXCEPT ![t] = IF pc = "done"
                              THEN Finished(t, FALSE)
                              ELSE [@ EXCEPT !.pc = pc]]

\* A thread whose call is over is seen at "done" once and then is idle.
Start(t, op, pc, arg) ==
  /\ At(t, "idle")
  /\ call' = [call EXCEPT ![t] = Call(op, pc, arg, FALSE)]

Unwind(t) ==
  /\ call' = [call EXCEPT ![t] = Idle]
  /\ panicking' = panicking \cup {t}

Return(t) ==
  /\ At(t, "done")
  /\ call' = [call EXCEPT ![t] = Idle]
  /\ UNCHANGED <<filterVars, siteVars, logVars, state, panicking, changes>>

\* The panic is caught.
Catch(t) ==
  /\ At(t, "idle") /\ t \in panicking
  /\ panicking' = panicking \ {t}
  /\ UNCHANGED <<filterVars, siteVars, logVars, state, call, changes>>

\* The last strong reference to the subscriber goes away.
DropSubscriber ==
  /\ alive /\ alive' = FALSE
  /\ \A t \in Threads : call[t].op \in {"none", "modify"}
  /\ UNCHANGED <<filter, poisoned, siteVars, logVars, state, call, panicking,
                 changes>>

-----------------------------------------------------------------------------
(* Handle::modify, reload and with_current                                 *)

\* The Weak is upgraded, or the error is is_dropped.
Modify(t, new) ==
  /\ changes < MaxChanges /\ changes' = changes + 1
  /\ Start(t, "modify", IF alive THEN "write" ELSE "done", new)
  /\ UNCHANGED <<filterVars, siteVars, logVars, state, panicking>>

\* Mutant: nothing is rebuilt.
SwapOnly(t) ==
  /\ At(t, "write") /\ LockOf(t) = "ok"
  /\ filter' = call[t].arg
  /\ Goto(t, "done")
  /\ UNCHANGED <<poisoned, alive, siteVars, logVars, state, panicking, changes>>

\* The write lock, the closure, and its release.
Swap(t) ==
  /\ At(t, "write")
  /\ CASE LockOf(t) = "ok" ->
            /\ filter' = call[t].arg
            /\ Goto(t, "max") /\ UNCHANGED panicking
       [] LockOf(t) = "else" -> Goto(t, "done") /\ UNCHANGED <<filter, panicking>>
       [] LockOf(t) = "panic" -> Unwind(t) /\ UNCHANGED filter
  /\ UNCHANGED <<poisoned, alive, siteVars, logVars, state, changes>>

\* The closure panics, with the value as it has left it.
SwapPanics(t) ==
  /\ At(t, "write") /\ LockOf(t) = "ok" /\ t \notin panicking
  /\ filter' \in {filter, call[t].arg}
  /\ poisoned' = TRUE
  /\ Unwind(t)
  /\ UNCHANGED <<alive, siteVars, logVars, state, changes>>

WithCurrent(t) ==
  /\ At(t, "idle") /\ alive /\ LockOf(t) = "panic"
  /\ Unwind(t)
  /\ UNCHANGED <<filterVars, siteVars, logVars, state, changes>>

-----------------------------------------------------------------------------
(* callsite::rebuild_interest_cache                                        *)

\* push_default comes right after the exchange that starts a registration.
Pushed == {c \in Sites : reg[c] # "UNREGISTERED"}

\* for_each: the next of the list; at its end, the callsites that are locked, of
\* which the sentinel is the one here; then set_max.
Visit(t, rebuild) ==
  \/ \E c \in rebuild.todo :
       call' = [call EXCEPT ![t] = [rebuild EXCEPT !.site = c, !.todo = @ \ {c}, !.pc = "ask"]]
  \/ /\ rebuild.todo = {} /\ sentinel /\ rebuild.site # Sentinel
     /\ call' = [call EXCEPT ![t] = [rebuild EXCEPT !.site = Sentinel, !.pc = "ask"]]
  \/ /\ rebuild.todo = {} /\ (sentinel => rebuild.site = Sentinel)
     /\ call' = [call EXCEPT ![t] = [rebuild EXCEPT !.site = NoSite, !.pc = "set_max"]]

\* The maximum level, and the head of the list of callsites.
ComputeMax(t) ==
  /\ At(t, "max")
  /\ \/ Panics(t) /\ Unwind(t)
     \/ /\ ~Panics(t) /\ UNCHANGED panicking
        /\ Visit(t, [call[t] EXCEPT !.lvl = AskHint(t), !.todo = Pushed])
  /\ UNCHANGED <<filterVars, siteVars, logVars, state, changes>>

\* rebuild_callsite_interest: register_callsite.
Ask(t) ==
  /\ At(t, "ask")
  /\ \/ Panics(t) /\ Unwind(t)
     \/ /\ ~Panics(t) /\ UNCHANGED panicking
        /\ call' = [call EXCEPT ![t].val = AskInterest(t, call[t].site), ![t].pc = "store"]
  /\ UNCHANGED <<filterVars, siteVars, logVars, state, changes>>

\* set_interest: the sentinel's adds to the epoch.  A callsite that registers
\* is registered then.
Store(t) ==
  LET c == call[t].site
  IN  /\ At(t, "store")
      /\ IF c = Sentinel
         THEN epoch' = epoch + 1 /\ UNCHANGED <<interest, reg>>
         ELSE /\ interest' = [interest EXCEPT ![c] = call[t].val]
              /\ reg' = IF call[t].op = "event" THEN [reg EXCEPT ![c] = "REGISTERED"] ELSE reg
              /\ UNCHANGED epoch
      /\ IF call[t].op = "event" THEN Goto(t, "interest")
         ELSE Visit(t, [call[t] EXCEPT !.val = "empty"])
      /\ UNCHANGED <<filterVars, maxLevel, logMax, logger, sentinel, config, state,
                     panicking, changes>>

SetMax(t) ==
  /\ At(t, "set_max")
  /\ maxLevel' = call[t].lvl
  /\ Goto(t, "current")
  /\ UNCHANGED <<filterVars, reg, interest, logVars, state, panicking, changes>>

\* The end of modify: the level is read again, and given to the log crate.
Current(t) ==
  /\ At(t, "current")
  /\ call' = [call EXCEPT ![t].lvl = maxLevel, ![t].pc = "log_max"]
  /\ UNCHANGED <<filterVars, siteVars, logVars, state, panicking, changes>>

SetLogMax(t) ==
  /\ At(t, "log_max")
  /\ logMax' = call[t].lvl
  /\ Goto(t, "done")
  /\ UNCHANGED <<filterVars, siteVars, logger, sentinel, config, epoch, state,
                 panicking, changes>>
-----------------------------------------------------------------------------
(* event!                                                                  *)

\* level_enabled!
Event(t, c) ==
  /\ Start(t, "event", IF c.level <= maxLevel THEN "interest" ELSE "done", c)
  /\ UNCHANGED <<filterVars, siteVars, logVars, state, panicking, changes>>

\* DefaultCallsite::interest and register.
Interest(t) ==
  LET c == call[t].arg
      Next(pc) == Goto(t, pc) /\ UNCHANGED reg
  IN  /\ At(t, "interest")
      /\ CASE interest[c] = "never" -> Next("done")
           [] interest[c] = "sometimes" -> Next("enabled")
           [] interest[c] = "always" -> Next("dispatch")
           [] interest[c] = "empty" /\ reg[c] # "UNREGISTERED" -> Next("enabled")
           [] interest[c] = "empty" /\ reg[c] = "UNREGISTERED" ->
                /\ reg' = [reg EXCEPT ![c] = "REGISTERING"]
                /\ call' = [call EXCEPT ![t].site = c, ![t].pc = "ask"]
      /\ UNCHANGED <<filterVars, interest, maxLevel, logVars, state, panicking,
                     changes>>

\* __is_enabled, for an interest that is not always.
Enabled(t) ==
  /\ At(t, "enabled")
  /\ \/ Panics(t) /\ Unwind(t)
     \/ /\ ~Panics(t) /\ UNCHANGED panicking
        /\ Goto(t, IF AskEnabled(t, call[t].arg) THEN "dispatch" ELSE "done")
  /\ UNCHANGED <<filterVars, siteVars, logVars, state, changes>>

\* Event::dispatch: event_enabled and on_event.
DispatchEvent(t) ==
  /\ At(t, "dispatch")
  /\ \/ Panics(t) /\ Unwind(t)
     \/ /\ ~Panics(t) /\ UNCHANGED panicking
        /\ call' = [call EXCEPT ![t] = Finished(t, alive /\ LockOf(t) = "ok")]
  /\ UNCHANGED <<filterVars, siteVars, logVars, state, changes>>

-----------------------------------------------------------------------------
(* LogTracer, of a program that sets it up while the layer is not poisoned *)

\* Builder::init.  CONFIG is made when it is first used: the sentinel is
\* registered, and so its set_interest is called.
InitLogger(t, new, level) ==
  /\ changes < MaxChanges /\ changes' = changes + 1 /\ ~poisoned
  /\ Start(t, "init", "config", [config |-> new, level |-> level])
  /\ sentinel' = TRUE
  /\ epoch' = IF sentinel THEN epoch ELSE epoch + 1
  /\ UNCHANGED <<filterVars, siteVars, logMax, logger, config, state, panicking>>

\* configure.
Configure(t) ==
  /\ At(t, "config")
  /\ config' = call[t].arg.config
  /\ Goto(t, "bump")
  /\ UNCHANGED <<filterVars, siteVars, logMax, logger, sentinel, epoch, state, panicking,
                 changes>>

Bump(t) ==
  /\ At(t, "bump")
  /\ epoch' = epoch + 1
  /\ Goto(t, "logger")
  /\ UNCHANGED <<filterVars, siteVars, logMax, logger, sentinel, config, state, panicking,
                 changes>>

\* set_boxed_logger, which fails if there is one.
SetLogger(t) ==
  /\ At(t, "logger")
  /\ logger' = TRUE
  /\ Goto(t, IF logger THEN "done" ELSE "log_filter")
  /\ UNCHANGED <<filterVars, siteVars, logMax, sentinel, config, epoch, state, panicking,
                 changes>>

SetLogFilter(t) ==
  /\ At(t, "log_filter")
  /\ logMax' = call[t].arg.level
  /\ Goto(t, "done")
  /\ UNCHANGED <<filterVars, siteVars, logger, sentinel, config, epoch, state, panicking,
                 changes>>

\* A macro of the log crate, and LogTracer::enabled up to the cache: the two
\* levels are read at once.  STATE is made when it is first used.
Log(t, r) ==
  LET asks == /\ logger /\ r.level <= logMax
              /\ r.level <= maxLevel /\ r.target \notin Ignored
  IN  /\ Start(t, "log", IF asks THEN "epoch" ELSE "done", r)
      /\ state' = IF asks /\ state[t] = NoState
                  THEN [state EXCEPT ![t] = [epoch |-> epoch, config |-> config, cache |-> <<>>]]
                  ELSE state
      /\ UNCHANGED <<filterVars, siteVars, logVars, panicking, changes>>

\* LruCache, external: the entry that was used last is first, and no two have
\* the same key.
Key(r) == <<r.slot, r.level>>
Holds(cache, k) == \E i \in DOMAIN cache : cache[i].key = k
PlaceOf(cache, k) == CHOOSE i \in DOMAIN cache : cache[i].key = k
Without(cache, i) == SubSeq(cache, 1, i - 1) \o SubSeq(cache, i + 1, Len(cache))
Others(cache, k) ==
  IF Holds(cache, k) THEN Without(cache, PlaceOf(cache, k)) ELSE cache
Used(cache, e) == <<e>> \o Others(cache, e.key)
Put(cache, size, e) == LET all == Used(cache, e)
                       IN  SubSeq(all, 1, IF Len(all) <= size THEN Len(all) ELSE size)

\* try_cache with its state s.  The target itself stands for its hash: of two
\* targets in one slot, the hashes are taken to differ.
Lookup(t, s) ==
  LET r == call[t].arg
      caches == s.config.size > 0 /\ r.level >= s.config.min
      found == caches /\ Holds(s.cache, Key(r))
      entry == s.cache[PlaceOf(s.cache, Key(r))]
      hit == found /\ entry.target = r.target
  IN  /\ state' = [state EXCEPT ![t] =
           [s EXCEPT !.cache = IF found THEN Used(s.cache, entry) ELSE s.cache]]
      /\ call' = [call EXCEPT ![t] =
           IF hit /\ ~entry.yes THEN Finished(t, FALSE)
           ELSE [@ EXCEPT !.lvl = 0, !.pc = IF hit THEN "record" ELSE IF caches THEN "callback"
                                            ELSE "uncached"]]

\* The epoch is read ...
LoadEpoch(t) ==
  /\ At(t, "epoch")
  /\ IF epoch = state[t].epoch THEN Lookup(t, state[t])
     ELSE call' = [call EXCEPT ![t].lvl = epoch, ![t].pc = "renew"] /\ UNCHANGED state
  /\ UNCHANGED <<filterVars, siteVars, logVars, panicking, changes>>

\* Mutant: a new state keeps what the old one had cached.
RenewKeeps(t) ==
  /\ At(t, "renew")
  /\ Lookup(t, [epoch |-> call[t].lvl, config |-> config, cache |-> state[t].cache])
  /\ UNCHANGED <<filterVars, siteVars, logVars, panicking, changes>>

\* ... and then, if it is another, the configuration.
Renew(t) ==
  /\ At(t, "renew")
  /\ Lookup(t, [epoch |-> call[t].lvl, config |-> config, cache |-> <<>>])
  /\ UNCHANGED <<filterVars, siteVars, logVars, panicking, changes>>

\* The current dispatcher's enabled, and what is put in the cache.
Callback(t) ==
  LET r == call[t].arg
      yes == AskEnabled(t, r)
      entry == [key |-> Key(r), target |-> r.target, yes |-> yes]
  IN  /\ call[t].pc \in {"callback", "uncached"}
      /\ \/ Panics(t) /\ Unwind(t) /\ UNCHANGED state
         \/ /\ ~Panics(t) /\ UNCHANGED panicking
            /\ state' = IF At(t, "uncached") THEN state
                        ELSE [state EXCEPT ![t].cache = Put(@, state[t].config.size, entry)]
            /\ Goto(t, IF yes THEN "record" ELSE "done")
      /\ UNCHANGED <<filterVars, siteVars, logVars, changes>>

\* dispatch_record: enabled is asked again, then the event is dispatched.
DispatchRecord(t) ==
  /\ At(t, "record")
  /\ \/ Panics(t) /\ Unwind(t)
     \/ /\ ~Panics(t) /\ UNCHANGED panicking
        /\ call' = [call EXCEPT ![t] = Finished(t, AskEnabled(t, call[t].arg))]
  /\ UNCHANGED <<filterVars, siteVars, logVars, state, changes>>

-----------------------------------------------------------------------------
\* A thread that has changed the filter or the caches, or is about to.
Rebuilding(t) ==
  \/ call[t].op = "modify" /\ call[t].pc \in {"max", "ask", "store", "set_max",
                                              "current", "log_max"}
  \/ call[t].op = "event" /\ call[t].pc \in {"ask", "store"}
  \/ call[t].op = "init" /\ call[t].pc # "done"

\* The history variables.
History ==
  /\ overlapped' = \/ overlapped
                    \/ \E t \in Threads, u \in Threads :
                         t # u /\ Rebuilding(t)' /\ Rebuilding(u)'
  /\ clean' = {t \in Threads :
                 /\ call'[t].op \in {"event", "log"}
                 /\ call[t].op = "none" \/ t \in clean
                 /\ ~\E u \in Threads \ {t} : call'[u].op \in {"modify", "init"}
                 /\ filterVars' = filterVars}

\* The steps of a call that has started.
Step(t) ==
  \/ Swap(t) \/ SwapPanics(t) \/ ComputeMax(t) \/ Ask(t) \/ Store(t)
  \/ SetMax(t) \/ Current(t) \/ SetLogMax(t)
  \/ Interest(t) \/ Enabled(t) \/ DispatchEvent(t)
  \/ Configure(t) \/ Bump(t) \/ SetLogger(t) \/ SetLogFilter(t)
  \/ LoadEpoch(t) \/ Renew(t) \/ Callback(t) \/ DispatchRecord(t)
  \/ Return(t)

Next ==
  /\ \/ DropSubscriber
     \/ \E t \in Threads :
          \/ Step(t) \/ Catch(t) \/ WithCurrent(t)
          \/ \E new \in Filters : Modify(t, new)
          \/ \E c \in Sites : Event(t, c)
          \/ \E r \in Records : Log(t, r)
          \/ \E new \in CacheConfigs, level \in LogLevels : InitLogger(t, new, level)
  /\ History

Spec == Init /\ [][Next]_vars

-----------------------------------------------------------------------------
TypeOK ==
  /\ filter \in Filters /\ poisoned \in BOOLEAN /\ alive \in BOOLEAN
  /\ reg \in [Sites -> {"UNREGISTERED", "REGISTERING", "REGISTERED"}]
  /\ interest \in [Sites -> {"empty", "never", "sometimes", "always"}]
  /\ maxLevel \in Levels /\ logMax \in Levels /\ epoch \in Nat
  /\ \A t \in Threads : Len(state[t].cache) <= state[t].config.size

\* An event that meets no reload is recorded exactly if the filter in force
\* enables it, whatever was reloaded, panicked or registered before, as long as
\* no two rebuilds or registrations overlapped: then neither the cached interest
\* nor the maximum level is left over from an older filter.
EventExact ==
  \A t \in clean :
    call[t].op = "event" /\ call[t].pc = "done" /\ ~overlapped /\ alive /\ ~poisoned
      => (call[t].heard <=> call[t].arg \in filter.on)

\* The same of a record of the log crate whose level the builders' filters let
\* through: neither the caches of the threads nor the log crate's level hide it.
LogExact ==
  \A t \in clean :
    LET r == call[t].arg
    IN  /\ call[t].op = "log" /\ call[t].pc = "done" /\ ~overlapped /\ alive /\ ~poisoned
        /\ logger /\ \A l \in LogLevels : r.level <= l
        => (call[t].heard <=> r \in filter.on /\ r.target \notin Ignored)

\* Events and log records follow the filter in force (reload.rs: modify).
ReloadExact == EventExact /\ LogExact

\* A reload whose rebuild has not told the sentinel yet.
BeforeBump(t) == call[t].op = "modify" /\ call[t].pc \in {"max", "ask", "store"}

\* Whatever overlaps, a thread's cache of interests that it would use, as its
\* epoch is the current one, answers for the filter in force, unless a reload has
\* not come to the sentinel yet; and its configuration is the one in force.
LogCacheFresh ==
  \A t \in Threads :
    /\ state[t] # NoState /\ state[t].epoch = epoch /\ alive /\ ~poisoned
    /\ ~\E u \in Threads : BeforeBump(u) \/ (call[u].op = "init" /\ call[u].pc = "bump")
    => /\ \A r \in Records, i \in DOMAIN state[t].cache :
            LET e == state[t].cache[i]
            IN  e.key = Key(r) /\ e.target = r.target => (e.yes <=> r \in filter.on)
       /\ state[t].config = config

\* After a panic in a reload nothing reaches the layer: the value that the
\* closure left half changed is not used.
PoisonedSilent ==
  [][poisoned => \A t \in Threads : call'[t].heard => call[t].heard]_vars

=============================================================================
