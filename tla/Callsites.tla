----------------------------- MODULE Callsites -----------------------------
(***************************************************************************)
(* The callsite registry and its interest cache                            *)
(* (tracing-core/src/callsite.rs, built with the `std` feature).           *)
(*                                                                         *)
(* Every callsite caches the combined interest of the active subscribers.  *)
(* Three operations write that cache, possibly at the same time:           *)
(*   register                a callsite hit for the first time,            *)
(*   register_dispatch       a new Dispatch, under the write lock,         *)
(*   rebuild_interest_cache  an explicit rebuild.                          *)
(* The first and the last take the lock that protects the dispatchers only *)
(* when has_just_one is false; otherwise they consult the default          *)
(* dispatcher of the calling thread and hold no lock.                      *)
(*                                                                         *)
(* One step is one access to shared memory.  Accesses are merged only when *)
(* the state between them is private to the thread (storing `next` of an   *)
(* unpublished callsite) or when the second releases a lock.               *)
(***************************************************************************)
EXTENDS Integers, FiniteSets

CONSTANTS Threads,      \* threads of the program
          ListSites,    \* DefaultCallsites: kept in the lock-free list
          DynSites,     \* other `dyn Callsite`s: kept in LOCKED_CALLSITES
          Dispatches,   \* Dispatches the program may create
          MaxLevel,     \* the most verbose level; 0 is LevelFilter::OFF
          Opinions,     \* possible values of `wants`
          Hints,        \* possible values of `hint`
          None          \* null pointer, unset default, free lock

Callsites == ListSites \cup DynSites
Levels == 0..MaxLevel
Interest == {"never", "sometimes", "always"}

ASSUME CallsitesAssumption ==
  /\ None \notin Threads \cup Callsites \cup Dispatches
  /\ ListSites \cap DynSites = {}
  /\ MaxLevel \in Nat
  /\ Opinions \subseteq [Dispatches -> [Callsites -> Interest]]
  /\ Hints \subseteq [Dispatches -> Levels]

VARIABLES
  \* CALLSITES and the callsites themselves
  head,          \* list_head
  next,          \* DefaultCallsite::next
  registration,  \* DefaultCallsite::registration
  interest,      \* the cached interest; "empty" is 0xFF
  hasLocked,     \* has_locked_callsites
  locked,        \* the contents of LOCKED_CALLSITES
  mutex,         \* the thread that holds LOCKED_CALLSITES, or None
  maxLevel,      \* MAX_LEVEL
  \* DISPATCHERS
  hasJustOne,    \* has_just_one
  dispatchers,   \* registrars (weak references) in LOCKED_DISPATCHERS
  writer,        \* the thread that holds the write lock, or None
  readers,       \* the threads that hold a read lock
  \* subscribers
  live,          \* Dispatches with a strong reference
  wants,         \* what Subscriber::register_callsite answers
  hint,          \* Subscriber::max_level_hint, TRACE if it gives none
  scoped,        \* the thread's default set by set_default, or None
  global,        \* the global default, or None
  \* one call per thread
  pc, op, mode, site, disp, val, lvl, rest,
  \* history
  rank,          \* position of a callsite in the list, 0 if not in it
  basis,         \* the mode of the rebuild that stored interest[c]
  maxBasis       \* the mode of the rebuild that stored maxLevel

listVars == <<head, next, registration, hasLocked, locked, rank>>
cacheVars == <<interest, maxLevel, basis, maxBasis>>
lockVars == <<hasJustOne, dispatchers, writer, readers>>
subscriberVars == <<live, wants, hint, scoped, global>>
threadVars == <<pc, op, mode, site, disp, val, lvl, rest>>
vars == <<listVars, mutex, cacheVars, lockVars, subscriberVars, threadVars>>

-----------------------------------------------------------------------------
Pcs == {"idle", "link", "cas", "rebuilder", "read_lock", "max", "head", "ask",
        "store", "locked_flag", "lock_dyn", "set_max", "finish"}

\* The dispatcher that get_default hands to thread t (Dispatcher.tla has the
\* details); None is Dispatch::none().
DefaultOf(t) == IF scoped[t] # None THEN scoped[t] ELSE global

\* Rebuilder::for_each: the dispatchers a rebuild by thread t consults.
\* A registrar whose subscriber is gone does not upgrade and is skipped.
Consulted(t) ==
  IF mode[t] = "JustOne"
  THEN {DefaultOf(t)}
  ELSE dispatchers \cap live

\* NoSubscriber, behind Dispatch::none(), answers never but gives no hint,
\* which rebuild_interest takes for TRACE.
InterestOf(d, c) == IF d = None THEN "never" ELSE wants[d][c]
HintOf(d) == IF d = None THEN MaxLevel ELSE hint[d]

\* Mutant: the last dispatcher's answer replaces the others.
CombineLast(ds, c) ==
  IF ds = {} THEN "never" ELSE InterestOf(CHOOSE d \in ds : TRUE, c)

\* rebuild_callsite_interest: the fold of Interest::and keeps an interest
\* all dispatchers share and is `sometimes` otherwise; no dispatcher: never.
Combine(ds, c) ==
  LET answers == {InterestOf(d, c) : d \in ds}
  IN  IF answers = {} THEN "never"
      ELSE IF \E i \in Interest : answers = {i}
           THEN CHOOSE i \in Interest : answers = {i}
           ELSE "sometimes"

\* The fold that opens rebuild_interest starts from OFF: l is its result.
IsMaxHint(l, ds) ==
  /\ l = 0 \/ \E d \in ds : HintOf(d) = l
  /\ \A d \in ds : HintOf(d) <= l

Init ==
  /\ head = None
  /\ next = [c \in ListSites |-> None]
  /\ registration = [c \in ListSites |-> "UNREGISTERED"]
  /\ interest = [c \in Callsites |-> "empty"]
  /\ hasLocked = FALSE /\ locked = {} /\ mutex = None
  /\ maxLevel = 0
  /\ hasJustOne = TRUE /\ dispatchers = {} /\ writer = None /\ readers = {}
  /\ live = {} /\ wants \in Opinions /\ hint \in Hints
  /\ scoped = [t \in Threads |-> None] /\ global = None
  /\ pc = [t \in Threads |-> "idle"]
  /\ op = [t \in Threads |-> "none"]
  /\ mode = [t \in Threads |-> "none"]
  /\ site = [t \in Threads |-> None]
  /\ disp = [t \in Threads |-> None]
  /\ val = [t \in Threads |-> "empty"]
  /\ lvl = [t \in Threads |-> 0]
  /\ rest = [t \in Threads |-> {}]
  /\ rank = [c \in ListSites |-> 0]
  /\ basis = [c \in Callsites |-> "none"]
  /\ maxBasis = "none"

Goto(t, label) == pc' = [pc EXCEPT ![t] = label]
From(t, label) == pc[t] = label

-----------------------------------------------------------------------------
(* DefaultCallsite::register and callsite::register                        *)

\* interest() read 0xFF and register() wins the UNREGISTERED -> REGISTERING
\* exchange.  A thread that loses it changes nothing and goes on.
Register(t, c) ==
  /\ From(t, "idle") /\ registration[c] = "UNREGISTERED"
  /\ registration' = [registration EXCEPT ![c] = "REGISTERING"]
  /\ op' = [op EXCEPT ![t] = "register"]
  /\ site' = [site EXCEPT ![t] = c]
  /\ Goto(t, "link")
  /\ UNCHANGED <<head, next, hasLocked, locked, rank, mutex, cacheVars,
                 lockVars, subscriberVars, mode, disp, val, lvl, rest>>

\* push_default: load list_head and store it in `next`.
Link(t) ==
  /\ From(t, "link")
  /\ next' = [next EXCEPT ![site[t]] = head]
  /\ Goto(t, "cas")
  /\ UNCHANGED <<head, registration, hasLocked, locked, rank, mutex, cacheVars,
                 lockVars, subscriberVars, op, mode, site, disp, val, lvl, rest>>

\* Mutant: list_head is stored without comparing it with the loaded head.
StoreHead(t) ==
  /\ From(t, "cas")
  /\ head' = site[t]
  /\ rank' = [rank EXCEPT ![site[t]] = 1]
  /\ Goto(t, "rebuilder")
  /\ UNCHANGED <<next, registration, hasLocked, locked, mutex, cacheVars,
                 lockVars, subscriberVars, op, mode, site, disp, val, lvl, rest>>

\* Mutant: a failed exchange is tried again with the head loaded before.
CasHeadStale(t) ==
  /\ From(t, "cas") /\ head = next[site[t]]
  /\ head' = site[t]
  /\ rank' = [rank EXCEPT ![site[t]] = IF head = None THEN 1
                                       ELSE rank[head] + 1]
  /\ Goto(t, "rebuilder")
  /\ UNCHANGED <<next, registration, hasLocked, locked, mutex, cacheVars,
                 lockVars, subscriberVars, op, mode, site, disp, val, lvl, rest>>

\* push_default: the compare_exchange of list_head.  A failed exchange
\* returns the current head, which is stored in `next` for another try.
CasHead(t) ==
  /\ From(t, "cas")
  /\ \/ /\ head = next[site[t]]
        /\ head' = site[t]
        /\ rank' = [rank EXCEPT ![site[t]] = IF head = None THEN 1
                                             ELSE rank[head] + 1]
        /\ Goto(t, "rebuilder")
        /\ UNCHANGED next
     \/ /\ head # next[site[t]]
        /\ next' = [next EXCEPT ![site[t]] = head]
        /\ UNCHANGED <<head, rank, pc>>
  /\ UNCHANGED <<registration, hasLocked, locked, mutex, cacheVars, lockVars,
                 subscriberVars, op, mode, site, disp, val, lvl, rest>>

\* callsite::register of another type: push_dyn holds LOCKED_CALLSITES while
\* it sets the flag and pushes.  The caller registers a callsite once.
PushDyn(t, c) ==
  /\ From(t, "idle") /\ c \notin locked /\ mutex = None
  /\ hasLocked' = TRUE
  /\ locked' = locked \cup {c}
  /\ op' = [op EXCEPT ![t] = "register"]
  /\ site' = [site EXCEPT ![t] = c]
  /\ Goto(t, "rebuilder")
  /\ UNCHANGED <<head, next, registration, rank, mutex, cacheVars, lockVars,
                 subscriberVars, mode, disp, val, lvl, rest>>

-----------------------------------------------------------------------------
(* Dispatchers::rebuilder and Dispatchers::register_dispatch               *)

RebuildInterestCache(t) ==
  /\ From(t, "idle")
  /\ op' = [op EXCEPT ![t] = "rebuild"]
  /\ Goto(t, "rebuilder")
  /\ UNCHANGED <<listVars, mutex, cacheVars, lockVars, subscriberVars,
                 mode, site, disp, val, lvl, rest>>

\* What a rebuild does once it has its Rebuilder.
AfterRebuilder(t) == IF op[t] = "register" THEN "ask" ELSE "max"

\* rebuilder(): the load of has_just_one.
Rebuilder(t) ==
  /\ From(t, "rebuilder")
  /\ mode' = [mode EXCEPT ![t] = IF hasJustOne THEN "JustOne" ELSE "Read"]
  /\ Goto(t, IF hasJustOne THEN AfterRebuilder(t) ELSE "read_lock")
  /\ UNCHANGED <<listVars, mutex, cacheVars, lockVars, subscriberVars,
                 op, site, disp, val, lvl, rest>>

\* rebuilder(): LOCKED_DISPATCHERS.read().
ReadLock(t) ==
  /\ From(t, "read_lock") /\ writer = None
  /\ readers' = readers \cup {t}
  /\ Goto(t, AfterRebuilder(t))
  /\ UNCHANGED <<listVars, mutex, cacheVars, hasJustOne, dispatchers, writer,
                 subscriberVars, op, mode, site, disp, val, lvl, rest>>

\* Dispatch::new -> register_dispatch: take the write lock, forget the
\* registrars that no longer upgrade, push the new one, store has_just_one.
\* on_register_dispatch is the subscriber's and changes nothing here.
NewDispatch(t, d) ==
  /\ From(t, "idle") /\ writer = None /\ readers = {}
  /\ d \notin live \cup dispatchers
  /\ writer' = t
  /\ live' = live \cup {d}
  /\ dispatchers' = (dispatchers \cap live) \cup {d}
  /\ hasJustOne' = (Cardinality(dispatchers') <= 1)
  /\ op' = [op EXCEPT ![t] = "dispatch"]
  /\ mode' = [mode EXCEPT ![t] = "Write"]
  /\ disp' = [disp EXCEPT ![t] = d]
  /\ Goto(t, "max")
  /\ UNCHANGED <<listVars, mutex, cacheVars, readers, wants, hint, scoped,
                 global, site, val, lvl, rest>>

-----------------------------------------------------------------------------
(* Callsites::rebuild_interest and rebuild_callsite_interest               *)

ComputeMax(t) ==
  /\ From(t, "max")
  /\ \E l \in Levels : /\ IsMaxHint(l, Consulted(t))
                        /\ lvl' = [lvl EXCEPT ![t] = l]
  /\ Goto(t, "head")
  /\ UNCHANGED <<listVars, mutex, cacheVars, lockVars, subscriberVars,
                 op, mode, site, disp, val, rest>>

\* for_each: continue with list node c, or look at has_locked_callsites.
Visit(t, c) ==
  /\ site' = [site EXCEPT ![t] = c]
  /\ Goto(t, IF c = None THEN "locked_flag" ELSE "ask")

LoadHead(t) ==
  /\ From(t, "head")
  /\ Visit(t, head)
  /\ UNCHANGED <<listVars, mutex, cacheVars, lockVars, subscriberVars,
                 op, mode, disp, val, lvl, rest>>

\* Call register_callsite on every consulted dispatcher and combine.
Ask(t) ==
  /\ From(t, "ask")
  /\ val' = [val EXCEPT ![t] = Combine(Consulted(t), site[t])]
  /\ Goto(t, "store")
  /\ UNCHANGED <<listVars, mutex, cacheVars, lockVars, subscriberVars,
                 op, mode, site, disp, lvl, rest>>

\* callsite.set_interest(interest), and on to the next callsite.
Store(t) ==
  /\ From(t, "store")
  /\ interest' = [interest EXCEPT ![site[t]] = val[t]]
  /\ basis' = [basis EXCEPT ![site[t]] =
                 IF mode[t] = "JustOne" THEN "JustOne" ELSE "Locked"]
  /\ \/ op[t] = "register" /\ Goto(t, "finish") /\ UNCHANGED <<site, mutex>>
     \/ /\ op[t] # "register" /\ site[t] \in ListSites
        /\ Visit(t, next[site[t]]) /\ UNCHANGED mutex
     \/ /\ op[t] # "register" /\ site[t] \in DynSites /\ rest[t] = {}
        /\ Goto(t, "set_max") /\ mutex' = None /\ UNCHANGED site
     \/ /\ op[t] # "register" /\ site[t] \in DynSites /\ rest[t] # {}
        /\ Goto(t, "lock_dyn") /\ UNCHANGED <<site, mutex>>
  /\ UNCHANGED <<listVars, maxLevel, maxBasis, lockVars, subscriberVars,
                 op, mode, disp, val, lvl, rest>>

\* The load of has_locked_callsites at the end of the list.
LockedFlag(t) ==
  /\ From(t, "locked_flag")
  /\ \/ ~hasLocked /\ Goto(t, "set_max") /\ UNCHANGED <<mutex, rest>>
     \/ /\ hasLocked /\ mutex = None
        /\ mutex' = t
        /\ rest' = [rest EXCEPT ![t] = locked]
        /\ Goto(t, "lock_dyn")
  /\ UNCHANGED <<listVars, cacheVars, lockVars, subscriberVars,
                 op, mode, site, disp, val, lvl>>

\* The next callsite of LOCKED_CALLSITES, which stays locked meanwhile.
\* push_dyn pushes before it unlocks, so the vector is not empty.
VisitDyn(t) ==
  /\ From(t, "lock_dyn")
  /\ \E c \in rest[t] :
       /\ rest' = [rest EXCEPT ![t] = @ \ {c}]
       /\ site' = [site EXCEPT ![t] = c]
  /\ Goto(t, "ask")
  /\ UNCHANGED <<listVars, mutex, cacheVars, lockVars, subscriberVars,
                 op, mode, disp, val, lvl>>

\* LevelFilter::set_max; the Rebuilder is dropped at the end of the call.
SetMax(t) ==
  /\ From(t, "set_max")
  /\ maxLevel' = lvl[t]
  /\ maxBasis' = IF mode[t] = "JustOne" THEN "JustOne" ELSE "Locked"
  /\ Goto(t, "finish")
  /\ UNCHANGED <<listVars, interest, basis, mutex, lockVars, subscriberVars,
                 op, mode, site, disp, val, lvl, rest>>

\* Drop the Rebuilder; DefaultCallsite::register then stores REGISTERED.
Finish(t) ==
  /\ From(t, "finish")
  /\ readers' = readers \ {t}
  /\ writer' = IF writer = t THEN None ELSE writer
  /\ registration' = IF op[t] = "register" /\ site[t] \in ListSites
                     THEN [registration EXCEPT ![site[t]] = "REGISTERED"]
                     ELSE registration
  /\ op' = [op EXCEPT ![t] = "none"]
  /\ mode' = [mode EXCEPT ![t] = "none"]
  /\ site' = [site EXCEPT ![t] = None]
  /\ disp' = [disp EXCEPT ![t] = None]
  /\ val' = [val EXCEPT ![t] = "empty"]
  /\ lvl' = [lvl EXCEPT ![t] = 0]
  /\ Goto(t, "idle")
  /\ UNCHANGED <<head, next, hasLocked, locked, rank, mutex, cacheVars,
                 hasJustOne, dispatchers, subscriberVars, rest>>

-----------------------------------------------------------------------------
(* Defaults (dispatcher.rs)                                                *)

SetDefault(t, d) ==
  /\ From(t, "idle") /\ scoped[t] = None /\ d \in live
  /\ \A u \in Threads : disp[u] # d      \* Dispatch::new has returned it
  /\ scoped' = [scoped EXCEPT ![t] = d]
  /\ UNCHANGED <<listVars, mutex, cacheVars, lockVars, live, wants, hint,
                 global, threadVars>>

DropDefaultGuard(t) ==
  /\ From(t, "idle") /\ scoped[t] # None
  /\ scoped' = [scoped EXCEPT ![t] = None]
  /\ UNCHANGED <<listVars, mutex, cacheVars, lockVars, live, wants, hint,
                 global, threadVars>>

SetGlobalDefault(t, d) ==
  /\ From(t, "idle") /\ global = None /\ d \in live
  /\ \A u \in Threads : disp[u] # d
  /\ global' = d
  /\ UNCHANGED <<listVars, mutex, cacheVars, lockVars, live, wants, hint,
                 scoped, threadVars>>

\* The last strong reference goes away.  Nothing is rebuilt.
DropDispatch(d) ==
  /\ d \in live /\ d # global
  /\ \A t \in Threads : scoped[t] # d /\ disp[t] # d
  /\ live' = live \ {d}
  /\ UNCHANGED <<listVars, mutex, cacheVars, lockVars, wants, hint, scoped,
                 global, threadVars>>

-----------------------------------------------------------------------------
\* The steps of a call that has started.
Step(t) ==
  \/ Link(t) \/ CasHead(t) \/ Rebuilder(t) \/ ReadLock(t) \/ ComputeMax(t)
  \/ LoadHead(t) \/ Ask(t) \/ Store(t) \/ LockedFlag(t) \/ VisitDyn(t)
  \/ SetMax(t) \/ Finish(t)

Next ==
  \/ \E t \in Threads :
       \/ \E c \in ListSites : Register(t, c)
       \/ \E c \in DynSites : PushDyn(t, c)
       \/ \E d \in Dispatches :
            NewDispatch(t, d) \/ SetDefault(t, d) \/ SetGlobalDefault(t, d)
       \/ RebuildInterestCache(t)
       \/ DropDefaultGuard(t)
       \/ Step(t)
  \/ \E d \in Dispatches : DropDispatch(d)

Spec == Init /\ [][Next]_vars

-----------------------------------------------------------------------------
Modes == {"none", "JustOne", "Read", "Write"}

\* The types of the variables, and the locals a program counter implies.
TypeOK ==
  /\ head \in ListSites \cup {None}
  /\ next \in [ListSites -> ListSites \cup {None}]
  /\ registration \in
       [ListSites -> {"UNREGISTERED", "REGISTERING", "REGISTERED"}]
  /\ interest \in [Callsites -> Interest \cup {"empty"}]
  /\ hasLocked \in BOOLEAN /\ locked \subseteq DynSites
  /\ mutex \in Threads \cup {None}
  /\ maxLevel \in Levels
  /\ hasJustOne \in BOOLEAN /\ dispatchers \subseteq Dispatches
  /\ writer \in Threads \cup {None} /\ readers \subseteq Threads
  /\ live \subseteq Dispatches
  /\ wants \in [Dispatches -> [Callsites -> Interest]]
  /\ hint \in [Dispatches -> Levels]
  /\ scoped \in [Threads -> Dispatches \cup {None}]
  /\ global \in Dispatches \cup {None}
  /\ pc \in [Threads -> Pcs]
  /\ op \in [Threads -> {"none", "register", "rebuild", "dispatch"}]
  /\ mode \in [Threads -> Modes]
  /\ site \in [Threads -> Callsites \cup {None}]
  /\ disp \in [Threads -> Dispatches \cup {None}]
  /\ val \in [Threads -> Interest \cup {"empty"}]
  /\ lvl \in [Threads -> Levels]
  /\ rest \in [Threads -> SUBSET DynSites]
  /\ rank \in [ListSites -> Nat]
  /\ basis \in [Callsites -> {"none", "JustOne", "Locked"}]
  /\ maxBasis \in {"none", "JustOne", "Locked"}

\* Active subscribers: Dispatch::new has returned and a strong reference is
\* left.
Active == {d \in dispatchers \cap live : \A t \in Threads : disp[t] # d}

\* An interest that lets no active subscriber miss c and asks every one that
\* is not sure: never and always are claims about all of them.
Justified(i, c, ds) ==
  i \in {"never", "always"} => \A d \in ds : wants[d][c] = i

\* What callsite.rs promises of "the Interests returned by every currently
\* active subscriber", for an interest stored by a rebuild that held the
\* dispatchers' lock: no subscriber whose Dispatch::new returned is
\* left out, whatever registrations, rebuilds and walks overlapped, and the
\* global maximum level stored under the lock hides no level of any of them.
LockedCacheJustified ==
  /\ \A c \in Callsites :
       basis[c] = "Locked" => Justified(interest[c], c, Active)
  /\ maxBasis = "Locked" => \A d \in Active : hint[d] <= maxLevel

\* The callsites whose push_default has returned.
Pushed ==
  {c \in ListSites :
     \/ registration[c] = "REGISTERED"
     \/ \E t \in Threads : /\ op[t] = "register" /\ site[t] = c
                           /\ pc[t] \notin {"link", "cas"}}

\* for_each starts from list_head and follows `next`: S has all it visits.
Walked(S) ==
  /\ head # None => head \in S
  /\ \A c \in S : next[c] # None => next[c] \in S

\* However the pushes interleave, the walk of the lock-free list finds every
\* callsite whose push_default has returned, and it ends: it stays in a set in
\* which no callsites lead to each other only.
WalkFindsAll ==
  /\ \A S \in SUBSET ListSites : Walked(S) => Pushed \subseteq S
  /\ \E W \in SUBSET ListSites :
       /\ Walked(W)
       /\ \A S \in SUBSET W : S # {} => \E c \in S : next[c] \notin S

-----------------------------------------------------------------------------
(* The strengthening that makes LockedCacheJustified inductive.            *)

\* What the locals of a thread say about where it is and what it holds.
LocalsOK ==
  \A t \in Threads :
    /\ (op[t] = "none") <=> (pc[t] = "idle")
    /\ op[t] = "none" => site[t] = None
    /\ (mode[t] = "none") <=> (pc[t] \in {"idle", "link", "cas", "rebuilder"})
    /\ (mode[t] = "Write") <=> (op[t] = "dispatch")
    /\ (mode[t] = "Write") <=> (disp[t] # None)
    /\ (mode[t] = "Write") <=> (writer = t)
    /\ (mode[t] = "Read" /\ pc[t] # "read_lock") <=> (t \in readers)
    /\ pc[t] = "read_lock" => mode[t] = "Read"
    /\ op[t] = "register" => /\ site[t] \in Callsites
                             /\ pc[t] \notin {"max", "head", "locked_flag",
                                              "lock_dyn", "set_max"}
    /\ op[t] # "register" => pc[t] \notin {"link", "cas"}
    /\ pc[t] \in {"link", "cas"} => site[t] \in ListSites
    /\ pc[t] \in {"ask", "store"} => site[t] \in Callsites
    /\ disp[t] # None => disp[t] \in dispatchers \cap live

WriterExcludes == writer # None => readers = {}

\* The list from h along nx is a chain whose ranks count down to 1; rank 0
\* is for the callsites that are not in it.
Chain(h, nx, rk) ==
  \A c \in ListSites :
    /\ h = None => rk[c] = 0
    /\ h # None => rk[c] <= rk[h] /\ rk[h] > 0
    /\ rk[c] = 1 => nx[c] = None
    /\ rk[c] > 1 => nx[c] \in ListSites /\ rk[nx[c]] = rk[c] - 1
    /\ \A e \in ListSites : rk[c] = rk[e] /\ rk[c] > 0 => c = e

\* Only callsites that are in the list or in LOCKED_CALLSITES have been given
\* an interest or are being given one, and a callsite is registered once.
ListOK ==
  /\ Chain(head, next, rank)
  /\ \A c \in ListSites :
       /\ rank[c] = 0 => basis[c] = "none"
       /\ registration[c] = "UNREGISTERED" => rank[c] = 0
  /\ \A c \in DynSites : c \notin locked => basis[c] = "none"
  /\ locked # {} => hasLocked
  /\ \A t \in Threads :
       /\ pc[t] \in {"link", "cas"} => rank[site[t]] = 0
       /\ op[t] = "register" /\ site[t] \in ListSites =>
            /\ registration[site[t]] = "REGISTERING"
            /\ \A u \in Threads :
                 op[u] = "register" /\ site[u] = site[t] => u = t
       /\ pc[t] \in {"ask", "store", "rebuilder", "read_lock"}
          /\ site[t] \in ListSites => rank[site[t]] > 0
       /\ pc[t] \in {"ask", "store"} /\ site[t] \in DynSites
            => site[t] \in locked
       /\ op[t] = "register" /\ site[t] \in DynSites => site[t] \in locked
       /\ rest[t] \subseteq locked

\* What a thread that holds the lock has computed but not stored yet.
PendingOK ==
  \A t \in Threads : mode[t] \in {"Read", "Write"} =>
    /\ pc[t] = "store" => Justified(val[t], site[t], dispatchers \cap live)
    /\ op[t] # "register" /\ pc[t] \notin {"read_lock", "max"} =>
         \A d \in dispatchers \cap live : hint[d] <= lvl[t]

\* Callsites the walk of thread t has still to visit.
Ahead(t, c) ==
  IF c \in ListSites
  THEN \/ pc[t] \in {"max", "head"}
       \/ /\ pc[t] \in {"ask", "store"} /\ site[t] \in ListSites
          /\ rank[c] <= rank[site[t]]
  ELSE \/ pc[t] \in {"max", "head", "locked_flag"}
       \/ pc[t] \in {"ask", "store"} /\ (site[t] \in ListSites \/ site[t] = c)
       \/ pc[t] \in {"ask", "store", "lock_dyn"} /\ c \in rest[t]

\* The subscriber being registered has been asked about every callsite with
\* an interest stored under the lock, or the walk is still to come there.
WalkOK ==
  \A t \in Threads : mode[t] = "Write" =>
    /\ \A c \in Callsites : basis[c] = "Locked" =>
         Ahead(t, c) \/ Justified(interest[c], c, {disp[t]})
    /\ pc[t] = "finish" /\ maxBasis = "Locked" => hint[disp[t]] <= maxLevel

IInv ==
  /\ TypeOK /\ LocalsOK /\ WriterExcludes /\ ListOK /\ PendingOK /\ WalkOK
  /\ LockedCacheJustified
=============================================================================
