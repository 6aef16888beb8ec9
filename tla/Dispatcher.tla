----------------------------- MODULE Dispatcher -----------------------------
(***************************************************************************)
(* The default dispatcher (tracing-core/src/dispatcher.rs, `std` feature). *)
(*                                                                         *)
(* A thread's default is the dispatcher of set_default or, failing that,   *)
(* the global one.  SCOPED_COUNT, shared by all threads, lets get_default  *)
(* skip the thread-local state; can_enter, private to the thread, hands    *)
(* Dispatch::none() to a get_default inside another one.                   *)
(*                                                                         *)
(* One step is one access to an atomic or to GLOBAL_DISPATCH, together     *)
(* with the accesses to thread-local state next to it and the store to     *)
(* EXISTS, which only has_been_set reads.                                  *)
(***************************************************************************)
EXTENDS Integers, Sequences, FiniteSets, FiniteSetsExt

CONSTANTS Threads, Dispatches,
          MaxDepth,   \* bound: closures of get_default nested on a thread
          MaxGuards,  \* bound: guards that are held
          MaxCount,   \* bound: set_default is not called from here on
          None,       \* no default; also Dispatch::none()
          Torn        \* GLOBAL_DISPATCH while it is being written

ASSUME DispatcherAssumption ==
  /\ {None, Torn} \cap Dispatches = {} /\ None # Torn
  /\ MaxDepth \in Nat /\ MaxGuards \in Nat /\ MaxCount \in Nat

VARIABLES
  default,         \* State::default of CURRENT_STATE
  canEnter,        \* State::can_enter
  alive,           \* CURRENT_STATE is not destroyed yet
  scopedCount,     \* SCOPED_COUNT
  exists,          \* EXISTS
  globalInit,      \* GLOBAL_INIT
  globalDispatch,  \* GLOBAL_DISPATCH
  guards,          \* DefaultGuards of a thread, oldest first; depth: the
                   \* number of closures around the place that holds it
  frames,          \* closures of get_default that are running, outermost first
  pc, arg, prior,  \* the call a thread is in, its argument, `prior`
  scoped           \* history: whether a thread used its guards as scopes

stateVars == <<default, canEnter, alive>>
globalVars == <<globalInit, globalDispatch>>
vars == <<stateVars, scopedCount, exists, globalVars, guards, frames,
          pc, arg, prior, scoped>>

Frame == [path : {"fast", "entered", "none"}, given : Dispatches \cup {None, Torn}]
Guard == [set : Dispatches, prior : Dispatches \cup {None}, depth : Nat]

Init ==
  /\ default = [t \in Threads |-> None]
  /\ canEnter = [t \in Threads |-> TRUE]
  /\ alive = [t \in Threads |-> TRUE]
  /\ scopedCount = 0 /\ exists = FALSE
  /\ globalInit = "UNINITIALIZED" /\ globalDispatch = None
  /\ guards = [t \in Threads |-> <<>>]
  /\ frames = [t \in Threads |-> <<>>]
  /\ pc = [t \in Threads |-> "idle"]
  /\ arg = [t \in Threads |-> None]
  /\ prior = [t \in Threads |-> None]
  /\ scoped = [t \in Threads |-> TRUE]

Goto(t, label) == pc' = [pc EXCEPT ![t] = label]
Last(s) == s[Len(s)]
Without(s, i) == SubSeq(s, 1, i - 1) \o SubSeq(s, i + 1, Len(s))

\* Entered::current holds a Ref to `default` for as long as the closure runs.
Borrowed(t) == \E i \in DOMAIN frames[t] : frames[t][i].path = "entered"

\* RefCell::replace panicked.  The panic is caught outside the outermost
\* closure: every Entered is dropped, and every guard that a closure holds,
\* the newest first; the n guards held outside all closures stay.
Unwind(t, held) ==
  \E n \in 0..Len(held) :
    /\ \A i \in DOMAIN held : held[i].depth = 0 <=> i <= n
    /\ frames' = [frames EXCEPT ![t] = <<>>]
    /\ canEnter' = [canEnter EXCEPT ![t] = TRUE]
    /\ guards' = [guards EXCEPT ![t] = SubSeq(held, 1, n)]
    /\ scopedCount' = scopedCount - (Len(held) - n)
    /\ default' = IF n = Len(held) THEN default
                  ELSE [default EXCEPT ![t] = held[n + 1].prior]

-----------------------------------------------------------------------------
(* get_default, get_current, get_global                                    *)

\* f(&dispatch): the closure starts.
Call(t, path, given) ==
  frames' = [frames EXCEPT ![t] = Append(@, [path |-> path, given |-> given])]

\* Mutant: can_enter is read but not cleared.
EnterKeepsFlag(t) == canEnter[t] /\ UNCHANGED canEnter

\* State::enter.
Enter(t) == canEnter[t] /\ canEnter' = [canEnter EXCEPT ![t] = FALSE]

\* Mutant: the fast path compares with a threshold that is off by one.
GetDefaultOffByOne(t) ==
  /\ pc[t] = "idle" /\ Len(frames[t]) < MaxDepth
  /\ \/ scopedCount <= 1 /\ Goto(t, "fast") /\ UNCHANGED <<canEnter, frames>>
     \/ /\ scopedCount > 1 /\ alive[t] /\ Enter(t)
        /\ IF default[t] # None
           THEN Call(t, "entered", default[t]) /\ UNCHANGED pc
           ELSE Goto(t, "entered") /\ UNCHANGED frames
     \/ /\ scopedCount > 1 /\ ~(alive[t] /\ canEnter[t])
        /\ Call(t, "none", None) /\ UNCHANGED <<canEnter, pc>>
  /\ UNCHANGED <<default, alive, scopedCount, exists, globalVars, guards,
                 arg, prior>>

\* The load of SCOPED_COUNT, and the thread-local state on the slow path.
\* get_current does the same but does not call f when it cannot enter.
GetDefault(t) ==
  /\ pc[t] = "idle" /\ Len(frames[t]) < MaxDepth
  /\ \/ scopedCount = 0 /\ Goto(t, "fast") /\ UNCHANGED <<canEnter, frames>>
     \/ /\ scopedCount # 0 /\ alive[t] /\ Enter(t)
        /\ IF default[t] # None
           THEN Call(t, "entered", default[t]) /\ UNCHANGED pc
           ELSE Goto(t, "entered") /\ UNCHANGED frames
     \/ /\ scopedCount # 0 /\ ~(alive[t] /\ canEnter[t])
        /\ Call(t, "none", None) /\ UNCHANGED <<canEnter, pc>>
  /\ UNCHANGED <<default, alive, scopedCount, exists, globalVars, guards,
                 arg, prior>>

\* get_global: the load of GLOBAL_INIT.
GetGlobal(t) ==
  /\ pc[t] \in {"fast", "entered"}
  /\ IF globalInit = "INITIALIZED"
     THEN /\ arg' = [arg EXCEPT ![t] = pc[t]]
          /\ Goto(t, "read_global") /\ UNCHANGED frames
     ELSE /\ Call(t, pc[t], None)
          /\ Goto(t, "idle") /\ UNCHANGED arg
  /\ UNCHANGED <<stateVars, scopedCount, exists, globalVars, guards, prior>>

\* get_global: the read of GLOBAL_DISPATCH.
ReadGlobal(t) ==
  /\ pc[t] = "read_global"
  /\ Call(t, arg[t], globalDispatch)
  /\ arg' = [arg EXCEPT ![t] = None]
  /\ Goto(t, "idle")
  /\ UNCHANGED <<stateVars, scopedCount, exists, globalVars, guards, prior>>

\* Guards that outlive their closure move to the one around it, the n-th.
MovedOut(held, n) ==
  [i \in DOMAIN held |->
     [held[i] EXCEPT !.depth = IF held[i].depth > n THEN n ELSE held[i].depth]]

\* The closure returns, or panics; Entered, if there is one, is dropped.
Return(t) ==
  /\ pc[t] = "idle" /\ frames[t] # <<>>
  /\ frames' = [frames EXCEPT ![t] = Without(@, Len(@))]
  /\ guards' = [guards EXCEPT ![t] = MovedOut(@, Len(frames[t]) - 1)]
  /\ canEnter' = IF Last(frames[t]).path = "entered"
                 THEN [canEnter EXCEPT ![t] = TRUE] ELSE canEnter
  /\ UNCHANGED <<default, alive, scopedCount, exists, globalVars,
                 pc, arg, prior>>

-----------------------------------------------------------------------------
(* set_default and DefaultGuard                                            *)

\* Guards that are held, or about to be.
Held == MapThenSumSet(LAMBDA t : Len(guards[t]), Threads)
        + Cardinality({t \in Threads : pc[t] = "count"})

\* State::set_default sets can_enter and replaces the default, which panics
\* inside a closure that borrows it.
SetDefault(t, d) ==
  /\ pc[t] = "idle" /\ Held < MaxGuards /\ scopedCount < MaxCount
  /\ \/ /\ alive[t] /\ Borrowed(t)
        /\ Unwind(t, guards[t])
        /\ UNCHANGED <<exists, pc, arg, prior>>
     \/ /\ alive[t] /\ ~Borrowed(t)
        /\ canEnter' = [canEnter EXCEPT ![t] = TRUE]
        /\ default' = [default EXCEPT ![t] = d]
        /\ prior' = [prior EXCEPT ![t] = default[t]]
        /\ arg' = [arg EXCEPT ![t] = d]
        /\ exists' = TRUE
        /\ Goto(t, "count")
        /\ UNCHANGED <<scopedCount, guards, frames>>
     \/ /\ ~alive[t]
        /\ prior' = [prior EXCEPT ![t] = None]
        /\ arg' = [arg EXCEPT ![t] = d]
        /\ exists' = TRUE
        /\ Goto(t, "count")
        /\ UNCHANGED <<default, canEnter, scopedCount, guards, frames>>
  /\ UNCHANGED <<alive, globalVars>>

\* SCOPED_COUNT.fetch_add(1); the guard is returned.
IncrementScoped(t) ==
  /\ pc[t] = "count"
  /\ scopedCount' = scopedCount + 1
  /\ guards' = [guards EXCEPT ![t] = Append(@,
        [set |-> arg[t], prior |-> prior[t], depth |-> Len(frames[t])])]
  /\ arg' = [arg EXCEPT ![t] = None]
  /\ prior' = [prior EXCEPT ![t] = None]
  /\ Goto(t, "idle")
  /\ UNCHANGED <<stateVars, exists, globalVars, frames>>

\* DefaultGuard::drop of the i-th guard: a panic of `replace` skips the
\* decrement of SCOPED_COUNT.
DropGuard(t, i) ==
  /\ pc[t] = "idle"
  /\ LET rest == Without(guards[t], i)
     IN  \/ /\ alive[t] /\ Borrowed(t)
            /\ Unwind(t, rest) /\ UNCHANGED pc
         \/ /\ ~(alive[t] /\ Borrowed(t))
            /\ default' = IF alive[t]
                          THEN [default EXCEPT ![t] = guards[t][i].prior]
                          ELSE default
            /\ guards' = [guards EXCEPT ![t] = rest]
            /\ Goto(t, "uncount")
            /\ UNCHANGED <<canEnter, frames, scopedCount>>
  /\ UNCHANGED <<alive, exists, globalVars, arg, prior>>

\* SCOPED_COUNT.fetch_sub(1).
DecrementScoped(t) ==
  /\ pc[t] = "uncount"
  /\ scopedCount' = scopedCount - 1
  /\ Goto(t, "idle")
  /\ UNCHANGED <<stateVars, exists, globalVars, guards, frames, arg, prior>>

\* DefaultGuard is Send: the program may hand it to another thread.
SendGuard(t, u, i) ==
  /\ pc[t] = "idle" /\ pc[u] = "idle" /\ t # u
  /\ guards' = [guards EXCEPT
       ![t] = Without(@, i),
       ![u] = Append(@, [guards[t][i] EXCEPT !.depth = Len(frames[u])])]
  /\ UNCHANGED <<stateVars, scopedCount, exists, globalVars, frames,
                 pc, arg, prior>>

\* The thread's locals are destroyed; its other destructors still run.
ThreadExit(t) ==
  /\ pc[t] = "idle" /\ frames[t] = <<>> /\ alive[t]
  /\ alive' = [alive EXCEPT ![t] = FALSE]
  /\ default' = [default EXCEPT ![t] = None]
  /\ UNCHANGED <<canEnter, scopedCount, exists, globalVars, guards, frames,
                 pc, arg, prior>>

-----------------------------------------------------------------------------
(* set_global_default                                                      *)

\* Mutant: GLOBAL_INIT is INITIALIZED before GLOBAL_DISPATCH is written.
SetGlobalDefaultEarly(t, d) ==
  /\ pc[t] = "idle" /\ globalInit = "UNINITIALIZED"
  /\ globalInit' = "INITIALIZED"
  /\ arg' = [arg EXCEPT ![t] = d]
  /\ Goto(t, "write_global")
  /\ UNCHANGED <<stateVars, scopedCount, exists, globalDispatch, guards,
                 frames, prior>>

\* The compare_exchange of GLOBAL_INIT; a failed one returns an error.
SetGlobalDefault(t, d) ==
  /\ pc[t] = "idle" /\ globalInit = "UNINITIALIZED"
  /\ globalInit' = "INITIALIZING"
  /\ arg' = [arg EXCEPT ![t] = d]
  /\ Goto(t, "write_global")
  /\ UNCHANGED <<stateVars, scopedCount, exists, globalDispatch, guards,
                 frames, prior>>

\* The assignment to GLOBAL_DISPATCH is several writes.
WriteGlobal(t) ==
  /\ pc[t] = "write_global"
  /\ \/ globalDispatch = None /\ globalDispatch' = Torn /\ UNCHANGED pc
     \/ /\ globalDispatch = Torn /\ globalDispatch' = arg[t]
        /\ Goto(t, "store_global")
  /\ UNCHANGED <<stateVars, scopedCount, exists, globalInit, guards, frames,
                 arg, prior>>

\* GLOBAL_INIT.store(INITIALIZED).
InitializedGlobal(t) ==
  /\ pc[t] = "store_global"
  /\ globalInit' = "INITIALIZED" /\ exists' = TRUE
  /\ arg' = [arg EXCEPT ![t] = None]
  /\ Goto(t, "idle")
  /\ UNCHANGED <<stateVars, scopedCount, globalDispatch, guards, frames, prior>>

-----------------------------------------------------------------------------
\* Guards that live as long as a block, as with with_default: the newest is
\* dropped first, in the closure it was made in, and nothing panics.
InScope(t) ==
  /\ Len(guards'[t]) < Len(guards[t]) =>
       /\ guards'[t] = Without(guards[t], Len(guards[t])) /\ pc'[t] = "uncount"
       /\ Last(guards[t]).depth = Len(frames[t]) /\ frames' = frames
  /\ Len(frames'[t]) < Len(frames[t]) =>
       guards[t] = <<>> \/ Last(guards[t]).depth < Len(frames[t])
  /\ Len(guards'[t]) > Len(guards[t]) => pc[t] = "count"

Step(t) ==
  \/ GetDefault(t) \/ GetGlobal(t) \/ ReadGlobal(t) \/ Return(t)
  \/ \E d \in Dispatches : SetDefault(t, d) \/ SetGlobalDefault(t, d)
  \/ IncrementScoped(t) \/ DecrementScoped(t)
  \/ ThreadExit(t)
  \/ WriteGlobal(t) \/ InitializedGlobal(t)
  \/ \E i \in DOMAIN guards[t] :
       DropGuard(t, i) \/ \E u \in Threads : SendGuard(t, u, i)

Next ==
  /\ \E t \in Threads : Step(t)
  /\ scoped' = [u \in Threads |-> scoped[u] /\ InScope(u)]

Spec == Init /\ [][Next]_vars

-----------------------------------------------------------------------------
\* The types of the variables.
TypeOK ==
  /\ default \in [Threads -> Dispatches \cup {None}]
  /\ canEnter \in [Threads -> BOOLEAN] /\ alive \in [Threads -> BOOLEAN]
  /\ scopedCount \in Nat /\ exists \in BOOLEAN
  /\ globalInit \in {"UNINITIALIZED", "INITIALIZING", "INITIALIZED"}
  /\ globalDispatch \in Dispatches \cup {None, Torn}
  /\ guards \in [Threads -> Seq(Guard)] /\ frames \in [Threads -> Seq(Frame)]
  /\ arg \in [Threads -> Dispatches \cup {None, "fast", "entered"}]
  /\ pc \in [Threads -> {"idle", "fast", "entered", "read_global", "count",
                         "uncount", "write_global", "store_global"}]
  /\ prior \in [Threads -> Dispatches \cup {None}]
  /\ scoped \in [Threads -> BOOLEAN]

\* The dispatcher a thread's own guards call for.
Innermost(t) == IF guards[t] = <<>> THEN None ELSE Last(guards[t]).set

\* "Sets the dispatch as the default dispatch for the duration of the lifetime
\* of the returned DefaultGuard" (set_default): a closure started by a thread
\* that holds a guard, and uses its guards as scopes whatever the other
\* threads do with theirs, runs with the newest guard's dispatcher, unless it is
\* nested in another closure that runs with it.  The counter that the other
\* threads increment and decrement never sends it to the global default.
DeliversScoped ==
  [][\A t \in Threads :
       /\ Len(frames'[t]) > Len(frames[t])
       /\ scoped[t] /\ alive[t] /\ guards[t] # <<>> /\ ~Borrowed(t)
       => Last(frames'[t]).given = Innermost(t)]_vars

\* No thread runs with a default that it did not set: without a guard of its
\* own it gets the global default or none, never another thread's or one
\* whose guard is gone, and never a half-written global.
NeverForeign ==
  [][\A t \in Threads :
       Len(frames'[t]) > Len(frames[t]) /\ scoped[t] /\ guards[t] = <<>> =>
         Last(frames'[t]).given \in
           {None} \cup IF globalInit = "INITIALIZED"
                       THEN {globalDispatch} \ {Torn} ELSE {}]_vars

\* At most one closure at a time runs with a thread's scoped dispatcher:
\* can_enter is false exactly while it does, panics included, so a subscriber
\* never calls itself through the slow path.
NoReentry ==
  \A t \in Threads :
    LET entered == {i \in DOMAIN frames[t] : frames[t][i].path = "entered"}
    IN  /\ Cardinality(entered) <= 1
        /\ pc[t] = "idle" => (canEnter[t] <=> entered = {})
=============================================================================
