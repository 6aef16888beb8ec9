---------------------------- MODULE MCCallsites ----------------------------
(* Instances of Callsites for TLC.                                         *)
EXTENDS Callsites

CONSTANTS t1, t2, c1, c2, c3, d1, d2

\* d1 wants nothing and d2 everything, or they agree on one callsite only.
MCOpinions ==
  { [d \in Dispatches |-> [c \in Callsites |->
       IF d = d1 THEN "never" ELSE "always"]],
    [d \in Dispatches |-> [c \in Callsites |->
       IF d = d1 /\ c = c1 THEN "always" ELSE "sometimes"]] }

MCOneOpinion ==
  { [d \in Dispatches |-> [c \in Callsites |->
       IF d = d1 THEN "never" ELSE "always"]] }

MCHints == { [d \in Dispatches |-> IF d = d1 THEN 1 ELSE 2] }

-----------------------------------------------------------------------------
(* Two programs, with the locks of both.  One has a callsite and uses      *)
(* subscribers in every way; the other has three callsites, one of them    *)
(* dynamic, and subscribers that stay and are no defaults.                 *)

VARIABLE program

MCInit ==
  /\ Init /\ program \in {"subscribers", "callsites"}
  /\ program = "callsites" => wants \in MCOneOpinion

SubscribersNext ==
  \/ \E t \in Threads :
       \/ Register(t, c1)
       \/ \E d \in Dispatches :
            NewDispatch(t, d) \/ SetDefault(t, d) \/ SetGlobalDefault(t, d)
       \/ RebuildInterestCache(t) \/ DropDefaultGuard(t) \/ Step(t)
  \/ \E d \in Dispatches : DropDispatch(d)

CallsitesNext ==
  \E t \in Threads :
    \/ \E c \in ListSites : Register(t, c)
    \/ \E c \in DynSites : PushDyn(t, c)
    \/ \E d \in Dispatches : NewDispatch(t, d)
    \/ RebuildInterestCache(t) \/ Step(t)

MCNext ==
  /\ \/ program = "subscribers" /\ SubscribersNext
     \/ program = "callsites" /\ CallsitesNext
  /\ UNCHANGED program

MCvars == <<vars, program>>

\* A thread that is inside a call keeps being scheduled.
MCSpec ==
  /\ MCInit /\ [][MCNext]_MCvars
  /\ \A t \in Threads : WF_MCvars(Step(t) /\ UNCHANGED program)

StartsCall == \E t \in Threads : pc[t] = "idle" /\ pc'[t] # "idle"

\* The dispatchers' lock, the lock of LOCKED_CALLSITES and the retries of
\* push_default never make a call hang: once the program stops making calls,
\* all the calls under way return.
CallsReturn ==
  <>[][~StartsCall]_MCvars => <>[](\A t \in Threads : pc[t] = "idle")
=============================================================================
