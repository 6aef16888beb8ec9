----------------------------- MODULE NonBlocking -----------------------------
(***************************************************************************)
(* The non-blocking writer of tracing-appender (non_blocking.rs,           *)
(* worker.rs): producers send lines into a bounded channel, one worker     *)
(* thread writes them in batches, and dropping the WorkerGuard sends       *)
(* Shutdown and waits, with timeouts, for the worker.                      *)
(*                                                                         *)
(* The channel (crossbeam, external) is the part of `log` that the worker  *)
(* has not taken.  One step is one channel operation with the write that   *)
(* follows it, one access to the error counter, or one flush.              *)
(***************************************************************************)
EXTENDS Integers, Sequences, FiniteSets

CONSTANTS Producers,
          Limit,       \* buffered_lines_limit
          MaxCounter,  \* usize::MAX
          MaxLines,    \* bound: lines of one producer
          MaxFaults    \* bound: errors of the wrapped writer

ASSUME NonBlockingAssumption ==
  /\ Limit \in Nat \ {0}
  /\ MaxCounter \in Nat \ {0} /\ MaxLines \in Nat /\ MaxFaults \in Nat
  /\ IsFiniteSet(Producers)

VARIABLES
  isLossy,  \* is_lossy, chosen with the builder
  log,      \* every message the channel took, oldest first
  taken,    \* how many of them the worker received
  failed,   \* positions whose write_all returned an error
  durable,  \* all before this one that were written are flushed too
  worker,   \* recv, try_recv, flush, shutdown (waits), final, done
  state,    \* worker_state
  guard,    \* held, closing (sends Shutdown), waiting, acknowledged, abandoned
  handle,   \* whether a producer has its NonBlocking
  pc,       \* of a producer: idle, sending, load, cas
  curr,     \* curr in incr_saturating
  counter,  \* ErrorCounter
  sent,     \* lines a producer wrote
  dropped,  \* history: lines that were refused
  faults    \* errors of the writer so far

logVars == <<log, taken>>
ioVars == <<failed, durable, faults>>
counterVars == <<curr, counter, dropped>>
producerVars == <<handle, pc, sent>>
vars == <<isLossy, logVars, ioVars, worker, state, guard, producerVars, counterVars>>

Line(p, n) == [from |-> p, seq |-> n]
Lines == [from : Producers, seq : 1..MaxLines]
Shutdown == [from |-> "guard", seq |-> 0]

Init ==
  /\ isLossy \in BOOLEAN
  /\ log = <<>> /\ taken = 0
  /\ failed = {} /\ durable = 0 /\ faults = 0
  /\ worker = "recv" /\ state = "Empty" /\ guard = "held"
  /\ handle = [p \in Producers |-> TRUE]
  /\ pc = [p \in Producers |-> "idle"]
  /\ sent = [p \in Producers |-> 0]
  /\ curr = [p \in Producers |-> 0]
  /\ counter = 0 /\ dropped = 0

Full == Len(log) - taken >= Limit

\* Some Sender is left; and the Receiver lives as long as the thread.
Connected ==
  guard \in {"held", "closing", "waiting"} \/ \E p \in Producers : handle[p]

Received == worker # "done"

Goto(p, label) == pc' = [pc EXCEPT ![p] = label]

-----------------------------------------------------------------------------
(* The producers                                                           *)

\* write: the line is offered.
Write(p) ==
  /\ pc[p] = "idle" /\ handle[p] /\ sent[p] < MaxLines
  /\ sent' = [sent EXCEPT ![p] = @ + 1]
  /\ Goto(p, "sending")
  /\ UNCHANGED <<logVars, ioVars, worker, state, guard, handle, counterVars>>

\* send, which waits while the channel is full; or a try_send that succeeds.
Send(p) ==
  /\ pc[p] = "sending" /\ ~Full /\ Received
  /\ log' = Append(log, Line(p, sent[p]))
  /\ Goto(p, "idle")
  /\ UNCHANGED <<taken, ioVars, worker, state, guard, handle, sent, counterVars>>

\* try_send fails.
Refuse(p) ==
  /\ isLossy /\ pc[p] = "sending" /\ (Full \/ ~Received)
  /\ dropped' = dropped + 1
  /\ Goto(p, "load")
  /\ UNCHANGED <<logVars, ioVars, worker, state, guard, handle, sent, curr,
                 counter>>

\* send fails: write returns an error.
SendError(p) ==
  /\ ~isLossy /\ pc[p] = "sending" /\ ~Received
  /\ Goto(p, "idle")
  /\ UNCHANGED <<logVars, ioVars, worker, state, guard, handle, sent,
                 counterVars>>

\* incr_saturating: the first load.
LoadCounter(p) ==
  /\ pc[p] = "load"
  /\ curr' = [curr EXCEPT ![p] = counter]
  /\ Goto(p, IF counter = MaxCounter THEN "idle" ELSE "cas")
  /\ UNCHANGED <<logVars, ioVars, worker, state, guard, handle, sent, counter,
                 dropped>>

SaturatingAdd(n) == IF n < MaxCounter THEN n + 1 ELSE n

\* Mutant: a store instead of a compare_exchange.
CasStores(p) ==
  /\ pc[p] = "cas"
  /\ counter' = SaturatingAdd(curr[p]) /\ Goto(p, "idle") /\ UNCHANGED curr
  /\ UNCHANGED <<logVars, ioVars, worker, state, guard, handle, sent, dropped>>

\* incr_saturating: one turn of the loop.
Cas(p) ==
  /\ pc[p] = "cas"
  /\ IF counter = curr[p]
     THEN counter' = SaturatingAdd(curr[p]) /\ Goto(p, "idle") /\ UNCHANGED curr
     ELSE curr' = [curr EXCEPT ![p] = counter] /\ UNCHANGED <<counter, pc>>
  /\ UNCHANGED <<logVars, ioVars, worker, state, guard, handle, sent, dropped>>

\* A producer drops its NonBlocking, or gets one from make_writer.
DropHandle(p) ==
  /\ pc[p] = "idle" /\ handle[p]
  /\ handle' = [handle EXCEPT ![p] = FALSE]
  /\ UNCHANGED <<logVars, ioVars, worker, state, guard, pc, sent, counterVars>>

MakeWriter(p) ==
  /\ ~handle[p] /\ \E q \in Producers : handle[q]
  /\ handle' = [handle EXCEPT ![p] = TRUE]
  /\ UNCHANGED <<logVars, ioVars, worker, state, guard, pc, sent, counterVars>>

-----------------------------------------------------------------------------
(* The worker                                                              *)

Fault == faults < MaxFaults /\ faults' = faults + 1

\* recv and try_recv, with handle_recv and handle_try_recv: an error of
\* write_all leaves work() at once.
Receive ==
  /\ worker \in {"recv", "try_recv"} /\ taken < Len(log)
  /\ taken' = taken + 1
  /\ \/ /\ log[taken + 1] = Shutdown
        /\ worker' = "flush" /\ state' = "Shutdown" /\ UNCHANGED ioVars
     \/ /\ log[taken + 1] # Shutdown
        /\ worker' = "try_recv" /\ state' = "Continue" /\ UNCHANGED ioVars
     \/ /\ log[taken + 1] # Shutdown /\ Fault
        /\ failed' = failed \cup {taken + 1}
        /\ worker' = "recv" /\ UNCHANGED <<state, durable>>
  /\ UNCHANGED <<log, guard, producerVars, counterVars>>

\* Mutant: a channel without Senders is only empty.
ReceiveNoneEmpty ==
  /\ worker \in {"recv", "try_recv"} /\ taken = Len(log)
  /\ worker = "try_recv" \/ ~Connected
  /\ worker' = "flush" /\ state' = "Empty"
  /\ UNCHANGED <<logVars, ioVars, guard, producerVars, counterVars>>

\* The channel is empty: recv waits for a Sender, try_recv does not.
ReceiveNone ==
  /\ worker \in {"recv", "try_recv"} /\ taken = Len(log)
  /\ worker = "try_recv" \/ ~Connected
  /\ worker' = "flush"
  /\ state' = IF Connected THEN "Empty" ELSE "Disconnected"
  /\ UNCHANGED <<logVars, ioVars, guard, producerVars, counterVars>>

\* Mutant: the worker reports the shutdown when the flush has failed.
FlushIgnoresError ==
  /\ worker = "flush"
  /\ \/ /\ durable' = taken /\ UNCHANGED <<failed, faults>>
        /\ worker' = IF state = "Empty" THEN "recv" ELSE "shutdown"
     \/ /\ Fault /\ UNCHANGED <<failed, durable>>
        /\ worker' = IF state = "Empty" THEN "recv" ELSE "shutdown"
  /\ UNCHANGED <<logVars, state, guard, producerVars, counterVars>>

\* The flush that ends work(), and the match on its result: after an error the
\* loop goes on, whatever worker_state was.
Flush ==
  /\ worker = "flush"
  /\ \/ /\ durable' = taken /\ UNCHANGED <<failed, faults>>
        /\ worker' = IF state = "Empty" THEN "recv" ELSE "shutdown"
     \/ /\ Fault /\ UNCHANGED <<failed, durable>>
        /\ worker' = "recv"
  /\ UNCHANGED <<logVars, state, guard, producerVars, counterVars>>

\* shutdown.recv() of a guard that is gone.
ShutdownAlone ==
  /\ worker = "shutdown" /\ guard \in {"acknowledged", "abandoned"}
  /\ worker' = "final"
  /\ UNCHANGED <<logVars, ioVars, state, guard, producerVars, counterVars>>

\* The last flush; then the thread ends and drops the Receiver.
FinalFlush ==
  /\ worker = "final" /\ worker' = "done"
  /\ \/ durable' = taken /\ UNCHANGED <<failed, faults>>
     \/ Fault /\ UNCHANGED <<failed, durable>>
  /\ UNCHANGED <<logVars, state, guard, producerVars, counterVars>>

-----------------------------------------------------------------------------
(* The guard                                                               *)

\* Drop for WorkerGuard begins.
DropGuard ==
  /\ guard = "held" /\ guard' = "closing"
  /\ UNCHANGED <<logVars, ioVars, worker, state, producerVars, counterVars>>

\* send_timeout(Shutdown).  The worker lives while the guard has its Sender, so
\* that Disconnected cannot be the answer.
SendShutdown ==
  /\ guard = "closing" /\ ~Full
  /\ log' = Append(log, Shutdown) /\ guard' = "waiting"
  /\ UNCHANGED <<taken, ioVars, worker, state, producerVars, counterVars>>

\* shutdown.send_timeout(()) meets shutdown.recv().
Rendezvous ==
  /\ guard = "waiting" /\ worker = "shutdown"
  /\ guard' = "acknowledged" /\ worker' = "final"
  /\ UNCHANGED <<logVars, ioVars, state, producerVars, counterVars>>

\* Either send times out: the first waits for room, the second for the worker.
TimeOut ==
  /\ \/ guard = "closing" /\ Full
     \/ guard = "waiting" /\ worker # "shutdown"
  /\ guard' = "abandoned"
  /\ UNCHANGED <<logVars, ioVars, worker, state, producerVars, counterVars>>

-----------------------------------------------------------------------------
Produce(p) == Send(p) \/ Refuse(p) \/ SendError(p) \/ LoadCounter(p) \/ Cas(p)
Work == Receive \/ ReceiveNone \/ Flush \/ ShutdownAlone \/ FinalFlush
Close == SendShutdown \/ Rendezvous \/ TimeOut

\* Once the worker has ended the program need not write any more.
Finished == worker = "done" /\ UNCHANGED vars

Step ==
  \/ \E p \in Producers :
       Write(p) \/ Produce(p) \/ DropHandle(p) \/ MakeWriter(p)
  \/ Work \/ DropGuard \/ Close \/ Finished

Next == Step /\ UNCHANGED isLossy

Spec == Init /\ [][Next]_vars

\* Threads that can go on do, and no lock is held while they wait.
FairSpec ==
  /\ Spec
  /\ WF_vars(Work /\ UNCHANGED isLossy) /\ WF_vars(Close /\ UNCHANGED isLossy)
  /\ \A p \in Producers : WF_vars(Produce(p) /\ UNCHANGED isLossy)

-----------------------------------------------------------------------------
Gone == guard \in {"acknowledged", "abandoned"}

\* The types of the variables; a counter that saturates stays within usize.
TypeOK ==
  /\ isLossy \in BOOLEAN
  /\ log \in Seq(Lines \cup {Shutdown}) /\ taken \in 0..Len(log)
  /\ failed \subseteq 1..taken /\ durable \in 0..taken /\ faults \in 0..MaxFaults
  /\ worker \in {"recv", "try_recv", "flush", "shutdown", "final", "done"}
  /\ state \in {"Empty", "Disconnected", "Continue", "Shutdown"}
  /\ guard \in {"held", "closing", "waiting", "acknowledged", "abandoned"}
  /\ handle \in [Producers -> BOOLEAN]
  /\ pc \in [Producers -> {"idle", "sending", "load", "cas"}]
  /\ sent \in [Producers -> 0..MaxLines]
  /\ curr \in [Producers -> 0..MaxCounter]
  /\ counter \in 0..MaxCounter /\ dropped \in Nat

Min2(a, b) == IF a <= b THEN a ELSE b

\* Producers that have not counted a refused line yet.
Counting == {p \in Producers : pc[p] \in {"load", "cas"}}

\* "Returns the number of log lines that have been dropped" (dropped_lines): no
\* increment is lost to a concurrent one and none wraps; and "if the
\* non-blocking writer is not configured in lossy mode, the error count should
\* always be 0".
CounterExact ==
  /\ counter = Min2(MaxCounter, dropped - Cardinality(Counting))
  /\ ~isLossy => counter = 0

\* A guard whose second send succeeds has waited "for `Worker` to flush all
\* messages": every line the channel took before Shutdown is flushed, unless
\* its own write failed, although errors make the worker start over.
AckFlushed ==
  guard = "acknowledged" =>
    \E m \in 1..durable :
      log[m] = Shutdown /\ \A i \in 1..m - 1 : i <= taken /\ log[i] # Shutdown

\* The refinement mapping to LineLog.
Promise == INSTANCE LineLog
             WITH Last <- Shutdown, settled <- durable,
                  guard <- IF guard = "closing" THEN "held" ELSE guard

\* The writer keeps what LineLog promises, errors of the writer included.
ImplementsLineLog == Promise!Spec

\* With a writer that never fails, every line the channel took while the guard
\* was held is flushed at some time: the worker never sleeps on lines it wrote.
Drained ==
  \A i \in 1..MaxLines * Cardinality(Producers) :
    guard = "held" /\ i <= Len(log) ~> i <= durable \/ faults > 0

\* Backpressure ends: a write that waits for room gets it, or an error when the
\* worker is gone.
SendsFinish == \A p \in Producers : pc[p] = "sending" ~> pc[p] = "idle"

\* "Creates a worker thread that processes a channel until it's disconnected":
\* without guard and producers the thread ends, also when a failed flush made
\* it forget the Shutdown it had received.
WorkerEnds ==
  <>[](Gone /\ \A p \in Producers : ~handle[p]) => <>(worker = "done")

\* Lines reach the disk, producers come back from write, and the thread of the
\* worker (worker_thread) ends.
Progress == Drained /\ SendsFinish /\ WorkerEnds
==============================================================================
