-------------------------- MODULE NonBlockingProofs --------------------------
(***************************************************************************)
(* Proofs about NonBlocking, for any number of producers and lines, any    *)
(* limit of the channel and any number of I/O errors: an acknowledged      *)
(* guard leaves nothing unflushed, and the writer implements LineLog.      *)
(***************************************************************************)
EXTENDS NonBlocking, FiniteSetTheorems, TLAPS

\* A producer that sends has a line to send.
TInv == TypeOK /\ \A p \in Producers : pc[p] = "sending" => sent[p] > 0

\* Where the guard's Shutdown is in the channel.
ShutdownAt(m) == m \in 1..Len(log) /\ log[m] = Shutdown

\* The one Shutdown is in the log exactly after the guard has sent it; a worker
\* that has left its loop was sent there by it or by a guard that is gone.
AInv ==
  /\ guard \in {"held", "closing"} => \A m : ~ShutdownAt(m)
  /\ guard = "waiting" => \E m : ShutdownAt(m)
  /\ \A m, n : ShutdownAt(m) /\ ShutdownAt(n) => m = n
  /\ worker = "flush" => state # "Continue"
  /\ worker \in {"flush", "shutdown"} /\ state = "Shutdown" =>
       \E m \in 1..taken : ShutdownAt(m)
  /\ worker \in {"flush", "shutdown"} /\ state = "Disconnected" => Gone
  /\ worker = "shutdown" => state \in {"Shutdown", "Disconnected"} /\ durable = taken
  /\ worker \in {"final", "done"} => Gone
  /\ guard = "acknowledged" => \E m \in 1..durable : ShutdownAt(m)

\* The invariants hold when the writer is created.
LEMMA InitInv == Init => TInv /\ AInv
  BY NonBlockingAssumption
  DEF Init, TInv, AInv, TypeOK, ShutdownAt, Gone, Lines

\* A line is not the guard's message: its number is not 0.
LEMMA LineNotShutdown ==
  ASSUME NEW p \in Producers, NEW n \in 1..MaxLines
  PROVE  Line(p, n) \in Lines /\ Line(p, n) # Shutdown
  BY DEF Line, Lines, Shutdown

\* What Send puts into the log.
LEMMA SendAppends ==
  ASSUME TInv, NEW p \in Producers, Send(p)
  PROVE  \E m \in Lines : m # Shutdown /\ log' = Append(log, m)
<1>1. sent[p] \in 1..MaxLines
  BY NonBlockingAssumption DEF TInv, TypeOK, Send
<1> QED BY <1>1, LineNotShutdown DEF Send

\* Every step keeps the types.
LEMMA TStep == TInv /\ [Next]_vars => TInv'
<1> SUFFICES ASSUME TInv, [Next]_vars PROVE TInv'
  OBVIOUS
<1>0. UNCHANGED isLossy
  BY DEF Next, vars
<1> USE NonBlockingAssumption, <1>0
<1>1. ASSUME NEW p \in Producers, Send(p) PROVE TInv'
  <2>1. PICK m \in Lines : log' = Append(log, m)
    BY <1>1, SendAppends
  <2> QED BY <1>1, <2>1 DEF Send, TInv, TypeOK, ioVars, counterVars, Goto
<1>2. ASSUME NEW p \in Producers, Write(p) PROVE TInv'
  BY <1>2 DEF Write, TInv, TypeOK, Goto, logVars, ioVars, counterVars
<1>3. ASSUME NEW p \in Producers, Refuse(p) PROVE TInv'
  BY <1>3 DEF Refuse, TInv, TypeOK, Goto, logVars, ioVars
<1>13. ASSUME NEW p \in Producers, SendError(p) PROVE TInv'
  BY <1>13 DEF SendError, TInv, TypeOK, Goto, logVars, ioVars, counterVars
<1>4. ASSUME NEW p \in Producers, LoadCounter(p) PROVE TInv'
  BY <1>4 DEF LoadCounter, TInv, TypeOK, Goto, logVars, ioVars
<1>5. ASSUME NEW p \in Producers, Cas(p) PROVE TInv'
  <2>1. CASE counter = curr[p]
    <3>1. counter' \in 0..MaxCounter
      BY <1>5, <2>1 DEF Cas, SaturatingAdd, TInv, TypeOK
    <3> QED BY Zenon, <1>5, <2>1, <3>1 DEF Cas, TInv, TypeOK, Goto, logVars, ioVars
  <2>2. CASE counter # curr[p]
    BY Zenon, <1>5, <2>2 DEF Cas, TInv, TypeOK, logVars, ioVars
  <2> QED BY <2>1, <2>2
<1>6. ASSUME NEW p \in Producers, DropHandle(p) \/ MakeWriter(p) PROVE TInv'
  BY Zenon, <1>6 DEF DropHandle, MakeWriter, TInv, TypeOK, logVars, ioVars, counterVars
<1>7. CASE Receive
  <2>1. /\ taken' \in 0..Len(log') /\ failed' \subseteq 1..taken'
        /\ durable' \in 0..taken' /\ faults' \in 0..MaxFaults
    <3>1. taken' = taken + 1 /\ taken < Len(log) /\ log' = log
      BY <1>7 DEF Receive
    <3>2. CASE UNCHANGED ioVars
      BY <3>1, <3>2 DEF TInv, TypeOK, ioVars
    <3>3. CASE failed' = failed \cup {taken + 1} /\ Fault /\ UNCHANGED durable
      BY <3>1, <3>3 DEF Fault, TInv, TypeOK
    <3> QED BY <1>7, <3>2, <3>3 DEF Receive
  <2> QED BY <1>7, <2>1 DEF Receive, TInv, TypeOK, producerVars, counterVars
<1>8. CASE ReceiveNone
  BY <1>8 DEF ReceiveNone, TInv, TypeOK, logVars, ioVars, producerVars, counterVars
<1>9. CASE Flush \/ FinalFlush
  <2>1. /\ UNCHANGED <<logVars, failed, state, guard, producerVars, counterVars>>
        /\ durable' \in 0..taken /\ faults' \in 0..MaxFaults
        /\ worker' \in {"recv", "shutdown", "done"}
    BY <1>9 DEF Flush, FinalFlush, Fault, TInv, TypeOK
  <2> QED BY <2>1 DEF TInv, TypeOK, logVars, producerVars, counterVars
<1>10. CASE ShutdownAlone \/ DropGuard \/ Rendezvous \/ TimeOut
  BY Zenon, <1>10 DEF ShutdownAlone, DropGuard, Rendezvous, TimeOut, TInv, TypeOK,
     logVars, ioVars, producerVars, counterVars
<1>11. CASE SendShutdown
  BY <1>11 DEF SendShutdown, TInv, TypeOK, ioVars, producerVars, counterVars
<1>12. CASE UNCHANGED vars
  BY <1>12 DEF TInv, TypeOK, vars, logVars, ioVars, producerVars, counterVars
<1> QED
  BY <1>1, <1>2, <1>3, <1>4, <1>5, <1>6, <1>7, <1>8, <1>9, <1>10, <1>11, <1>12, <1>13
  DEF Next, Step, Produce, Work, Close, Finished

\* What a message at the end does to the positions of Shutdown.
LEMMA AppendShutdownAt ==
  ASSUME TInv, NEW m \in Lines \cup {Shutdown}, log' = Append(log, m)
  PROVE  /\ \A i : ShutdownAt(i) => ShutdownAt(i)'
         /\ \A i : ShutdownAt(i)' =>
              ShutdownAt(i) \/ (i = Len(log) + 1 /\ m = Shutdown)
         /\ m = Shutdown => ShutdownAt(Len(log))'
<1>1. log \in Seq(Lines \cup {Shutdown})
  BY DEF TInv, TypeOK
<1>2. /\ Len(log') = Len(log) + 1 /\ Len(log) \in Nat /\ log'[Len(log) + 1] = m
      /\ \A i \in 1..Len(log) : log'[i] = log[i]
  BY <1>1
<1>3. 1..Len(log') = 1..Len(log) \cup {Len(log) + 1} /\ Len(log) + 1 \notin 1..Len(log)
  BY <1>2
<1> QED BY <1>2, <1>3 DEF ShutdownAt

\* Every step keeps the place of Shutdown and what the worker knows of it.
LEMMA AStep == TInv /\ AInv /\ [Next]_vars => AInv'
<1> SUFFICES ASSUME TInv, AInv, [Next]_vars PROVE AInv'
  OBVIOUS
<1>1. ASSUME NEW p \in Producers, Send(p) PROVE AInv'
  <2>1. PICK m \in Lines : m # Shutdown /\ log' = Append(log, m)
    BY <1>1, SendAppends
  <2>2. \A i : ShutdownAt(i)' <=> ShutdownAt(i)
    BY <2>1, AppendShutdownAt
  <2> QED BY <1>1, <2>2 DEF Send, AInv, Gone, ioVars
<1>2. CASE UNCHANGED <<logVars, ioVars, worker, state, guard>>
  BY <1>2 DEF AInv, ShutdownAt, Gone, logVars, ioVars
<1>3. CASE Receive
  <2>1. \A i : ShutdownAt(i)' <=> ShutdownAt(i)
    BY <1>3 DEF Receive, ShutdownAt
  <2>2. CASE log[taken + 1] = Shutdown
    <3>1. ShutdownAt(taken + 1) /\ taken + 1 \in 1..taken'
      BY <1>3, <2>2 DEF Receive, ShutdownAt, TInv, TypeOK
    <3> QED BY <1>3, <2>1, <2>2, <3>1 DEF Receive, AInv, Gone, ioVars
  <2>3. CASE log[taken + 1] # Shutdown
    BY <1>3, <2>1, <2>3 DEF Receive, AInv, Gone, ioVars, TInv, TypeOK
  <2> QED BY <2>2, <2>3
<1>4. CASE ReceiveNone
  BY <1>4 DEF ReceiveNone, Connected, AInv, ShutdownAt, Gone, logVars, ioVars,
     TInv, TypeOK
<1>5. CASE Flush
  BY <1>5 DEF Flush, AInv, ShutdownAt, Gone, logVars, TInv, TypeOK
<1>6. CASE ShutdownAlone
  BY <1>6 DEF ShutdownAlone, AInv, ShutdownAt, Gone, logVars, ioVars
<1>7. CASE FinalFlush
  BY <1>7 DEF FinalFlush, AInv, ShutdownAt, Gone, logVars, TInv, TypeOK
<1>8. CASE DropGuard \/ TimeOut
  BY <1>8 DEF DropGuard, TimeOut, AInv, ShutdownAt, Gone, logVars, ioVars
<1>9. CASE SendShutdown
  <2>1. log' = Append(log, Shutdown)
    BY <1>9 DEF SendShutdown
  <2>2. \A i : ShutdownAt(i)' <=> i = Len(log) + 1
    BY <1>9, <2>1, AppendShutdownAt DEF SendShutdown, AInv
  <2> QED BY <1>9, <2>2 DEF SendShutdown, AInv, Gone, ioVars
<1>10. CASE Rendezvous
  BY <1>10 DEF Rendezvous, AInv, ShutdownAt, Gone, logVars, ioVars
<1> QED
  BY <1>1, <1>2, <1>3, <1>4, <1>5, <1>6, <1>7, <1>8, <1>9, <1>10
  DEF Next, Step, Produce, Work, Close, Finished, Write, Refuse, SendError, LoadCounter,
      Cas, DropHandle, MakeWriter, vars

\* "Attempt to wait for `Worker` to flush all messages before dropping" (Drop for
\* WorkerGuard): when the attempt succeeds, all messages before are flushed.
THEOREM AcknowledgedMeansFlushed == Spec => [](TypeOK /\ AckFlushed)
<1>1. ASSUME TInv, AInv PROVE AckFlushed
  <2>1. SUFFICES ASSUME guard = "acknowledged" PROVE AckFlushed
    BY DEF AckFlushed
  <2>2. PICK m \in 1..durable : ShutdownAt(m)
    BY <1>1, <2>1 DEF AInv
  <2>3. ASSUME NEW i \in 1..m - 1 PROVE i <= taken /\ ~ShutdownAt(i)
    BY <1>1, <2>2 DEF AInv, TInv, TypeOK
  <2>4. \A i \in 1..m - 1 : i \in 1..Len(log)
    BY <1>1, <2>2 DEF ShutdownAt, TInv, TypeOK
  <2> QED BY <2>2, <2>3, <2>4 DEF AckFlushed, ShutdownAt
<1> QED BY <1>1, InitInv, TStep, AStep, PTL DEF Spec, TInv
\* What LineLog sees of the guard.
seen == IF guard = "closing" THEN "held" ELSE guard

\* Every step is a step of LineLog, or one it does not see.
LEMMA PromiseStep ==
  TInv /\ TInv' /\ AInv /\ [Next]_vars => [Promise!Next]_<<log, durable, seen>>
<1> SUFFICES ASSUME TInv, TInv', AInv, [Next]_vars
             PROVE  Promise!Next \/ UNCHANGED <<log, durable, seen>>
  OBVIOUS
<1>1. ASSUME NEW p \in Producers, Send(p) PROVE Promise!Next
  <2>1. PICK m \in Lines : log' = Append(log, m)
    BY <1>1, SendAppends
  <2> QED BY <1>1, <2>1 DEF Send, ioVars, Promise!Next, Promise!TakeOver
<1>2. CASE UNCHANGED <<log, durable, guard>>
  BY <1>2 DEF seen
<1>3. CASE Flush \/ FinalFlush
  <2>1. UNCHANGED <<log, guard>> /\ (durable' = taken \/ durable' = durable)
    BY <1>3 DEF Flush, FinalFlush, logVars
  <2>2. CASE durable' = durable
    BY <1>2, <2>1, <2>2
  <2>3. CASE durable' # durable
    <3>1. durable' \in 1..Len(log) /\ durable' > durable
      BY <2>1, <2>3 DEF TInv, TypeOK
    <3>2. Promise!Settle(durable')
      BY <2>1, <3>1 DEF Promise!Settle
    <3> QED BY <3>1, <3>2 DEF Promise!Next
  <2> QED BY <2>2, <2>3
<1>4. CASE DropGuard
  BY <1>4 DEF DropGuard, logVars, ioVars, seen
<1>5. CASE SendShutdown
  BY <1>5 DEF SendShutdown, ioVars, Promise!Next, Promise!Shut
<1>6. CASE Rendezvous
  <2>1. state = "Shutdown" /\ durable = taken
    BY <1>6 DEF Rendezvous, AInv, Gone
  <2>2. PICK m \in 1..durable : log[m] = Shutdown
    BY <1>6, <2>1 DEF Rendezvous, AInv, ShutdownAt
  <2> QED BY <1>6, <2>2 DEF Rendezvous, logVars, ioVars, Promise!Next, Promise!Acknowledge
<1>7. CASE TimeOut
  BY <1>7 DEF TimeOut, logVars, ioVars, Promise!Next, Promise!Abandon
<1>8. CASE Receive
  BY <1>2, <1>8 DEF Receive, ioVars
<1> QED
  BY <1>1, <1>2, <1>3, <1>4, <1>5, <1>6, <1>7, <1>8
  DEF Next, Step, Produce, Work, Close, Finished, Write, Refuse, SendError, LoadCounter,
      Cas, DropHandle, MakeWriter, ReceiveNone, ShutdownAlone, vars, logVars, ioVars

\* The producers, the channel, the worker and the guard together implement the
\* log that LineLog describes.
THEOREM Implementation == Spec => ImplementsLineLog
<1>1. Init => Promise!Init
  BY DEF Init, Promise!Init
<1> QED
  BY <1>1, InitInv, TStep, AStep, PromiseStep, PTL
  DEF Spec, ImplementsLineLog, Promise!Spec, seen

-----------------------------------------------------------------------------
\* A refused line is counted or about to be, and none is refused in blocking mode.
CInv ==
  /\ CounterExact
  /\ Cardinality(Counting) <= dropped
  /\ ~isLossy => Counting = {}

\* Producers are finitely many, and so are those that count.
LEMMA CountingFinite ==
  IsFiniteSet(Counting) /\ Cardinality(Counting) \in Nat
  BY FS_Subset, FS_CardinalityType, NonBlockingAssumption DEF Counting

\* No increment of the counter is lost or wraps.
LEMMA CStep == TInv /\ CInv /\ [Next]_vars => CInv'
<1> SUFFICES ASSUME TInv, CInv, [Next]_vars PROVE CInv'
  OBVIOUS
<1>0. UNCHANGED isLossy
  BY DEF Next, vars
<1> USE NonBlockingAssumption, <1>0
<1>1. ASSUME UNCHANGED <<counter, dropped>>, Counting' = Counting PROVE CInv'
  BY <1>1 DEF CInv, CounterExact
<1>2. ASSUME NEW p \in Producers, Refuse(p) PROVE CInv'
  <2>1. Counting' = Counting \cup {p} /\ p \notin Counting
    BY <1>2 DEF Refuse, Goto, Counting, TInv, TypeOK
  <2>2. Cardinality(Counting') = Cardinality(Counting) + 1
    BY Zenon, <2>1, CountingFinite, FS_AddElement
  <2>3. isLossy /\ dropped' = dropped + 1 /\ counter' = counter
    BY <1>2 DEF Refuse
  <2> QED BY <2>2, <2>3, CountingFinite DEF CInv, CounterExact, Min2, TInv, TypeOK
<1>3. ASSUME NEW p \in Producers, p \in Counting, Counting' = Counting \ {p},
             dropped' = dropped,
             counter' = IF counter < MaxCounter THEN counter + 1 ELSE counter
      PROVE  CInv'
  <2>1. Cardinality(Counting') = Cardinality(Counting) - 1
    BY Zenon, <1>3, CountingFinite, FS_RemoveElement
  <2>2. isLossy
    BY <1>3 DEF CInv
  <2> DEFINE k == Cardinality(Counting)
  <2>3. k \in Nat /\ k > 0
    BY <1>3, CountingFinite, FS_EmptySet
  <2>4. /\ MaxCounter \in Nat /\ counter \in Nat /\ dropped \in Nat
        /\ k <= dropped /\ counter = Min2(MaxCounter, dropped - k)
    BY DEF CInv, CounterExact, TInv, TypeOK, NonBlockingAssumption
  <2>5. (IF counter < MaxCounter THEN counter + 1 ELSE counter)
          = Min2(MaxCounter, dropped - (k - 1))
    <3> HIDE DEF k
    <3> QED BY <2>3, <2>4, SMTT(30) DEF Min2
  <2>6. Cardinality(Counting') <= dropped'
    BY <1>3, <2>1, <2>3, <2>4
  <2>7. counter' = Min2(MaxCounter, dropped' - Cardinality(Counting'))
    BY <1>3, <2>1, <2>5
  <2> QED BY <2>2, <2>6, <2>7 DEF CInv, CounterExact
<1>4. ASSUME NEW p \in Producers, LoadCounter(p) PROVE CInv'
  <2>1. p \in Counting /\ UNCHANGED <<counter, dropped>>
    BY <1>4 DEF LoadCounter, Counting
  <2>2. CASE counter = MaxCounter
    <3>1. Counting' = Counting \ {p}
      BY <1>4, <2>2 DEF LoadCounter, Goto, Counting, TInv, TypeOK
    <3> QED BY <1>3, <2>1, <2>2, <3>1
  <2>3. CASE counter # MaxCounter
    <3>1. Counting' = Counting
      BY <1>4, <2>3 DEF LoadCounter, Goto, Counting, TInv, TypeOK
    <3> QED BY <1>1, <2>1, <3>1
  <2> QED BY <2>2, <2>3
<1>5. ASSUME NEW p \in Producers, Cas(p) PROVE CInv'
  <2>1. CASE counter = curr[p]
    <3>1. p \in Counting /\ Counting' = Counting \ {p}
      BY <1>5, <2>1 DEF Cas, Goto, Counting, TInv, TypeOK
    <3> QED BY <1>3, <1>5, <2>1, <3>1 DEF Cas, SaturatingAdd
  <2>2. CASE counter # curr[p]
    BY <1>1, <1>5, <2>2 DEF Cas, Counting
  <2> QED BY <2>1, <2>2
<1>6. ASSUME NEW p \in Producers, Write(p) \/ Send(p) \/ SendError(p) PROVE CInv'
  <2>1. Counting' = Counting /\ UNCHANGED <<counter, dropped>>
    BY <1>6 DEF Write, Send, SendError, Goto, Counting, counterVars, TInv, TypeOK
  <2> QED BY <1>1, <2>1
<1>7. CASE UNCHANGED <<pc, counterVars>>
  BY <1>1, <1>7 DEF Counting, counterVars
<1> QED
  BY <1>2, <1>4, <1>5, <1>6, <1>7
  DEF Next, Step, Produce, Work, Close, Finished, DropHandle, MakeWriter, Receive,
      ReceiveNone, Flush, ShutdownAlone, FinalFlush, DropGuard, SendShutdown,
      Rendezvous, TimeOut, vars, producerVars

\* dropped_lines() is exact up to the increments in progress and saturates, and it
\* is 0 in blocking mode, however many producers race in incr_saturating.
THEOREM CounterCorrect == Spec => []CounterExact
<1>1. ASSUME Init PROVE CInv
  <2>1. Counting = {}
    BY <1>1 DEF Init, Counting
  <2>2. Cardinality(Counting) = 0
    BY <2>1, FS_EmptySet
  <2>3. counter = 0 /\ dropped = 0 /\ MaxCounter \in Nat
    BY <1>1, NonBlockingAssumption DEF Init
  <2>4. Min2(MaxCounter, 0 - 0) = 0
    BY <2>3 DEF Min2
  <2> QED BY <2>1, <2>2, <2>3, <2>4 DEF CInv, CounterExact
<1> QED BY <1>1, InitInv, TStep, CStep, PTL DEF Spec, CInv
==============================================================================
