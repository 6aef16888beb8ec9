---------------------------- MODULE RollingProofs ----------------------------
(***************************************************************************)
(* Proofs about the rolling file appender, for any number of threads, any  *)
(* rotation, limit and clock readings, errors and crashes.  First that no  *)
(* two threads roll over to the same period (RInv), then what rollovers    *)
(* do to the files (FInv): a new file is the newest of the directory, so   *)
(* pruning keeps it, and it is that of the period that ends at next_date.  *)
(***************************************************************************)
EXTENDS Rolling, TLAPS

\* The next date of a rotation lies in the future.
LEMMA NextDateLater ==
  ASSUME NEW p \in Nat \ {0}, NEW t \in Nat, Offset \in Nat
  PROVE  NextDate(p, t) \in Nat /\ NextDate(p, t) > t
<1>1. (t + p + Offset) % p \in 0..(p - 1)
  BY Z3
<1>2. NextDate(p, t) = t + p - ((t + p + Offset) % p)
  BY DEF NextDate, Round
<1> HIDE DEF NextDate
<1> QED
  BY <1>1, <1>2

\* The types that the argument needs.
DateTypes ==
  /\ period \in Nat /\ clock \in Nat /\ nextDate \in Nat /\ up \in BOOLEAN
  /\ now \in [Threads -> Nat] /\ current \in [Threads -> Nat]
  /\ pc \in [Threads -> {"idle", "check", "cas", "lock", "read", "writing",
                         "prune", "create", "link"}]

\* A thread before its exchange has read a date that it is not behind, and
\* Inner::new runs alone.
RInv ==
  /\ DateTypes
  /\ nextDate # 0 => period # 0
  /\ \A t \in Threads : pc[t] = "cas" => current[t] # 0 /\ current[t] <= now[t]
  /\ ~up => \A t, u \in Threads : pc[t] # "idle" /\ pc[u] # "idle" => t = u
  /\ RolledOnce

\* Initially there is no appender, and no thread is in a call.
LEMMA RInit == Init => RInv
<1> SUFFICES ASSUME Init PROVE RInv
  OBVIOUS
<1>1. DateTypes
  BY Zenon, RollingAssumption DEF Init, DateTypes, RollingAssumption
<1>2. \A t \in Threads : pc[t] = "idle" /\ ~Pending(t)
  BY DEF Init, Pending, Refreshing
<1> QED
  BY <1>1, <1>2 DEF Init, RInv, RolledOnce

\* A step of a thread that leaves dates alone and starts no rollover.
LEMMA Keeps ==
  ASSUME RInv, NEW t \in Threads,
         UNCHANGED <<period, nextDate, up, now>>, clock' \in Nat,
         NEW l \in {"idle", "check", "cas", "lock", "read", "writing",
                    "prune", "create", "link"},
         pc' = [pc EXCEPT ![t] = l],
         pc[t] # "idle",
         l \in {"lock", "prune", "create", "link"} =>
           pc[t] \in {"lock", "prune", "create", "link"},
         current' \in [Threads -> Nat],
         \A u \in Threads \ {t} : current'[u] = current[u],
         l = "cas" => current'[t] # 0 /\ current'[t] <= now[t]
  PROVE  RInv'
<1>1. DateTypes'
  BY Zenon DEF RInv, DateTypes
<1>2. \A u \in Threads : Pending(u)' => Pending(u)
  BY DEF Pending, Refreshing, RInv, DateTypes
<1>3. RolledOnce'
  BY <1>2 DEF RInv, RolledOnce, NextDate, Round
<1>4. \A u \in Threads :
        pc'[u] = "cas" => current'[u] # 0 /\ current'[u] <= now'[u]
  BY DEF RInv, DateTypes
<1>5. ~up' => \A u, v \in Threads : pc'[u] # "idle" /\ pc'[v] # "idle" => u = v
  BY DEF RInv, DateTypes
<1> QED
  BY <1>1, <1>3, <1>4, <1>5 DEF RInv

\* The winner of the exchange moves next_date past all earlier rollovers.
LEMMA Advances ==
  ASSUME RInv, NEW t \in Threads, AdvanceDate(t)
  PROVE  RInv'
<1> USE DEF config, disk
<1>1. CASE nextDate # current[t]
  <2>1. /\ UNCHANGED <<period, nextDate, up, now, current, clock>>
        /\ pc' = [pc EXCEPT ![t] = "read"] /\ pc[t] # "idle"
    BY <1>1 DEF AdvanceDate, Goto
  <2> QED
    BY Zenon, <2>1, Keeps DEF RInv, DateTypes
<1>2. CASE nextDate = current[t]
  <2>1. /\ UNCHANGED <<period, clock, up, now, current>> /\ pc[t] = "cas"
        /\ nextDate' = NextDate(period, now[t])
        /\ pc' = [pc EXCEPT ![t] = "lock"]
    BY <1>2 DEF AdvanceDate, Goto
  <2>2. /\ nextDate # 0 /\ nextDate <= now[t] /\ period \in Nat \ {0}
        /\ now[t] \in Nat
    BY <1>2, <2>1 DEF RInv, DateTypes
  <2>3. nextDate' \in Nat /\ nextDate' > now[t]
    BY Zenon, <2>1, <2>2, NextDateLater, RollingAssumption DEF RollingAssumption
  <2>4. DateTypes'
    BY <2>1, <2>3 DEF RInv, DateTypes
  <2>5. \A u \in Threads \ {t} : Pending(u)' =>
          /\ Pending(u) /\ NextDate(period, now[u]) <= nextDate
          /\ NextDate(period, now[u]) \in Nat
    <3> SUFFICES ASSUME NEW u \in Threads \ {t}, Pending(u)'
                 PROVE  /\ Pending(u) /\ NextDate(period, now[u]) <= nextDate
                        /\ NextDate(period, now[u]) \in Nat
      OBVIOUS
    <3>1. Pending(u)
      BY <2>1 DEF Pending, Refreshing, RInv, DateTypes
    <3>2. NextDate(period, now[u]) <= nextDate
      BY <3>1 DEF RInv, RolledOnce
    <3>3. NextDate(period, now[u]) \in Nat
      BY Zenon, <2>2, NextDateLater, RollingAssumption
      DEF RInv, DateTypes, RollingAssumption
    <3> QED
      BY <3>1, <3>2, <3>3
  <2>6. RolledOnce'
    <3> HIDE DEF NextDate
    <3>1. \A u \in Threads \ {t} : Pending(u)' =>
            /\ NextDate(period, now[u]) < nextDate'
            /\ NextDate(period, now[u]) # NextDate(period, now[t])
      BY <2>1, <2>2, <2>3, <2>5 DEF RInv, DateTypes
    <3>2. \A u, v \in Threads \ {t} : u # v /\ Pending(u)' /\ Pending(v)' =>
            NextDate(period, now[u]) # NextDate(period, now[v])
      BY <2>5 DEF RInv, RolledOnce
    <3>3. SUFFICES ASSUME NEW u \in Threads, Pending(u)'
          PROVE  /\ NextDate(period, now[u])' <= nextDate'
                 /\ \A v \in Threads \ {u} : Pending(v)' =>
                      NextDate(period, now[u])' # NextDate(period, now[v])'
      BY DEF RolledOnce
    <3>4. \A v \in Threads : NextDate(period, now[v])' = NextDate(period, now[v])
      BY <2>1 DEF NextDate, Round
    <3>5. CASE u = t
      BY <2>1, <2>3, <3>1, <3>3, <3>4, <3>5
    <3>6. CASE u # t
      BY <2>3, <2>5, <3>1, <3>2, <3>3, <3>4, <3>6
    <3> QED
      BY <3>5, <3>6
  <2> QED
    BY <2>1, <2>2, <2>4, <2>6 DEF RInv, DateTypes
<1> QED
  BY <1>1, <1>2

\* Every step keeps RInv.
LEMMA RStep == RInv /\ [Next]_vars => RInv'
<1> SUFFICES ASSUME RInv, [Next]_vars PROVE RInv'
  OBVIOUS
<1> USE DEF config, disk, locals, Goto
<1>1. CASE UNCHANGED <<period, nextDate, up, now, current, pc>> /\ clock' \in Nat
  <2>1. DateTypes' /\ \A t \in Threads : Pending(t)' = Pending(t)
    BY <1>1 DEF RInv, DateTypes, Pending, Refreshing
  <2>2. RolledOnce'
    BY <1>1, <2>1 DEF RInv, RolledOnce, NextDate, Round
  <2> QED
    BY <1>1, <2>1, <2>2 DEF RInv
<1>2. CASE Tick
  BY <1>1, <1>2 DEF Tick, RInv, DateTypes
<1>3. CASE UNCHANGED vars
  BY <1>1, <1>3 DEF vars, RInv, DateTypes
<1>4. CASE Crash
  <2>1. DateTypes'
    BY Zenon, <1>4 DEF Crash, RInv, DateTypes
  <2>2. \A t \in Threads : pc'[t] = "idle" /\ ~Pending(t)'
    BY <1>4 DEF Crash, Pending, Refreshing
  <2> QED
    BY <1>4, <2>1, <2>2 DEF Crash, RInv, RolledOnce
<1>5. ASSUME NEW t \in Threads, New(t) PROVE RInv'
  <2>1. /\ ~up' /\ \A u \in Threads : pc[u] = "idle"
        /\ pc' = [pc EXCEPT ![t] = "prune"]
    BY <1>5 DEF New
  <2>2. nextDate' \in Nat /\ (nextDate' # 0 => period' # 0)
    <3>1. CASE period = 0
      BY <1>5, <3>1 DEF New, NextDate
    <3>2. CASE period # 0
      BY <1>5, <3>2, NextDateLater, RollingAssumption
      DEF New, RInv, DateTypes, RollingAssumption
    <3> QED
      BY <3>1, <3>2
  <2>3. DateTypes'
    BY <1>5, <2>1, <2>2 DEF New, RInv, DateTypes
  <2>4. \A u \in Threads : ~Pending(u)'
    BY <2>1 DEF Pending
  <2> QED
    BY <2>1, <2>2, <2>3, <2>4 DEF RInv, DateTypes, RolledOnce
<1>6. ASSUME NEW t \in Threads, MakeWriter(t) PROVE RInv'
  <2>1. /\ up /\ pc[t] = "idle" /\ pc' = [pc EXCEPT ![t] = "check"]
        /\ now' = [now EXCEPT ![t] = clock]
        /\ UNCHANGED <<period, clock, nextDate, up, current>>
    BY <1>6 DEF MakeWriter
  <2>2. DateTypes'
    BY <2>1 DEF RInv, DateTypes
  <2>3. \A u \in Threads : Pending(u)' => Pending(u) /\ now'[u] = now[u]
    BY <2>1 DEF Pending, Refreshing, RInv, DateTypes
  <2>4. RolledOnce'
    BY <2>1, <2>3 DEF RInv, RolledOnce, NextDate, Round
  <2> QED
    BY <2>1, <2>2, <2>4 DEF RInv, DateTypes
<1>7. ASSUME NEW t \in Threads, Write(t) PROVE RInv'
  <2>1. /\ pc[t] = "writing" /\ pc' = [pc EXCEPT ![t] = "idle"]
        /\ now' = [now EXCEPT ![t] = 0] /\ current' = [current EXCEPT ![t] = 0]
        /\ UNCHANGED <<period, clock, nextDate, up>>
    BY <1>7 DEF Write
  <2>2. DateTypes'
    BY <2>1 DEF RInv, DateTypes
  <2>3. \A u \in Threads : Pending(u)' => Pending(u) /\ now'[u] = now[u]
    BY <2>1 DEF Pending, Refreshing, RInv, DateTypes
  <2>4. RolledOnce'
    BY <2>1, <2>3 DEF RInv, RolledOnce, NextDate, Round
  <2> QED
    BY <2>1, <2>2, <2>4 DEF RInv, DateTypes
<1>8. ASSUME NEW t \in Threads, ShouldRollover(t) PROVE RInv'
  <2>1. UNCHANGED <<period, nextDate, up, now, clock>> /\ pc[t] = "check"
    BY <1>8 DEF ShouldRollover
  <2>2. CASE nextDate = 0 \/ now[t] < nextDate
    BY <1>8, <2>1, <2>2, Keeps DEF ShouldRollover, RInv, DateTypes
  <2>3. CASE ~(nextDate = 0 \/ now[t] < nextDate)
    BY <1>8, <2>1, <2>3, Keeps DEF ShouldRollover, RInv, DateTypes
  <2> QED
    BY <2>2, <2>3
<1>9. ASSUME NEW t \in Threads, Lock(t) \/ ReadLock(t) \/ PruneOldLogs(t) PROVE RInv'
  <2>1. /\ UNCHANGED <<period, nextDate, up, now, current, clock>>
        /\ \/ pc[t] = "lock" /\ pc' = [pc EXCEPT ![t] = "prune"]
           \/ pc[t] = "read" /\ pc' = [pc EXCEPT ![t] = "writing"]
           \/ pc[t] = "prune" /\ pc' = [pc EXCEPT ![t] = "create"]
    BY <1>9 DEF Lock, ReadLock, PruneOldLogs
  <2> QED
    BY <2>1, Keeps DEF RInv, DateTypes
<1>10. ASSUME NEW t \in Threads, OpenFile(t) PROVE RInv'
  <2>1. /\ UNCHANGED <<period, nextDate, up, now, current, clock>> /\ pc[t] = "create"
        /\ \/ pc' = [pc EXCEPT ![t] = "link"] \/ pc' = [pc EXCEPT ![t] = "read"]
           \/ pc' = [pc EXCEPT ![t] = "idle"]
    BY <1>10 DEF OpenFile, Fail
  <2> QED
    BY <2>1, Keeps DEF RInv, DateTypes
<1>11. ASSUME NEW t \in Threads, Symlink(t) PROVE RInv'
  <2>1. /\ UNCHANGED <<period, nextDate, now, current, clock>> /\ pc[t] = "link"
        /\ up' \in {up, TRUE}
        /\ pc' = [pc EXCEPT ![t] = IF up THEN "read" ELSE "idle"]
    BY Zenon, <1>11 DEF Symlink, Fail, RInv, DateTypes
  <2>2. CASE up' = up
    BY Zenon, <2>1, <2>2, Keeps DEF RInv, DateTypes
  <2>3. CASE ~up /\ up'
    <3>1. \A u \in Threads : pc'[u] = "idle"
      BY <2>1, <2>3 DEF RInv, DateTypes
    <3>2. DateTypes' /\ \A u \in Threads : ~Pending(u)'
      BY Zenon, <2>1, <3>1 DEF RInv, DateTypes, Pending, Refreshing
    <3> QED
      BY <2>1, <2>3, <3>1, <3>2 DEF RInv, RolledOnce
  <2> QED
    BY Zenon, <2>1, <2>2, <2>3 DEF RInv, DateTypes
<1> QED
  BY <1>2, <1>3, <1>4, <1>5, <1>6, <1>7, <1>8, <1>9, <1>10, <1>11, Advances
  DEF Next, Step

\* make_writer and Write::write: no two threads roll over to the same period.
THEOREM RollsOnce == Spec => []RolledOnce
<1>1. RInv => RolledOnce
  BY DEF RInv
<1> QED
  BY <1>1, RInit, RStep, PTL DEF Spec

-----------------------------------------------------------------------------
(* Dates                                                                   *)

\* Division with remainder.
LEMMA Division ==
  ASSUME NEW p \in Nat \ {0}, NEW a \in Int
  PROVE  a % p \in 0..(p - 1) /\ a \div p \in Int /\ a = p * (a \div p) + (a % p)
  BY Z3

\* Quotient and remainder, named.
LEMMA Quotient ==
  ASSUME NEW p \in Nat \ {0}, NEW a \in Int
  PROVE  \E q \in Int, r \in 0..(p - 1) : a = p * q + r /\ a % p = r
  BY Zenon, Division

\* Multiples of p are p apart.
LEMMA Smaller ==
  ASSUME NEW p \in Nat \ {0}, NEW q \in Int, NEW s \in Int, q < s
  PROVE  p * q + p <= p * s
<1>1. PICK d \in Nat : s = q + 1 + d
  <2>1. s - q - 1 \in Nat /\ s = q + 1 + (s - q - 1) OBVIOUS
  <2> QED BY <2>1
<1>2. p * s = p * q + p + p * d BY <1>1, Z3
<1>3. p * d \in Nat BY Z3
<1>4. p * q \in Int BY Z3
<1> QED BY <1>2, <1>3, <1>4

\* The remainder is determined.
LEMMA DivisionUnique ==
  ASSUME NEW p \in Nat \ {0}, NEW q \in Int, NEW r \in 0..(p - 1)
  PROVE  (p * q + r) % p = r
<1>1. PICK a \in Int : a = p * q + r BY Z3
<1>2. a % p \in 0..(p - 1) /\ a \div p \in Int /\ a = p * (a \div p) + (a % p) BY Division
<1>3. PICK s \in Int, m \in 0..(p-1) : s = a \div p /\ m = a % p BY <1>2
<1>4. p * q + r = p * s + m /\ p * q \in Int /\ p * s \in Int BY <1>1, <1>2, <1>3, Z3
<1>5. ~(q < s) 
  <2>1. q < s => p * q + p <= p * s BY Smaller
  <2> QED BY <1>4, <2>1
<1>6. ~(s < q)
  <2>1. s < q => p * s + p <= p * q BY Smaller
  <2> QED BY <1>4, <2>1
<1>7. q = s BY <1>5, <1>6
<1> QED BY <1>1, <1>3, <1>4, <1>7

\* The file of a period is named by its beginning until the next date.
LEMMA NextDateEnds ==
  ASSUME NEW p \in Nat \ {0}, NEW t \in Int, Offset \in Int
  PROVE  Round(p, Round(p, t + p) - 1) = Round(p, t) /\ Round(p, t) \in Int
<1>1. PICK q \in Int, r \in 0..(p - 1) : t + Offset = p * q + r /\ (t + Offset) % p = r
  <2>1. t + Offset \in Int OBVIOUS
  <2> QED BY Zenon, <2>1, Quotient
<1>2. p * q \in Int BY Z3
<1>3. Round(p, t) = t - r BY <1>1 DEF Round
<1>4. t + p + Offset = p * (q + 1) + r BY <1>1, <1>2, Z3
<1>5. (t + p + Offset) % p = r 
  <2>1. q + 1 \in Int OBVIOUS
  <2> QED BY Zenon, <1>4, <2>1, DivisionUnique
<1>6. Round(p, t + p) = t + p - r BY <1>5 DEF Round
<1>7. (t + p - r - 1) + Offset = p * q + (p - 1) BY <1>1, <1>2
<1>8. ((t + p - r - 1) + Offset) % p = p - 1 
  <2>1. p - 1 \in 0..(p - 1) OBVIOUS
  <2> QED BY Zenon, <1>7, <2>1, DivisionUnique
<1>9. Round(p, t + p - r - 1) = t + p - r - 1 - (p - 1) BY <1>8 DEF Round
<1> QED BY <1>3, <1>6, <1>9

\* round_date keeps the order of times.
LEMMA RoundMonotone ==
  ASSUME NEW p \in Nat \ {0}, NEW a \in Int, NEW b \in Int, a <= b, Offset \in Int
  PROVE  Round(p, a) <= Round(p, b) /\ Round(p, a) \in Int /\ Round(p, b) \in Int
<1>1. PICK q \in Int, r \in 0..(p - 1) : a + Offset = p * q + r /\ (a + Offset) % p = r
  <2>1. a + Offset \in Int OBVIOUS
  <2> QED BY Zenon, <2>1, Quotient
<1>2. PICK s \in Int, m \in 0..(p - 1) : b + Offset = p * s + m /\ (b + Offset) % p = m
  <2>1. b + Offset \in Int OBVIOUS
  <2> QED BY Zenon, <2>1, Quotient
<1>3. p * q \in Int /\ p * s \in Int BY Z3
<1>4. Round(p, a) = p * q - Offset /\ Round(p, b) = p * s - Offset
  <2>1. Round(p, a) = a - r /\ Round(p, b) = b - m BY <1>1, <1>2 DEF Round
  <2> QED BY <1>1, <1>2, <1>3, <2>1
<1>5. s < q => p * s + p <= p * q BY Smaller
<1>6. ~(s < q) BY <1>1, <1>2, <1>3, <1>5
<1>7. p * q <= p * s
  <2>1. q < s => p * q + p <= p * s BY Smaller
  <2> QED BY <1>3, <1>6, <2>1
<1> QED BY <1>3, <1>4, <1>7

-----------------------------------------------------------------------------
(* The files                                                               *)

Roller(t) == pc[t] \in {"lock", "prune", "create", "link"}

FileTypes ==
  /\ dir \in Seq(Int) /\ maxFiles \in Nat /\ clean \in BOOLEAN
  /\ byName \in BOOLEAN /\ (byName => period # 0)

\* The lock of the writer, and the history variable.
Alone ==
  /\ ~up => \A t \in Threads : pc[t] \in {"idle", "prune", "create", "link"}
  /\ \A t, u \in Threads : Refreshing(t) /\ Refreshing(u) => t = u
  /\ clean => \A t, u \in Threads : Roller(t) /\ Roller(u) => t = u

Linked == up => latest \in {file, NoFile}

\* A rollover under way is the one to the period that ends at next_date.
Dated ==
  clean /\ period # 0 =>
    /\ \A t \in Threads : Roller(t) => nextDate = NextDate(period, now[t])
    /\ up /\ (\A t \in Threads : ~Roller(t)) => file = JoinDate(period, nextDate - 1)

\* prune_old_logs has made room for the file that create_writer makes.
Bounded ==
  maxFiles # 0 =>
    /\ up => Len(dir) <= maxFiles
    /\ \A t \in Threads : /\ pc[t] = "create" => Len(dir) <= maxFiles - 1
                          /\ pc[t] = "link" => Len(dir) <= maxFiles
    /\ Len(dir) >= maxFiles - 1 \/ ToSet(dir) = made

\* No log is of a period that has not begun, nor, without overlapping
\* rollovers, of a later one than the appender's.
Begun ==
  /\ \A t \in Threads : now[t] <= clock
  /\ period # 0 =>
       /\ \A f \in ToSet(dir) : f <= Round(period, clock)
       /\ clean /\ (up \/ \E t \in Threads : Roller(t)) =>
            \A f \in ToSet(dir) : f <= Round(period, nextDate - 1)

\* The next prune_old_logs will not take f, if it keeps anything.
Safe(f) ==
  f \in ToSet(dir) /\ (maxFiles = 0 \/ Len(dir) <= maxFiles - 1 \/ dir[Len(dir)] = f)

Held ==
  clean =>
    /\ \A t \in Threads : pc[t] = "link" => Safe(Name(t))
    /\ up => /\ (\A t \in Threads : pc[t] \notin {"create", "link"}) => Safe(file)
             /\ maxFiles # 1 => file \in ToSet(dir)

FInv == RInv /\ FileTypes /\ Alone /\ Linked /\ Dated /\ Bounded /\ Begun /\ Held

\* A sequence followed by another.
LEMMA ConcatSeq ==
  ASSUME NEW S, NEW s1 \in Seq(S), NEW s2 \in Seq(S)
  PROVE  /\ s1 \o s2 \in Seq(S) /\ Len(s1 \o s2) = Len(s1) + Len(s2)
         /\ \A i \in 1..Len(s1) + Len(s2) :
              (s1 \o s2)[i] = IF i <= Len(s1) THEN s1[i] ELSE s2[i - Len(s1)]
OBVIOUS

\* A file that is put between the others.
LEMMA Inserted ==
  ASSUME NEW d \in Seq(Int), NEW k \in 0..Len(d), NEW f \in Int
  PROVE  LET r == InsertAt(d, k + 1, f)
         IN  /\ r \in Seq(Int) /\ Len(r) = Len(d) + 1
             /\ ToSet(r) = ToSet(d) \cup {f}
             /\ k = Len(d) => r[Len(r)] = f
<1> DEFINE r == InsertAt(d, k + 1, f)
           a == SubSeq(d, 1, (k + 1) - 1)
           b == SubSeq(d, k + 1, Len(d))
           e == a \o <<f>>
<1>1. Len(d) \in Nat
  OBVIOUS
<1>2. a \in Seq(Int) /\ Len(a) = k /\ \A i \in 1..k : a[i] = d[i]
  BY <1>1
<1>3. b \in Seq(Int) /\ Len(b) = Len(d) - k /\ \A i \in 1..Len(d) - k : b[i] = d[k + i]
  BY <1>1
<1>4. r = e \o b
  BY Zenon DEF InsertAt
<1> HIDE DEF a, b, r
<1>5. <<f>> \in Seq(Int) /\ Len(<<f>>) = 1 /\ <<f>>[1] = f
  OBVIOUS
<1>6. e \in Seq(Int) /\ Len(e) = k + 1 /\ \A i \in 1..k + 1 : e[i] = IF i <= k THEN d[i] ELSE f
  <2>1. /\ e \in Seq(Int) /\ Len(e) = Len(a) + Len(<<f>>)
        /\ \A i \in 1..Len(a) + Len(<<f>>) :
             e[i] = IF i <= Len(a) THEN a[i] ELSE <<f>>[i - Len(a)]
    BY Zenon, <1>2, <1>5, ConcatSeq
  <2> HIDE DEF e
  <2>2. /\ e \in Seq(Int) /\ Len(e) = k + 1
        /\ \A i \in 1..k + 1 : e[i] = IF i <= k THEN a[i] ELSE <<f>>[i - k]
    BY Zenon, <1>2, <1>5, <2>1
  <2>3. \A i \in 1..k + 1 : IF i <= k THEN i \in 1..k ELSE i - k = 1
    OBVIOUS
  <2> QED
    BY Zenon, <1>2, <1>5, <2>2, <2>3
<1> HIDE DEF e
<1>7. /\ r \in Seq(Int) /\ Len(r) = Len(d) + 1
      /\ \A i \in 1..Len(d) + 1 : r[i] = IF i <= k + 1 THEN e[i] ELSE b[i - (k + 1)]
  <2>1. /\ e \o b \in Seq(Int) /\ Len(e \o b) = Len(e) + Len(b)
        /\ \A i \in 1..Len(e) + Len(b) :
             (e \o b)[i] = IF i <= Len(e) THEN e[i] ELSE b[i - Len(e)]
    BY Zenon, <1>3, <1>6, ConcatSeq
  <2>2. Len(e) + Len(b) = Len(d) + 1
    BY <1>1, <1>3, <1>6
  <2> QED
    BY Zenon, <1>4, <1>6, <2>1, <2>2
<1>8. ToSet(r) = ToSet(d) \cup {f}
  <2>1. DOMAIN r = 1..Len(d) + 1 /\ DOMAIN d = 1..Len(d)
    BY <1>7
  <2>2. ASSUME NEW i \in 1..Len(d) + 1 PROVE r[i] \in ToSet(d) \cup {f}
    <3>1. CASE i <= k + 1
      <4>1. i \in 1..k + 1 /\ (i <= k => i \in 1..Len(d))
        BY <1>1, <3>1
      <4> QED
        BY Zenon, <1>6, <1>7, <2>1, <3>1, <4>1 DEF ToSet
    <3>2. CASE ~(i <= k + 1)
      <4>1. PICK j \in 1..Len(d) - k : j = i - (k + 1) /\ k + j \in 1..Len(d)
        BY <1>1, <3>2
      <4>2. r[i] = d[k + j]
        BY Zenon, <1>3, <1>7, <3>2, <4>1
      <4> QED
        BY Zenon, <2>1, <4>1, <4>2 DEF ToSet
    <3> QED
      BY Zenon, <3>1, <3>2
  <2>3. ASSUME NEW i \in 1..Len(d) PROVE \E j \in 1..Len(d) + 1 : r[j] = d[i]
    <3>1. CASE i <= k
      <4>1. i \in 1..Len(d) + 1 /\ i \in 1..k + 1 /\ i <= k + 1
        BY <1>1, <3>1
      <4> QED
        BY Zenon, <1>6, <1>7, <3>1, <4>1
    <3>2. CASE ~(i <= k)
      <4>1. PICK j \in 1..Len(d) + 1 : j = i + 1
        BY <1>1
      <4>2. ~(j <= k + 1) /\ j - (k + 1) \in 1..Len(d) - k /\ k + (j - (k + 1)) = i
        BY <1>1, <3>2, <4>1
      <4> QED
        BY Zenon, <1>3, <1>7, <4>2
    <3> QED
      BY Zenon, <3>1, <3>2
  <2>4. k + 1 \in 1..Len(d) + 1 /\ k + 1 <= k + 1 /\ ~(k + 1 <= k) /\ k + 1 \in 1..k + 1
    BY <1>1
  <2>5. r[k + 1] = f
    BY Zenon, <1>6, <1>7, <2>4
  <2> QED
    BY Zenon, <2>1, <2>2, <2>3, <2>4, <2>5 DEF ToSet
<1>9. k = Len(d) => r[Len(r)] = f
  <2>1. k + 1 \in 1..Len(d) + 1 /\ k + 1 <= k + 1 /\ ~(k + 1 <= k) /\ k + 1 \in 1..k + 1
    BY <1>1
  <2> QED
    BY Zenon, <1>6, <1>7, <2>1
<1> QED
  BY Zenon, <1>7, <1>8, <1>9 DEF r

\* What prune_old_logs leaves.
LEMMA Pruned ==
  ASSUME NEW d \in Seq(Int), NEW n \in Nat \ {0}
  PROVE  LET k == Kept(d, n)
         IN  /\ k \in Seq(Int) /\ Len(k) <= n - 1 /\ ToSet(k) \subseteq ToSet(d)
             /\ Len(k) = n - 1 \/ k = d
             /\ Len(d) <= n - 1 => k = d
             /\ n # 1 /\ Len(d) # 0 => d[Len(d)] \in ToSet(k)
<1> DEFINE k == Kept(d, n)
<1>1. Len(d) \in Nat
  OBVIOUS
<1>2. CASE Len(d) < n
  <2>1. k = d
    BY <1>2 DEF Kept
  <2>2. Len(d) <= n - 1 /\ (Len(d) # 0 => Len(d) \in 1..Len(d))
    BY <1>1, <1>2
  <2>3. Len(d) # 0 => d[Len(d)] \in ToSet(d)
    BY <1>1 DEF ToSet
  <2> QED
    BY Zenon, <2>1, <2>2, <2>3
<1>3. CASE ~(Len(d) < n)
  <2>1. k = SubSeq(d, Len(d) - n + 2, Len(d))
    BY <1>3 DEF Kept
  <2>2. Len(d) - n + 2 \in 1..Len(d) + 1
    BY <1>1, <1>3
  <2>3. /\ k \in Seq(Int) /\ Len(k) = n - 1
        /\ \A i \in 1..n - 1 : k[i] = d[Len(d) - n + 1 + i]
    BY <1>1, <1>3, <2>1, <2>2
  <2> HIDE DEF k
  <2>4. \A i \in 1..n - 1 : Len(d) - n + 1 + i \in 1..Len(d)
    BY <1>1, <1>3
  <2>5. DOMAIN k = 1..n - 1 /\ DOMAIN d = 1..Len(d)
    BY <2>3
  <2>6. ToSet(k) \subseteq ToSet(d)
    BY Zenon, <2>3, <2>4, <2>5 DEF ToSet
  <2>7. n # 1 => n - 1 \in 1..n - 1 /\ k[n - 1] = d[Len(d)]
    BY <1>1, <2>3
  <2>8. n # 1 => d[Len(d)] \in ToSet(k)
    BY Zenon, <2>5, <2>7 DEF ToSet
  <2>9. ~(Len(d) <= n - 1) /\ Len(k) <= n - 1
    BY <1>1, <1>3, <2>3
  <2> QED
    BY Zenon, <2>3, <2>6, <2>8, <2>9 DEF k
<1> QED
  BY Zenon, <1>2, <1>3

\* The file of a period has one name until next_date.
LEMMA NameUntil ==
  ASSUME FInv, period # 0, NEW t \in Threads, NEW date, date = NextDate(period, now[t])
  PROVE  /\ Name(t) = Round(period, date - 1) /\ Name(t) = JoinDate(period, date - 1)
         /\ Name(t) \in Int
<1>1. period \in Nat \ {0} /\ now[t] \in Int /\ Offset \in Int
  BY RollingAssumption DEF FInv, RInv, DateTypes
<1>2. Round(period, Round(period, now[t] + period) - 1) = Round(period, now[t])
        /\ Round(period, now[t]) \in Int
  BY Zenon, <1>1, NextDateEnds
<1> QED
  BY Zenon, <1>1, <1>2 DEF Name, JoinDate, NextDate

\* A name is a number.
LEMMA NameInt ==
  ASSUME FInv, NEW t \in Threads
  PROVE  Name(t) \in Int
<1>1. CASE period = 0
  BY <1>1 DEF Name, JoinDate
<1>2. CASE period # 0
  BY Zenon, <1>2, NameUntil
<1> QED
  BY Zenon, <1>1, <1>2

\* A step that changes no file and no date, and starts and ends no rollover.
LEMMA QuietStep ==
  ASSUME FInv, RInv',
         UNCHANGED <<period, maxFiles, byName, nextDate, dir, latest, made, file, up, clean>>,
         clock <= clock', Alone', \A u \in Threads : now'[u] <= clock',
         \A u \in Threads : /\ Roller(u)' <=> Roller(u)
                            /\ pc'[u] = "create" <=> pc[u] = "create"
                            /\ pc'[u] = "link" <=> pc[u] = "link"
                            /\ Roller(u) => now'[u] = now[u]
  PROVE  FInv'
<1>1. FileTypes' /\ Linked'
  BY Zenon DEF FInv, FileTypes, Linked
<1>2. Dated'
  <2>1. \A u \in Threads : Roller(u) => NextDate(period, now[u])' = NextDate(period, now[u])
    BY Zenon DEF NextDate, Round
  <2>2. JoinDate(period, nextDate - 1)' = JoinDate(period, nextDate - 1)
    BY Zenon DEF JoinDate, Round
  <2> QED
    BY Zenon, <2>1, <2>2 DEF FInv, Dated
<1>3. Bounded'
  BY Zenon DEF FInv, Bounded
<1>4. Begun'
  <2> SUFFICES ASSUME period # 0, NEW f \in ToSet(dir)
               PROVE  /\ f <= Round(period, clock')
                      /\ clean /\ (up \/ \E u \in Threads : Roller(u)) =>
                           f <= Round(period, nextDate - 1)
    BY Zenon DEF Begun, Round
  <2>1. f \in Int
    BY DEF FInv, FileTypes, ToSet
  <2>2. /\ f <= Round(period, clock)
        /\ clean /\ (up \/ \E u \in Threads : Roller(u)) => f <= Round(period, nextDate - 1)
    BY Zenon DEF FInv, Begun
  <2>3. period \in Nat \ {0} /\ clock \in Int /\ clock' \in Int /\ Offset \in Int
    BY RollingAssumption DEF FInv, RInv, DateTypes
  <2>4. /\ Round(period, clock) <= Round(period, clock')
        /\ Round(period, clock) \in Int /\ Round(period, clock') \in Int
    BY Zenon, <2>3, RoundMonotone
  <2>5. f <= Round(period, clock')
    BY <2>1, <2>2, <2>4
  <2> QED
    BY Zenon, <2>2, <2>5
<1>5. Held'
  <2>1. \A u \in Threads : pc[u] = "link" => Name(u)' = Name(u)
    BY Zenon DEF Name, JoinDate, Round, Roller
  <2>2. \A u \in Threads : pc[u] = "link" /\ Safe(Name(u)) => Safe(Name(u))'
    BY Zenon, <2>1 DEF Safe
  <2>3. Safe(file)' <=> Safe(file)
    BY Zenon DEF Safe
  <2> QED
    BY Zenon, <2>2, <2>3 DEF FInv, Held
<1> QED
  BY Zenon, <1>1, <1>2, <1>3, <1>4, <1>5 DEF FInv

\* The winner of the exchange of next_date.
LEMMA AdvanceKeeps ==
  ASSUME FInv, RInv', NEW t \in Threads, AdvanceDate(t), nextDate = current[t]
  PROVE  FInv'
<1>1. /\ UNCHANGED <<period, maxFiles, byName, clock, dir, latest, made, file, up, now>>
      /\ pc[t] = "cas" /\ pc' = [pc EXCEPT ![t] = "lock"]
      /\ nextDate' = NextDate(period, now[t])
      /\ clean' = (clean /\ \A u \in Threads \ {t} : ~Pending(u))
  BY Zenon DEF AdvanceDate, Goto, config, disk
<1>2. /\ pc'[t] = "lock" /\ \A u \in Threads : u # t => pc'[u] = pc[u]
  BY Zenon, <1>1 DEF FInv, RInv, DateTypes
<1>3. up
  BY <1>1 DEF FInv, Alone
<1>4. clean' => clean /\ \A u \in Threads : Roller(u)' => u = t
  BY Zenon, <1>1, <1>2, <1>3 DEF Pending, Roller, Refreshing
<1>5. clean' \in BOOLEAN
  BY Zenon, <1>1 DEF FInv, FileTypes
<1>6. FileTypes' /\ Linked'
  BY Zenon, <1>1, <1>5 DEF FInv, FileTypes, Linked
<1>7. Alone'
  <2>1. \A u \in Threads : Refreshing(u)' => Refreshing(u)
    BY <1>2 DEF Refreshing
  <2> QED
    BY Zenon, <1>1, <1>3, <1>4, <2>1 DEF FInv, Alone
<1>8. Dated'
  <2>1. Roller(t)'
    BY Zenon, <1>2 DEF Roller
  <2>2. NextDate(period, now[t])' = NextDate(period, now[t])
    BY Zenon, <1>1 DEF NextDate, Round
  <2> QED
    BY Zenon, <1>1, <1>4, <2>1, <2>2 DEF Dated
<1>9. \A u \in Threads : /\ pc'[u] = "create" <=> pc[u] = "create"
                         /\ pc'[u] = "link" <=> pc[u] = "link"
  BY <1>1, <1>2
<1>10. Bounded'
  BY Zenon, <1>1, <1>9 DEF FInv, Bounded
<1>11. Begun'
  <2> SUFFICES ASSUME period # 0, clean', NEW f \in ToSet(dir)
               PROVE  f <= Round(period, nextDate' - 1)
    BY Zenon, <1>1 DEF FInv, Begun, Round
  <2>1. f \in Int
    BY DEF FInv, FileTypes, ToSet
  <2>2. f <= Round(period, nextDate - 1)
    BY Zenon, <1>3, <1>4 DEF FInv, Begun
  <2>3. /\ period \in Nat \ {0} /\ now[t] \in Nat /\ Offset \in Nat /\ nextDate \in Nat
        /\ nextDate <= now[t]
    BY <1>1, RollingAssumption DEF FInv, RInv, DateTypes
  <2>4. nextDate' \in Nat /\ nextDate' > now[t]
    BY Zenon, <1>1, <2>3, NextDateLater
  <2>5. nextDate - 1 \in Int /\ nextDate' - 1 \in Int /\ Offset \in Int /\ nextDate - 1 <= nextDate' - 1
    BY <2>3, <2>4
  <2>6. /\ Round(period, nextDate - 1) <= Round(period, nextDate' - 1)
        /\ Round(period, nextDate - 1) \in Int /\ Round(period, nextDate' - 1) \in Int
    BY Zenon, <2>3, <2>5, RoundMonotone
  <2> QED
    BY <2>1, <2>2, <2>6
<1>12. Held'
  <2>1. \A u \in Threads : Name(u)' = Name(u)
    BY Zenon, <1>1 DEF Name, JoinDate, Round
  <2>2. /\ \A u \in Threads : Safe(Name(u))' <=> Safe(Name(u))
        /\ Safe(file)' <=> Safe(file)
    BY Zenon, <1>1, <2>1 DEF Safe
  <2>3. (\A u \in Threads : pc'[u] \notin {"create", "link"}) =>
          \A u \in Threads : pc[u] \notin {"create", "link"}
    BY <1>9
  <2> QED
    BY Zenon, <1>1, <1>4, <1>9, <2>2, <2>3 DEF FInv, Held
<1> QED
  BY Zenon, <1>6, <1>7, <1>8, <1>10, <1>11, <1>12 DEF FInv

\* What a thread that holds the lock of the writer leaves to the others.
LEMMA RefreshEffect ==
  ASSUME FInv, NEW t \in Threads, Refreshing(t),
         NEW l \in {"idle", "read", "create", "link"}, pc' = [pc EXCEPT ![t] = l]
  PROVE  /\ pc'[t] = l /\ \A u \in Threads : u # t => pc'[u] = pc[u]
         /\ \A u \in Threads : u # t => ~Refreshing(u) /\ ~Refreshing(u)'
         /\ \A u \in Threads : Refreshing(u)' => Refreshing(u)
         /\ \A u \in Threads : Roller(u)' => Roller(u)
         /\ Roller(t)
<1>1. pc'[t] = l /\ \A u \in Threads : u # t => pc'[u] = pc[u]
  BY Zenon DEF FInv, RInv, DateTypes
<1>2. \A u \in Threads : u # t => ~Refreshing(u) /\ ~Refreshing(u)'
  BY Zenon, <1>1 DEF FInv, Alone, Refreshing
<1>3. Roller(t)
  BY DEF Refreshing, Roller
<1> QED
  BY Zenon, <1>1, <1>2, <1>3 DEF Roller

\* prune_old_logs, under the lock.
LEMMA PruneKeeps ==
  ASSUME FInv, RInv', NEW t \in Threads, PruneOldLogs(t)
  PROVE  FInv'
<1>1. /\ UNCHANGED <<period, maxFiles, byName, clock, nextDate, latest, made, file, up, now, clean>>
      /\ pc[t] = "prune" /\ pc' = [pc EXCEPT ![t] = "create"]
      /\ dir' = IF maxFiles = 0 THEN dir ELSE Kept(dir, maxFiles)
  BY Zenon DEF PruneOldLogs, Goto, config
<1>2. /\ pc'[t] = "create" /\ \A u \in Threads : u # t => pc'[u] = pc[u]
      /\ \A u \in Threads : u # t => ~Refreshing(u) /\ ~Refreshing(u)'
      /\ \A u \in Threads : Refreshing(u)' => Refreshing(u)
      /\ \A u \in Threads : Roller(u)' => Roller(u)
      /\ Roller(t)
  <2>1. Refreshing(t)
    BY <1>1 DEF Refreshing
  <2> QED
    BY Zenon, <1>1, <2>1, RefreshEffect
<1>3. dir \in Seq(Int) /\ Len(dir) \in Nat /\ maxFiles \in Nat
  BY DEF FInv, FileTypes
<1>4. maxFiles # 0 =>
        /\ dir' \in Seq(Int) /\ Len(dir') <= maxFiles - 1 /\ ToSet(dir') \subseteq ToSet(dir)
        /\ Len(dir') = maxFiles - 1 \/ dir' = dir
        /\ Len(dir) <= maxFiles - 1 => dir' = dir
        /\ maxFiles # 1 /\ Len(dir) # 0 => dir[Len(dir)] \in ToSet(dir')
  <2> SUFFICES ASSUME maxFiles # 0
               PROVE  /\ dir' \in Seq(Int) /\ Len(dir') <= maxFiles - 1
                      /\ ToSet(dir') \subseteq ToSet(dir)
                      /\ Len(dir') = maxFiles - 1 \/ dir' = dir
                      /\ Len(dir) <= maxFiles - 1 => dir' = dir
                      /\ maxFiles # 1 /\ Len(dir) # 0 => dir[Len(dir)] \in ToSet(dir')
    BY Zenon
  <2>1. maxFiles \in Nat \ {0} /\ dir' = Kept(dir, maxFiles)
    BY Zenon, <1>1, <1>3
  <2> QED
    BY Zenon, <1>3, <2>1, Pruned
<1>5. dir' \in Seq(Int) /\ ToSet(dir') \subseteq ToSet(dir)
  BY Zenon, <1>1, <1>3, <1>4
<1>6. FileTypes' /\ Linked'
  BY Zenon, <1>1, <1>5 DEF FInv, FileTypes, Linked
<1>7. Alone'
  BY Zenon, <1>1, <1>2 DEF FInv, Alone
<1>8. Dated'
  <2>1. /\ \A u \in Threads : NextDate(period, now[u])' = NextDate(period, now[u])
        /\ JoinDate(period, nextDate - 1)' = JoinDate(period, nextDate - 1)
    BY Zenon, <1>1 DEF NextDate, JoinDate, Round
  <2>2. Roller(t)'
    BY Zenon, <1>2 DEF Roller
  <2> QED
    BY Zenon, <1>1, <1>2, <2>1, <2>2 DEF FInv, Dated
<1>9. Bounded'
  <2> SUFFICES ASSUME maxFiles # 0
               PROVE  /\ Len(dir') <= maxFiles
                      /\ \A u \in Threads : /\ pc'[u] = "create" => Len(dir') <= maxFiles - 1
                                            /\ pc'[u] = "link" => Len(dir') <= maxFiles
                      /\ Len(dir') >= maxFiles - 1 \/ ToSet(dir') = made
    BY Zenon, <1>1 DEF Bounded
  <2>1. Len(dir') \in Nat /\ Len(dir') <= maxFiles - 1 /\ Len(dir') <= maxFiles
    BY <1>3, <1>4, <1>5
  <2>2. Len(dir') >= maxFiles - 1 \/ ToSet(dir') = made
    <3>1. CASE Len(dir') = maxFiles - 1
      BY <2>1, <3>1, <1>3
    <3>2. CASE dir' = dir
      BY Zenon, <3>2 DEF FInv, Bounded
    <3> QED
      BY Zenon, <1>4, <3>1, <3>2
  <2> QED
    BY Zenon, <2>1, <2>2
<1>10. Begun'
  BY Zenon, <1>1, <1>2, <1>5 DEF FInv, Begun, Round
<1>11. Held'
  <2> SUFFICES ASSUME clean, up, maxFiles # 1
               PROVE  file \in ToSet(dir')
    BY Zenon, <1>1, <1>2 DEF Held, Refreshing
  <2>1. Safe(file)
    <3>1. \A u \in Threads : pc[u] \notin {"create", "link"}
      BY Zenon, <1>1, <1>2 DEF Refreshing
    <3> QED
      BY Zenon, <3>1 DEF FInv, Held
  <2>2. CASE maxFiles = 0 \/ Len(dir) <= maxFiles - 1
    BY Zenon, <1>1, <1>4, <2>1, <2>2 DEF Safe
  <2>3. CASE maxFiles # 0 /\ dir[Len(dir)] = file
    <3>1. Len(dir) # 0
      BY <1>3, <2>1 DEF Safe, ToSet
    <3> QED
      BY Zenon, <1>4, <2>3, <3>1
  <2> QED
    BY Zenon, <2>1, <2>2, <2>3 DEF Safe
<1> QED
  BY Zenon, <1>6, <1>7, <1>8, <1>9, <1>10, <1>11 DEF FInv

\* Where the new file is, and what the directory is then.
LEMMA CreatedEffect ==
  ASSUME FInv, NEW f \in Int, Created(f)
  PROVE  /\ dir' \in Seq(Int) /\ Len(dir') = Len(dir) + 1
         /\ ToSet(dir') = ToSet(dir) \cup {f}
         /\ ~byName \/ (\A g \in ToSet(dir) : g < f) => dir'[Len(dir')] = f
<1>1. dir \in Seq(Int) /\ Len(dir) \in Nat /\ DOMAIN dir = 1..Len(dir)
  BY DEF FInv, FileTypes
<1>2. PICK i \in 0..Len(dir) :
        /\ IF byName THEN \A j \in DOMAIN dir : j <= i <=> dir[j] < f ELSE i = Len(dir)
        /\ dir' = InsertAt(dir, i + 1, f)
  BY Zenon DEF Created
<1>3. /\ dir' \in Seq(Int) /\ Len(dir') = Len(dir) + 1
      /\ ToSet(dir') = ToSet(dir) \cup {f}
      /\ i = Len(dir) => dir'[Len(dir')] = f
  BY Zenon, <1>1, <1>2, Inserted
<1>4. ~byName \/ (\A g \in ToSet(dir) : g < f) => i = Len(dir)
  <2>0. SUFFICES ASSUME ~byName \/ \A g \in ToSet(dir) : g < f PROVE i = Len(dir)
    BY Zenon
  <2>1. CASE ~byName
    BY Zenon, <1>2, <2>1
  <2>2. CASE byName /\ \A g \in ToSet(dir) : g < f
    <3>1. \A j \in DOMAIN dir : j <= i <=> dir[j] < f
      BY Zenon, <1>2, <2>2
    <3>2. Len(dir) # 0 => Len(dir) \in DOMAIN dir
      BY <1>1
    <3>3. Len(dir) # 0 => Len(dir) <= i
      BY Zenon, <2>2, <3>1, <3>2 DEF ToSet
    <3>4. Len(dir) \in Nat
      BY Zenon, <1>1
    <3> QED
      BY <3>3, <3>4
  <2> QED
    BY Zenon, <2>0, <2>1, <2>2
<1> QED
  BY Zenon, <1>3, <1>4

\* create_writer opens or creates the file.
LEMMA OpenKeeps ==
  ASSUME FInv, RInv', NEW t \in Threads, pc[t] = "create",
         IF Name(t) \in ToSet(dir) THEN UNCHANGED dir ELSE Created(Name(t)),
         made' = made \cup {Name(t)}, pc' = [pc EXCEPT ![t] = "link"],
         UNCHANGED <<period, maxFiles, byName, clock, nextDate, latest, file, up, now, clean>>
  PROVE  FInv'
<1>1. /\ pc'[t] = "link" /\ \A u \in Threads : u # t => pc'[u] = pc[u]
      /\ \A u \in Threads : u # t => ~Refreshing(u) /\ ~Refreshing(u)'
      /\ \A u \in Threads : Refreshing(u)' => Refreshing(u)
      /\ \A u \in Threads : Roller(u)' => Roller(u)
      /\ Roller(t)
  <2>1. Refreshing(t)
    BY DEF Refreshing
  <2> QED
    BY Zenon, <2>1, RefreshEffect
<1>2. dir \in Seq(Int) /\ Len(dir) \in Nat /\ maxFiles \in Nat
  BY DEF FInv, FileTypes
<1>3. Name(t) \in Int
  BY Zenon, NameInt
<1>4. /\ dir' \in Seq(Int) /\ ToSet(dir') = ToSet(dir) \cup {Name(t)}
      /\ \/ dir' = dir /\ Name(t) \in ToSet(dir)
         \/ /\ Len(dir') = Len(dir) + 1 /\ Name(t) \notin ToSet(dir)
            /\ ~byName \/ (\A g \in ToSet(dir) : g < Name(t)) => dir'[Len(dir')] = Name(t)
  <2>1. CASE Name(t) \in ToSet(dir)
    BY Zenon, <1>2, <2>1
  <2>2. CASE Name(t) \notin ToSet(dir)
    BY Zenon, <1>3, <2>2, CreatedEffect
  <2> QED
    BY Zenon, <2>1, <2>2
<1>5. FileTypes' /\ Linked'
  BY Zenon, <1>4 DEF FInv, FileTypes, Linked
<1>6. Alone'
  BY Zenon, <1>1 DEF FInv, Alone
<1>7. Dated'
  <2>1. /\ \A u \in Threads : NextDate(period, now[u])' = NextDate(period, now[u])
        /\ JoinDate(period, nextDate - 1)' = JoinDate(period, nextDate - 1)
    BY Zenon DEF NextDate, JoinDate, Round
  <2>2. Roller(t)'
    BY Zenon, <1>1 DEF Roller
  <2> QED
    BY Zenon, <1>1, <2>1, <2>2 DEF FInv, Dated
<1>8. maxFiles # 0 => Len(dir) <= maxFiles - 1
  BY Zenon DEF FInv, Bounded
<1>9. Bounded'
  <2> SUFFICES ASSUME maxFiles # 0
               PROVE  /\ Len(dir') <= maxFiles
                      /\ \A u \in Threads : /\ pc'[u] = "create" => Len(dir') <= maxFiles - 1
                                            /\ pc'[u] = "link" => Len(dir') <= maxFiles
                      /\ Len(dir') >= maxFiles - 1 \/ ToSet(dir') = made'
    BY Zenon DEF Bounded
  <2>1. Len(dir') <= maxFiles
    BY <1>2, <1>4, <1>8
  <2>2. \A u \in Threads : pc'[u] # "create"
    BY Zenon, <1>1 DEF Refreshing
  <2>3. Len(dir') >= maxFiles - 1 \/ ToSet(dir') = made'
    <3>1. CASE ToSet(dir) = made
      BY Zenon, <3>1, <1>4
    <3>2. CASE Len(dir) >= maxFiles - 1
      BY <1>2, <1>4, <3>2
    <3> QED
      BY Zenon, <3>1, <3>2 DEF FInv, Bounded
  <2> QED
    BY Zenon, <2>1, <2>2, <2>3
<1>10. clean /\ period # 0 =>
         /\ \A f \in ToSet(dir) : f <= Name(t)
         /\ Name(t) = Round(period, nextDate - 1)
  <2> SUFFICES ASSUME clean, period # 0
               PROVE  /\ \A f \in ToSet(dir) : f <= Name(t)
                      /\ Name(t) = Round(period, nextDate - 1)
    BY Zenon
  <2>1. nextDate = NextDate(period, now[t])
    BY Zenon, <1>1 DEF FInv, Dated
  <2>2. Name(t) = Round(period, nextDate - 1)
    BY Zenon, <2>1, NameUntil
  <2> QED
    BY Zenon, <1>1, <2>2 DEF FInv, Begun
<1>11. Begun'
  <2>1. period # 0 => Name(t) <= Round(period, clock)
    <3> SUFFICES ASSUME period # 0 PROVE Name(t) <= Round(period, clock)
      BY Zenon
    <3>1. /\ period \in Nat \ {0} /\ now[t] \in Int /\ clock \in Int /\ Offset \in Int
          /\ now[t] <= clock
      BY RollingAssumption DEF FInv, RInv, DateTypes, Begun
    <3>2. Round(period, now[t]) <= Round(period, clock)
      BY Zenon, <3>1, RoundMonotone
    <3> QED
      BY Zenon, <3>2 DEF Name, JoinDate
  <2>2. clean /\ period # 0 => Name(t) <= Round(period, nextDate - 1)
    BY <1>3, <1>10
  <2>3. period # 0 => \A f \in ToSet(dir') : f <= Round(period, clock)
    BY Zenon, <1>4, <2>1 DEF FInv, Begun
  <2>4. clean /\ period # 0 => \A f \in ToSet(dir') : f <= Round(period, nextDate - 1)
    BY Zenon, <1>1, <1>4, <2>2 DEF FInv, Begun
  <2> QED
    BY Zenon, <2>3, <2>4 DEF FInv, Begun, Round
<1>12. clean => Safe(Name(t))'
  <2> SUFFICES ASSUME clean PROVE Safe(Name(t))'
    BY Zenon
  <2>1. Name(t)' = Name(t)
    BY Zenon DEF Name, JoinDate, Round
  <2>2. CASE Name(t) \in ToSet(dir)
    BY Zenon, <1>4, <1>8, <2>1, <2>2 DEF Safe
  <2>3. CASE Name(t) \notin ToSet(dir)
    <3>1. byName => \A g \in ToSet(dir) : g < Name(t)
      <4> SUFFICES ASSUME byName, NEW g \in ToSet(dir) PROVE g < Name(t)
        BY Zenon
      <4>1. g \in Int
        BY <1>2 DEF ToSet
      <4>2. g <= Name(t) /\ g # Name(t)
        BY Zenon, <1>10, <2>3 DEF FInv, FileTypes
      <4> QED
        BY <1>3, <4>1, <4>2
    <3>2. dir'[Len(dir')] = Name(t)
      BY Zenon, <1>4, <2>3, <3>1
    <3> QED
      BY Zenon, <1>4, <2>1, <3>2 DEF Safe
  <2> QED
    BY Zenon, <2>2, <2>3
<1>13. Held'
  <2>1. \A u \in Threads : pc'[u] = "link" => u = t
    BY Zenon, <1>1 DEF Refreshing
  <2>2. clean /\ up /\ maxFiles # 1 => file \in ToSet(dir')
    BY Zenon, <1>4 DEF FInv, Held
  <2> QED
    BY Zenon, <1>1, <1>12, <2>1, <2>2 DEF Held
<1> QED
  BY Zenon, <1>5, <1>6, <1>7, <1>9, <1>11, <1>13 DEF FInv

\* create_writer fails, before or after the file is made.
LEMMA FailKeeps ==
  ASSUME FInv, RInv', NEW t \in Threads, Refreshing(t), Fail(t),
         latest' \in {NoFile, latest},
         UNCHANGED <<period, maxFiles, byName, clock, nextDate, dir, made, now>>
  PROVE  FInv'
<1>1. /\ ~clean' /\ clean' \in BOOLEAN /\ UNCHANGED <<file, up>>
      /\ pc' = [pc EXCEPT ![t] = IF up THEN "read" ELSE "idle"]
  BY Zenon DEF Fail, Goto
<1>2. PICK l \in {"idle", "read"} : (l = IF up THEN "read" ELSE "idle") /\ pc' = [pc EXCEPT ![t] = l]
  BY Zenon, <1>1
<1>3. /\ pc'[t] = l /\ \A u \in Threads : u # t => pc'[u] = pc[u]
      /\ \A u \in Threads : u # t => ~Refreshing(u) /\ ~Refreshing(u)'
      /\ \A u \in Threads : Refreshing(u)' => Refreshing(u)
  BY Zenon, <1>2, RefreshEffect
<1>4. FileTypes' /\ Linked'
  BY Zenon, <1>1 DEF FInv, FileTypes, Linked
<1>5. Alone'
  <2>1. ~up => \A u \in Threads : pc'[u] \in {"idle", "prune", "create", "link"}
    BY <1>2, <1>3 DEF FInv, Alone
  <2> QED
    BY Zenon, <1>1, <1>3, <2>1 DEF FInv, Alone
<1>6. Dated' /\ Held'
  BY Zenon, <1>1 DEF Dated, Held
<1>7. Bounded'
  <2>1. \A u \in Threads : pc'[u] \notin {"create", "link"}
    BY <1>2, <1>3 DEF Refreshing
  <2>2. \A u \in Threads : pc'[u] # "create" /\ pc'[u] # "link"
    BY Zenon, <2>1
  <2> QED
    BY Zenon, <1>1, <2>2 DEF FInv, Bounded
<1>8. Begun'
  BY Zenon, <1>1 DEF FInv, Begun, Round
<1> QED
  BY Zenon, <1>4, <1>5, <1>6, <1>7, <1>8 DEF FInv

\* The symlink is moved and the file is swapped.
LEMMA SwapKeeps ==
  ASSUME FInv, RInv', NEW t \in Threads, pc[t] = "link",
         latest' = Name(t), file' = Name(t), up' = TRUE,
         pc' = [pc EXCEPT ![t] = IF up THEN "read" ELSE "idle"],
         UNCHANGED <<period, maxFiles, byName, clock, nextDate, dir, made, now, clean>>
  PROVE  FInv'
<1>1. PICK l \in {"idle", "read"} : pc' = [pc EXCEPT ![t] = l]
  BY Zenon
<1>2. /\ pc'[t] = l /\ \A u \in Threads : u # t => pc'[u] = pc[u]
      /\ \A u \in Threads : u # t => ~Refreshing(u) /\ ~Refreshing(u)'
      /\ \A u \in Threads : Refreshing(u)' => Refreshing(u)
      /\ \A u \in Threads : Roller(u)' => Roller(u)
      /\ Roller(t)
  <2>1. Refreshing(t)
    BY DEF Refreshing
  <2> QED
    BY Zenon, <1>1, <2>1, RefreshEffect
<1>3. ~Roller(t)'
  BY <1>2 DEF Roller
<1>4. FileTypes' /\ Linked'
  BY Zenon DEF FInv, FileTypes, Linked
<1>5. Alone'
  BY Zenon, <1>2 DEF FInv, Alone
<1>6. Dated'
  <2> SUFFICES ASSUME clean, period # 0 PROVE Dated'
    BY Zenon DEF Dated
  <2>1. \A u \in Threads : ~Roller(u)'
    BY Zenon, <1>2, <1>3 DEF FInv, Alone
  <2>2. nextDate = NextDate(period, now[t])
    BY Zenon, <1>2 DEF FInv, Dated
  <2>3. Name(t) = JoinDate(period, nextDate - 1)
    BY Zenon, <2>2, NameUntil
  <2>4. JoinDate(period, nextDate - 1)' = JoinDate(period, nextDate - 1)
    BY Zenon DEF JoinDate, Round
  <2> QED
    BY Zenon, <2>1, <2>3, <2>4 DEF Dated
<1>7. \A u \in Threads : pc'[u] # "create" /\ pc'[u] # "link"
  BY <1>2 DEF Refreshing
<1>8. Bounded'
  BY Zenon, <1>7 DEF FInv, Bounded
<1>9. Begun'
  BY Zenon, <1>2 DEF FInv, Begun, Round
<1>10. Held'
  <2>1. clean => Safe(Name(t))
    BY Zenon DEF FInv, Held
  <2>2. clean => Safe(file)'
    BY Zenon, <2>1 DEF Safe
  <2> QED
    BY Zenon, <1>7, <2>2 DEF Held, Safe
<1> QED
  BY Zenon, <1>4, <1>5, <1>6, <1>8, <1>9, <1>10 DEF FInv

\* Inner::new: the directory has no log of a later period.
LEMMA NewKeeps ==
  ASSUME FInv, RInv', NEW t \in Threads, New(t)
  PROVE  FInv'
<1>1. /\ UNCHANGED <<period, maxFiles, byName, clock, dir, latest, made, file, up>>
      /\ ~up /\ \A u \in Threads : pc[u] = "idle"
      /\ pc' = [pc EXCEPT ![t] = "prune"] /\ now' = [now EXCEPT ![t] = clock]
      /\ nextDate' = NextDate(period, clock) /\ clean' = TRUE
  BY Zenon DEF New, Goto, config, disk
<1>2. /\ pc'[t] = "prune" /\ now'[t] = clock
      /\ \A u \in Threads : u # t => pc'[u] = "idle" /\ now'[u] = now[u]
  BY Zenon, <1>1 DEF FInv, RInv, DateTypes
<1>3. FileTypes' /\ Linked'
  BY Zenon, <1>1 DEF FInv, FileTypes, Linked
<1>4. \A u \in Threads : /\ pc'[u] \in {"idle", "prune"}
                         /\ Roller(u)' \/ Refreshing(u)' => u = t
  BY <1>2 DEF Roller, Refreshing
<1>5. Alone'
  BY Zenon, <1>4 DEF Alone
<1>6. Dated'
  <2>1. NextDate(period, now[t])' = NextDate(period, clock)
    <3>1. period' = period /\ now'[t] = clock
      BY Zenon, <1>1, <1>2
    <3> QED
      BY Zenon, <3>1 DEF NextDate, Round
  <2> QED
    BY Zenon, <1>1, <1>4, <2>1 DEF Dated
<1>7. Bounded'
  <2>1. \A u \in Threads : pc'[u] # "create" /\ pc'[u] # "link"
    BY <1>4
  <2> QED
    BY Zenon, <1>1, <2>1 DEF FInv, Bounded
<1>8. Begun'
  <2>1. \A u \in Threads : now'[u] <= clock'
    <3>1. clock <= clock
      BY DEF FInv, RInv, DateTypes
    <3> QED
      BY Zenon, <1>1, <1>2, <3>1 DEF FInv, Begun
  <2>2. period # 0 => Round(period, nextDate' - 1) = Round(period, clock)
    <3> SUFFICES ASSUME period # 0 PROVE Round(period, nextDate' - 1) = Round(period, clock)
      BY Zenon
    <3>1. period \in Nat \ {0} /\ clock \in Int /\ Offset \in Int
      BY RollingAssumption DEF FInv, RInv, DateTypes
    <3>2. Round(period, Round(period, clock + period) - 1) = Round(period, clock)
      BY Zenon, <3>1, NextDateEnds
    <3> QED
      BY Zenon, <1>1, <3>2 DEF NextDate
  <2>3. /\ Round(period, clock)' = Round(period, clock)
        /\ Round(period, nextDate - 1)' = Round(period, nextDate' - 1)
    BY Zenon, <1>1 DEF Round
  <2> QED
    BY Zenon, <1>1, <2>1, <2>2, <2>3 DEF FInv, Begun
<1>9. Held'
  <2>1. \A u \in Threads : pc'[u] # "link"
    BY <1>4
  <2> QED
    BY Zenon, <1>1, <2>1 DEF Held
<1> QED
  BY Zenon, <1>3, <1>5, <1>6, <1>7, <1>8, <1>9 DEF FInv

\* A crash leaves the directory.
LEMMA CrashKeeps ==
  ASSUME FInv, RInv', Crash
  PROVE  FInv'
<1>1. /\ UNCHANGED <<period, maxFiles, byName, clock, dir, latest, made, clean>> /\ ~up'
      /\ \A u \in Threads : pc'[u] = "idle" /\ now'[u] = 0
  BY Zenon DEF Crash, config, disk
<1>2. \A u \in Threads : ~Roller(u)' /\ ~Refreshing(u)'
  BY <1>1 DEF Roller, Refreshing
<1>3. FileTypes' /\ Linked' /\ Dated'
  BY Zenon, <1>1, <1>2 DEF FInv, FileTypes, Linked, Dated
<1>4. Alone'
  <2>1. \A u \in Threads : pc'[u] \in {"idle", "prune", "create", "link"}
    BY <1>1
  <2> QED
    BY Zenon, <1>2, <2>1 DEF Alone
<1>5. \A u \in Threads : pc'[u] # "create" /\ pc'[u] # "link"
  BY <1>1
<1>6. Bounded' /\ Held'
  BY Zenon, <1>1, <1>5 DEF FInv, Bounded, Held
<1>7. Begun'
  <2>1. 0 <= clock
    BY DEF FInv, RInv, DateTypes
  <2> QED
    BY Zenon, <1>1, <1>2, <2>1 DEF FInv, Begun, Round
<1> QED
  BY Zenon, <1>3, <1>4, <1>6, <1>7 DEF FInv

\* The logs that are there at first are of periods that had begun.
LEMMA FilesInit == Init => FInv
<1> SUFFICES ASSUME Init PROVE FInv
  BY Zenon
<1>1. RInv
  BY Zenon, RInit
<1>2. /\ dir \in Seq(Int) /\ maxFiles \in Nat /\ clock = StartClock /\ made = ToSet(dir)
      /\ ~up /\ clean = TRUE /\ byName \in BOOLEAN /\ (byName => period # 0)
      /\ dir \in OldLogs /\ period \in Periods
      /\ \A t \in Threads : pc[t] = "idle" /\ now[t] = 0
  BY RollingAssumption DEF Init
<1>3. \A t \in Threads : ~Roller(t) /\ ~Refreshing(t)
  BY <1>2 DEF Roller, Refreshing
<1>4. FileTypes /\ Linked /\ Dated
  BY Zenon, <1>2, <1>3 DEF FileTypes, Linked, Dated
<1>5. \A t \in Threads : pc[t] \in {"idle", "prune", "create", "link"}
                         /\ pc[t] # "create" /\ pc[t] # "link"
  BY <1>2
<1>6. Alone /\ Bounded /\ Held
  BY Zenon, <1>2, <1>3, <1>5 DEF Alone, Bounded, Held
<1>7. Begun
  <2>1. \A t \in Threads : now[t] <= clock
    <3>1. 0 <= StartClock
      BY RollingAssumption
    <3> QED
      BY Zenon, <1>2, <3>1
  <2>2. period # 0 => \A i \in DOMAIN dir : dir[i] <= Round(period, clock)
    BY Zenon, <1>2, RollingAssumption
  <2>3. period # 0 => \A f \in ToSet(dir) : f <= Round(period, clock)
    BY Zenon, <2>2 DEF ToSet
  <2> QED
    BY Zenon, <1>2, <1>3, <2>1, <2>3 DEF Begun
<1> QED
  BY Zenon, <1>1, <1>4, <1>6, <1>7 DEF FInv

\* The steps of a thread that are quiet.
LEMMA QuietSteps ==
  ASSUME FInv, RInv', NEW t \in Threads,
         \/ MakeWriter(t) \/ ShouldRollover(t) \/ Lock(t) \/ ReadLock(t) \/ Write(t)
         \/ AdvanceDate(t) /\ nextDate # current[t]
  PROVE  FInv'
<1>1. /\ UNCHANGED <<period, maxFiles, byName, nextDate, dir, latest, made, file, up, clean, clock>>
      /\ \E l \in {"idle", "check", "cas", "prune", "read", "writing"} :
           /\ pc' = [pc EXCEPT ![t] = l]
           /\ IF l = "prune" THEN pc[t] = "lock" /\ \A u \in Threads : ~Refreshing(u)
              ELSE ~Roller(t) /\ up
      /\ now' = now \/ (~Roller(t) /\ now' = [now EXCEPT ![t] = clock])
           \/ (~Roller(t) /\ now' = [now EXCEPT ![t] = 0])
  <2>0. pc[t] \notin {"idle", "prune", "create", "link"} => up
    BY Zenon DEF FInv, Alone
  <2>1. CASE MakeWriter(t)
    BY <2>1 DEF MakeWriter, Goto, config, disk, Roller
  <2>2. CASE ShouldRollover(t)
    BY <2>0, <2>2 DEF ShouldRollover, Goto, config, disk, Roller
  <2>3. CASE Lock(t)
    BY <2>3 DEF Lock, Goto, config, disk
  <2>4. CASE ReadLock(t)
    BY <2>0, <2>4 DEF ReadLock, Goto, config, disk, Roller
  <2>5. CASE Write(t)
    BY <2>0, <2>5 DEF Write, Goto, config, disk, Roller
  <2>6. CASE AdvanceDate(t) /\ nextDate # current[t]
    BY <2>0, <2>6 DEF AdvanceDate, Goto, config, disk, Roller
  <2> QED
    BY Zenon, <2>1, <2>2, <2>3, <2>4, <2>5, <2>6
<1>2. PICK l \in {"idle", "check", "cas", "prune", "read", "writing"} :
        /\ pc' = [pc EXCEPT ![t] = l]
        /\ IF l = "prune" THEN pc[t] = "lock" /\ \A u \in Threads : ~Refreshing(u)
           ELSE ~Roller(t) /\ up
  BY Zenon, <1>1
<1>3. pc'[t] = l /\ \A u \in Threads : u # t => pc'[u] = pc[u]
  BY Zenon, <1>2 DEF FInv, RInv, DateTypes
<1>4. /\ Roller(t)' <=> Roller(t)
      /\ pc[t] # "create" /\ pc[t] # "link" /\ pc'[t] # "create" /\ pc'[t] # "link"
  BY <1>2, <1>3 DEF Roller
<1>5. \A u \in Threads : u # t => (Roller(u)' <=> Roller(u)) /\ (Refreshing(u)' <=> Refreshing(u))
  BY Zenon, <1>3 DEF Roller, Refreshing
<1>6. \A u \in Threads : /\ Roller(u)' <=> Roller(u)
                         /\ pc'[u] = "create" <=> pc[u] = "create"
                         /\ pc'[u] = "link" <=> pc[u] = "link"
                         /\ Roller(u) => now'[u] = now[u]
  BY Zenon, <1>1, <1>3, <1>4, <1>5 DEF FInv, RInv, DateTypes
<1>7. clock <= clock' /\ \A u \in Threads : now'[u] <= clock'
  <2>1. clock \in Nat /\ 0 <= clock /\ clock <= clock /\ clock' = clock
    BY <1>1 DEF FInv, RInv, DateTypes
  <2>2. \A u \in Threads : now'[u] = now[u] \/ now'[u] = clock \/ now'[u] = 0
    BY Zenon, <1>1 DEF FInv, RInv, DateTypes
  <2>3. \A u \in Threads : now[u] <= clock
    BY Zenon DEF FInv, Begun
  <2> QED
    BY Zenon, <2>1, <2>2, <2>3
<1>8. Alone'
  <2>1. Refreshing(t)' => \A u \in Threads : ~Refreshing(u)
    BY <1>2, <1>3 DEF Refreshing
  <2>2. \A u, v \in Threads : Refreshing(u)' /\ Refreshing(v)' => u = v
    <3>1. \A u, v \in Threads : Refreshing(u) /\ Refreshing(v) => u = v
      BY Zenon DEF FInv, Alone
    <3> QED
      BY Zenon, <1>5, <2>1, <3>1
  <2>3. ~up' => \A u \in Threads : pc'[u] \in {"idle", "prune", "create", "link"}
    BY Zenon, <1>1, <1>2, <1>3 DEF FInv, Alone
  <2> QED
    BY Zenon, <1>1, <1>6, <2>2, <2>3 DEF FInv, Alone
<1> QED
  BY Zenon, <1>1, <1>6, <1>7, <1>8, QuietStep

\* Every step keeps FInv.
LEMMA FilesStep == FInv /\ [Next]_vars => FInv'
<1> SUFFICES ASSUME FInv, [Next]_vars PROVE FInv'
  BY Zenon
<1>1. RInv'
  BY Zenon, RStep DEF FInv
<1>2. ASSUME UNCHANGED <<config, nextDate, disk, file, up, locals, clean>>,
             clock' \in Nat, clock <= clock'
      PROVE  FInv'
  <2>1. UNCHANGED <<period, maxFiles, byName, nextDate, dir, latest, made, file, up, clean, pc, now>>
    BY Zenon, <1>2 DEF config, disk, locals
  <2>2. /\ \A u \in Threads : (Roller(u)' <=> Roller(u)) /\ (Refreshing(u)' <=> Refreshing(u))
        /\ Alone'
    BY Zenon, <2>1 DEF FInv, Alone, Roller, Refreshing
  <2>3. \A u \in Threads : now'[u] <= clock'
    BY <1>2, <2>1 DEF FInv, RInv, DateTypes, Begun
  <2> QED
    BY Zenon, <1>1, <1>2, <2>1, <2>2, <2>3, QuietStep
<1>3. clock \in Nat /\ clock <= clock /\ clock + 1 \in Nat /\ clock <= clock + 1
  BY DEF FInv, RInv, DateTypes
<1>4. CASE UNCHANGED vars
  BY Zenon, <1>2, <1>3, <1>4 DEF vars
<1>5. CASE Tick
  BY Zenon, <1>2, <1>3, <1>5 DEF Tick
<1>6. CASE Crash
  BY Zenon, <1>1, <1>6, CrashKeeps
<1>7. ASSUME NEW t \in Threads, New(t) \/ Step(t) PROVE FInv'
  <2>1. CASE New(t)
    BY Zenon, <1>1, <2>1, NewKeeps
  <2>2. CASE \/ MakeWriter(t) \/ ShouldRollover(t) \/ Lock(t) \/ ReadLock(t) \/ Write(t)
             \/ AdvanceDate(t)
    BY Zenon, <1>1, <2>2, QuietSteps, AdvanceKeeps
  <2>3. CASE PruneOldLogs(t)
    BY Zenon, <1>1, <2>3, PruneKeeps
  <2>4. CASE OpenFile(t)
    <3>1. /\ pc[t] = "create" /\ Refreshing(t)
          /\ UNCHANGED <<period, maxFiles, byName, clock, nextDate, latest, now>>
      BY Zenon, <2>4 DEF OpenFile, config, Refreshing
    <3>2. CASE Fail(t) /\ UNCHANGED <<dir, made>>
      BY Zenon, <1>1, <3>1, <3>2, FailKeeps
    <3>3. CASE /\ IF Name(t) \in ToSet(dir) THEN UNCHANGED dir ELSE Created(Name(t))
               /\ made' = made \cup {Name(t)}
               /\ Goto(t, "link")
               /\ UNCHANGED <<file, up, faults, clean>>
      <4>1. pc' = [pc EXCEPT ![t] = "link"] /\ UNCHANGED <<file, up, clean>>
        BY Zenon, <3>3 DEF Goto
      <4> QED
        BY Zenon, <1>1, <3>1, <3>3, <4>1, OpenKeeps
    <3> QED
      BY Zenon, <2>4, <3>2, <3>3 DEF OpenFile
  <2>5. CASE Symlink(t)
    <3>1. /\ pc[t] = "link" /\ Refreshing(t)
          /\ UNCHANGED <<period, maxFiles, byName, clock, nextDate, dir, made, now>>
      BY Zenon, <2>5 DEF Symlink, config, Refreshing
    <3>2. CASE Fail(t) /\ latest' \in {NoFile, latest}
      BY Zenon, <1>1, <3>1, <3>2, FailKeeps
    <3>3. CASE /\ latest' = Name(t) /\ file' = Name(t) /\ up' = TRUE
               /\ Goto(t, IF up THEN "read" ELSE "idle")
               /\ UNCHANGED <<faults, clean>>
      BY Zenon, <1>1, <3>1, <3>3, SwapKeeps DEF Goto
    <3> QED
      BY Zenon, <2>5, <3>2, <3>3 DEF Symlink
  <2> QED
    BY Zenon, <1>7, <2>1, <2>2, <2>3, <2>4, <2>5 DEF Step
<1> QED
  BY Zenon, <1>4, <1>5, <1>6, <1>7 DEF Next

\* prune_old_logs and create_writer: the limit of max_log_files holds once the
\* appender exists, and no log is removed while there is room for it.
THEOREM KeepsLimit == Spec => []FilesBounded
<1>1. FInv => FilesBounded
  BY Zenon DEF FInv, Bounded, FilesBounded
<1> QED
  BY <1>1, FilesInit, FilesStep, PTL DEF Spec

\* prune_old_logs: the file that lines are written to stays in the directory.
THEOREM KeepsOpenFile == Spec => []OpenKept
<1>1. FInv => OpenKept
  <2> SUFFICES ASSUME FInv, up, clean, maxFiles # 1 \/ \A t \in Threads : ~Refreshing(t)
               PROVE  file \in ToSet(dir)
    BY Zenon DEF OpenKept
  <2>1. CASE maxFiles # 1
    BY Zenon, <2>1 DEF FInv, Held
  <2>2. CASE \A t \in Threads : ~Refreshing(t)
    <3>1. \A t \in Threads : pc[t] \notin {"create", "link"}
      BY <2>2 DEF Refreshing
    <3> QED
      BY Zenon, <3>1 DEF FInv, Held, Safe
  <2> QED
    BY Zenon, <2>1, <2>2
<1> QED
  BY <1>1, FilesInit, FilesStep, PTL DEF Spec

\* make_writer and create_writer: lines go to the file of the current period, and
\* the symlink points to it.
THEOREM WritesCurrent == Spec => []WriterCurrent
<1>1. FInv => WriterCurrent
  <2> SUFFICES ASSUME FInv PROVE WriterCurrent
    BY Zenon
  <2>1. up => \A t \in Threads : Pending(t) <=> Roller(t)
    BY DEF Pending, Roller, Refreshing
  <2> QED
    BY Zenon, <2>1 DEF FInv, Dated, Linked, WriterCurrent
<1> QED
  BY <1>1, FilesInit, FilesStep, PTL DEF Spec
==============================================================================
