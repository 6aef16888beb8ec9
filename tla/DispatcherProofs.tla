-------------------------- MODULE DispatcherProofs --------------------------
(***************************************************************************)
(* Proofs about the default dispatcher, for any number of threads and      *)
(* dispatchers and whatever the bounds: a closure of get_default never     *)
(* reenters (NoReentry), a thread that uses its guards as scopes runs with *)
(* its innermost guard's dispatcher (DeliversScoped), and never with one   *)
(* it did not ask for (NeverForeign).                                      *)
(*                                                                         *)
(* The argument has four parts, the conjuncts of Inv.  Entering: can_enter *)
(* says whether a closure borrows the default, or is about to.  Counted:   *)
(* SCOPED_COUNT is at least the number of guards held, those being dropped *)
(* included, so the fast path is taken only by a thread without guards.    *)
(* Scoping: a thread's default is its newest guard's dispatcher, and each  *)
(* guard remembers the one before it.  Publishing: GLOBAL_DISPATCH is      *)
(* whole once GLOBAL_INIT is INITIALIZED, and one thread writes it.  The   *)
(* steps that cannot unwind come first (get_default, set_global_default,   *)
(* the counting of guards, a thread's end), then set_default and the drop  *)
(* of a guard, which may.                                                  *)
(***************************************************************************)
EXTENDS Dispatcher, TLAPS, FiniteSetTheorems

\* Closures of t that run with the scoped dispatcher.
EnteredAt(t) == {i \in DOMAIN frames[t] : frames[t][i].path = "entered"}

\* t chose a path of get_default and has not called the closure yet.
Chose(t, path) == pc[t] = path \/ (pc[t] = "read_global" /\ arg[t] = path)

\* State::can_enter is cleared exactly while an Entered exists.
Entering ==
  \A t \in Threads :
    /\ \A i, j \in EnteredAt(t) : i = j
    /\ Chose(t, "entered") => EnteredAt(t) = {} /\ alive[t] /\ default[t] = None
    /\ canEnter[t] <=> EnteredAt(t) = {} /\ ~Chose(t, "entered")

\* The guards of a thread are held in closures that still run, the newer
\* ones no further out.
Nested ==
  \A t \in Threads : \A i \in DOMAIN guards[t] :
    /\ guards[t][i].depth <= Len(frames[t])
    /\ \A j \in DOMAIN guards[t] : i <= j => guards[t][i].depth <= guards[t][j].depth

\* One entry for each guard held and for each being dropped.
Counting ==
  {x \in Threads \X Nat : IF x[2] = 0 THEN pc[x[1]] = "uncount"
                                      ELSE x[2] <= Len(guards[x[1]])}

\* S has n elements.
HasSize(S, n) == ExistsBijection(1..n, S)

\* SCOPED_COUNT never falls below the guards there are.
Counted == \E n \in Nat : HasSize(Counting, n) /\ n <= scopedCount

\* A thread's default while it uses its guards as scopes.
Scoping ==
  \A t \in Threads :
    /\ Chose(t, "fast") => guards[t] = <<>>
    /\ scoped[t] /\ alive[t] =>
         /\ \A i \in DOMAIN guards[t] :
              guards[t][i].prior = IF i = 1 THEN None ELSE guards[t][i-1].set
         /\ IF pc[t] = "count"
            THEN default[t] = arg[t] /\ prior[t] = Innermost(t)
            ELSE default[t] = Innermost(t)

\* What a call remembers between its steps.
Remembered ==
  \A t \in Threads :
    /\ pc[t] \in {"count", "write_global", "store_global"} => arg[t] \in Dispatches
    /\ pc[t] = "read_global" => arg[t] \in {"fast", "entered"}

\* The publication of the global default.
Publishing ==
  /\ globalInit = "UNINITIALIZED" => globalDispatch = None
  /\ globalInit = "INITIALIZED" => globalDispatch \in Dispatches
  /\ \A t \in Threads :
       /\ pc[t] = "read_global" => globalInit = "INITIALIZED"
       /\ pc[t] \in {"write_global", "store_global"} => globalInit = "INITIALIZING"
       /\ pc[t] = "store_global" => globalDispatch \in Dispatches
       /\ \A u \in Threads :
            ({pc[t], pc[u]} \subseteq {"write_global", "store_global"}) => t = u

\* The inductive invariant.
Inv == /\ TypeOK /\ Entering /\ Nested /\ Counted /\ Scoping
       /\ Remembered /\ Publishing

-----------------------------------------------------------------------------
(* Sequences and counting                                                  *)

\* What it takes to have n elements: to be numbered from 1 to n.
LEMMA Numbering ==
  ASSUME NEW S, NEW n \in Nat
  PROVE  HasSize(S, n) <=>
           \E e \in [1..n -> S] : /\ \A i, j \in 1..n : e[i] = e[j] => i = j
                                  /\ \A x \in S : \E i \in 1..n : e[i] = x
BY Zenon DEF HasSize, ExistsBijection, Bijection, Injection, Surjection, IsInjective

\* The empty set, and only it, has 0 elements.
LEMMA SizeOfNone ==
  ASSUME NEW S, NEW n \in Nat
  PROVE  /\ HasSize({}, 0) /\ (S = {} /\ HasSize(S, n) => n = 0)
         /\ (HasSize(S, 0) => S = {})
<1>1. HasSize({}, 0)
  <2> DEFINE e == [i \in 1..0 |-> 0]
  <2>1. /\ e \in [1..0 -> {}] /\ \A i, j \in 1..0 : e[i] = e[j] => i = j
        /\ \A x \in {} : \E i \in 1..0 : e[i] = x
    OBVIOUS
  <2> HIDE DEF e
  <2> QED BY Zenon, <2>1, Numbering
<1>2. S = {} /\ HasSize(S, n) => n = 0
  <2> SUFFICES ASSUME S = {}, HasSize(S, n), n # 0 PROVE FALSE BY Zenon
  <2>1. PICK e : e \in [1..n -> S] BY Zenon, Numbering
  <2>2. e[1] \in S BY <2>1
  <2> QED BY Zenon, <2>2
<1>3. HasSize(S, 0) => S = {}
  <2>1. HasSize(S, 0) => \E e \in [1..0 -> S] : \A x \in S : \E i \in 1..0 : e[i] = x
    BY Numbering
  <2> QED BY <2>1
<1> QED BY Zenon, <1>1, <1>2, <1>3

\* Adding one element.
LEMMA AddOne ==
  ASSUME NEW S, NEW x, x \notin S, NEW n \in Nat, HasSize(S, n)
  PROVE  HasSize(S \cup {x}, n + 1)
<1>1. PICK e \in [1..n -> S] : /\ \A i, j \in 1..n : e[i] = e[j] => i = j
                               /\ \A y \in S : \E i \in 1..n : e[i] = y
  BY Numbering
<1> DEFINE g == [i \in 1..n + 1 |-> IF i = n + 1 THEN x ELSE e[i]]
<1>2. g \in [1..n + 1 -> S \cup {x}] OBVIOUS
<1>3. g[n + 1] = x /\ \A i \in 1..n : g[i] = e[i] /\ e[i] \in S OBVIOUS
<1> HIDE DEF g
<1>4. \A i \in 1..n + 1 : i \in 1..n \/ i = n + 1 OBVIOUS
<1>5. \A i, j \in 1..n + 1 : g[i] = g[j] => i = j BY Zenon, <1>1, <1>3, <1>4
<1>6. ASSUME NEW y \in S \cup {x} PROVE \E i \in 1..n + 1 : g[i] = y
  <2>1. CASE y = x BY <2>1, <1>3
  <2>2. CASE y \in S BY <2>2, <1>1, <1>3
  <2> QED BY Zenon, <2>1, <2>2
<1>7. PICK m \in Nat : m = n + 1 OBVIOUS
<1>8. /\ g \in [1..m -> S \cup {x}] /\ \A i, j \in 1..m : g[i] = g[j] => i = j
      /\ \A y \in S \cup {x} : \E i \in 1..m : g[i] = y
  BY <1>2, <1>5, <1>6, <1>7, Zenon
<1>9. HasSize(S \cup {x}, m) BY Zenon, <1>8, Numbering
<1> QED BY Zenon, <1>7, <1>9

\* Removing one element: the last one takes its number.
LEMMA RemoveOne ==
  ASSUME NEW S, NEW x \in S, NEW n \in Nat, HasSize(S, n)
  PROVE  n > 0 /\ HasSize(S \ {x}, n - 1)
<1>1. PICK e \in [1..n -> S] : /\ \A i, j \in 1..n : e[i] = e[j] => i = j
                               /\ \A y \in S : \E i \in 1..n : e[i] = y
  BY Numbering
<1>2. PICK k \in 1..n : e[k] = x BY Zenon, <1>1
<1> DEFINE g == [i \in 1..n - 1 |-> IF i = k THEN e[n] ELSE e[i]]
<1>3. \A i \in 1..n - 1 : /\ i \in 1..n /\ i # n
                          /\ g[i] = IF i = k THEN e[n] ELSE e[i]
  OBVIOUS
<1>4. n \in 1..n /\ n - 1 \in Nat OBVIOUS
<1>5. g \in [1..n - 1 -> S \ {x}]
  <2>1. \A i \in 1..n - 1 : g[i] \in S \ {x} BY Zenon, <1>1, <1>2, <1>3, <1>4
  <2> QED BY Zenon, <2>1
<1> HIDE DEF g
<1>6. \A i, j \in 1..n - 1 : g[i] = g[j] => i = j BY Zenon, <1>1, <1>2, <1>3, <1>4
<1>7. ASSUME NEW y \in S \ {x} PROVE \E i \in 1..n - 1 : g[i] = y
  <2>1. PICK i \in 1..n : e[i] = y BY Zenon, <1>1
  <2>2. i # k BY Zenon, <2>1, <1>2
  <2>3. CASE i = n BY <2>1, <2>2, <2>3, <1>3
  <2>4. CASE i # n
    <3>1. i \in 1..n - 1 BY <2>4
    <3> QED BY Zenon, <2>1, <2>2, <3>1, <1>3
  <2> QED BY Zenon, <2>3, <2>4
<1>8. PICK m \in Nat : m = n - 1 BY Zenon, <1>4
<1>9. /\ g \in [1..m -> S \ {x}] /\ \A i, j \in 1..m : g[i] = g[j] => i = j
      /\ \A y \in S \ {x} : \E i \in 1..m : g[i] = y
  BY <1>5, <1>6, <1>7, <1>8, Zenon
<1>10. HasSize(S \ {x}, m) BY Zenon, <1>9, Numbering
<1> QED BY <1>4, <1>8, <1>10

\* A sequence that is not empty has a last element.
LEMMA EmptySeq ==
  ASSUME NEW S
  PROVE  /\ <<>> \in Seq(S) /\ Len(<<>>) = 0
         /\ \A seq \in Seq(S) : seq # <<>> => Len(seq) \in Nat \ {0}
OBVIOUS

\* Two sequences one after the other.
LEMMA ConcatSeq ==
  ASSUME NEW S, NEW s1 \in Seq(S), NEW s2 \in Seq(S)
  PROVE  /\ s1 \o s2 \in Seq(S) /\ Len(s1 \o s2) = Len(s1) + Len(s2)
         /\ \A i \in 1..Len(s1) + Len(s2) :
              (s1 \o s2)[i] = IF i <= Len(s1) THEN s1[i] ELSE s2[i - Len(s1)]
OBVIOUS

\* What is left of a sequence once its i-th element is taken out.
LEMMA WithoutOne ==
  ASSUME NEW S, NEW s \in Seq(S), NEW i \in 1..Len(s)
  PROVE  /\ Without(s, i) \in Seq(S)
         /\ Len(Without(s, i)) = Len(s) - 1
         /\ \A j \in 1..(Len(s) - 1) :
              Without(s, i)[j] = IF j < i THEN s[j] ELSE s[j + 1]
<1> DEFINE a == SubSeq(s, 1, i - 1)
           b == SubSeq(s, i + 1, Len(s))
<1>1. /\ a \in Seq(S) /\ Len(a) = i - 1
      /\ \A j \in 1..(i - 1) : a[j] = s[j]
  OBVIOUS
<1>2. /\ b \in Seq(S) /\ Len(b) = Len(s) - i
      /\ \A j \in 1..(Len(s) - i) : b[j] = s[i + j]
  OBVIOUS
<1>3. Without(s, i) = a \o b
  BY Zenon DEF Without
<1> HIDE DEF a, b
<1>4. /\ a \o b \in Seq(S) /\ Len(a \o b) = Len(s) - 1
      /\ \A j \in 1..(Len(s) - 1) :
           (a \o b)[j] = IF j <= i - 1 THEN a[j] ELSE b[j - (i - 1)]
  <2>1. Len(a) \in Nat /\ Len(b) \in Nat /\ Len(a) + Len(b) = Len(s) - 1
    BY <1>1, <1>2
  <2>2. /\ a \o b \in Seq(S) /\ Len(a \o b) = Len(a) + Len(b)
        /\ \A j \in 1..(Len(a) + Len(b)) :
             (a \o b)[j] = IF j <= Len(a) THEN a[j] ELSE b[j - Len(a)]
    BY Zenon, <1>1, <1>2, ConcatSeq
  <2>3. QED
    BY Zenon, <1>1, <2>1, <2>2
<1>5. QED
  BY <1>1, <1>2, <1>3, <1>4

\* Without its last element a sequence agrees with itself.
LEMMA WithoutLast ==
  ASSUME NEW S, NEW s \in Seq(S), s # <<>>
  PROVE  /\ Len(s) \in 1..Len(s) /\ Len(s) > 0
         /\ Without(s, Len(s)) \in Seq(S)
         /\ Len(Without(s, Len(s))) = Len(s) - 1
         /\ \A j \in 1..(Len(s) - 1) : Without(s, Len(s))[j] = s[j]
<1>1. Len(s) \in 1..Len(s)
  BY EmptySeq
<1>2. QED
  BY <1>1, WithoutOne

\* A prefix of a sequence.
LEMMA Prefix ==
  ASSUME NEW S, NEW s \in Seq(S), NEW n \in 0..Len(s)
  PROVE  /\ SubSeq(s, 1, n) \in Seq(S)
         /\ Len(SubSeq(s, 1, n)) = n
         /\ \A j \in 1..n : SubSeq(s, 1, n)[j] = s[j]
OBVIOUS

\* Moving guards out of a closure changes where they are held and nothing else.
LEMMA MovedOutGuards ==
  ASSUME NEW s \in Seq(Guard), NEW n \in Nat
  PROVE  /\ MovedOut(s, n) \in Seq(Guard)
         /\ Len(MovedOut(s, n)) = Len(s)
         /\ \A i \in 1..Len(s) :
              /\ MovedOut(s, n)[i].set = s[i].set
              /\ MovedOut(s, n)[i].prior = s[i].prior
              /\ MovedOut(s, n)[i].depth =
                   IF s[i].depth > n THEN n ELSE s[i].depth
<1> DEFINE m == MovedOut(s, n)
<1>1. m = [i \in 1..Len(s) |->
            [s[i] EXCEPT !.depth = IF s[i].depth > n THEN n ELSE s[i].depth]]
  BY DEF MovedOut
<1>2. \A i \in 1..Len(s) : s[i] \in Guard
  OBVIOUS
<1>3. \A i \in 1..Len(s) : m[i] \in Guard
  BY Zenon, <1>1, <1>2 DEF Guard
<1>4. m \in Seq(Guard) /\ Len(m) = Len(s)
  <2>1. m \in [1..Len(s) -> Guard]
    BY Zenon, <1>1, <1>3
  <2>2. QED
    BY <2>1
<1>5. QED
  BY Zenon, <1>1, <1>2, <1>4 DEF Guard

\* Nothing is counted twice: steps that neither take nor give guards.
LEMMA CountedSame ==
  ASSUME TypeOK, Counted, scopedCount' = scopedCount,
         \A u \in Threads : /\ pc'[u] = "uncount" <=> pc[u] = "uncount"
                            /\ Len(guards'[u]) = Len(guards[u])
  PROVE  Counted'
<1>1. Counting' = Counting
  BY Zenon DEF Counting
<1>2. QED
  BY Zenon, <1>1 DEF Counted

\* A thread that starts a closure leaves its guards where they are.
LEMMA Deeper ==
  ASSUME TypeOK, Nested, guards' = guards, frames' \in [Threads -> Seq(Frame)],
         \A u \in Threads : Len(frames'[u]) >= Len(frames[u])
  PROVE  Nested'
<1>1. \A u \in Threads : \A i \in DOMAIN guards[u] : guards[u][i].depth \in Nat
  <2>1. \A u \in Threads : \A i \in DOMAIN guards[u] : guards[u][i] \in Guard
    BY DEF TypeOK
  <2>2. QED
    BY Zenon, <2>1 DEF Guard
<1>2. \A u \in Threads : Len(frames[u]) \in Nat /\ Len(frames'[u]) \in Nat
  BY DEF TypeOK
<1>3. QED
  BY <1>1, <1>2 DEF Nested

\* SCOPED_COUNT is zero only if no thread holds a guard.
LEMMA NoneHeld ==
  ASSUME TypeOK, Counted, scopedCount = 0, NEW t \in Threads
  PROVE  guards[t] = <<>>
<1>1. Counting = {}
  <2>1. PICK n \in Nat : HasSize(Counting, n) /\ n <= scopedCount
    BY Zenon DEF Counted
  <2>2. n = 0
    BY <2>1
  <2>3. QED
    BY Zenon, <2>1, <2>2, SizeOfNone
<1>2. guards[t] \in Seq(Guard) /\ Len(guards[t]) \in Nat
  BY DEF TypeOK
<1>3. SUFFICES ASSUME Len(guards[t]) # 0 PROVE FALSE
  BY Zenon, <1>2, EmptySeq
<1>4. <<t, Len(guards[t])>> \in Counting
  BY <1>2, <1>3 DEF Counting
<1>5. QED
  BY Zenon, <1>1, <1>4

\* The history variable: what a scoped thread's last step did.
Scopes == scoped' = [u \in Threads |-> scoped[u] /\ InScope(u)]

\* A thread that was in scope, and whose last step was.
LEMMA StillScoped ==
  ASSUME TypeOK, Scopes, NEW u \in Threads
  PROVE  /\ scoped' \in [Threads -> BOOLEAN]
         /\ scoped'[u] => scoped[u] /\ InScope(u)
<1>1. scoped'[u] = (scoped[u] /\ InScope(u))
  BY Zenon DEF Scopes
<1>2. scoped' \in [Threads -> BOOLEAN]
  BY Zenon DEF Scopes, TypeOK, InScope
<1>3. QED
  BY Zenon, <1>1, <1>2

\* The closure that starts is the only one that may be new.
LEMMA Called ==
  ASSUME TypeOK, NEW t \in Threads, NEW given \in Dispatches \cup {None, Torn},
         NEW path \in {"fast", "entered", "none"}, Call(t, path, given)
  PROVE  /\ frames' \in [Threads -> Seq(Frame)]
         /\ \A u \in Threads : Len(frames'[u]) >= Len(frames[u])
         /\ Len(frames'[t]) = Len(frames[t]) + 1
         /\ Last(frames'[t]).given = given
         /\ EnteredAt(t)' = EnteredAt(t) \cup
              (IF path = "entered" THEN {Len(frames[t]) + 1} ELSE {})
         /\ \A u \in Threads \ {t} : EnteredAt(u)' = EnteredAt(u)
<1> DEFINE fr == [path |-> path, given |-> given]
<1>1. fr \in Frame /\ fr.path = path /\ fr.given = given
  BY Zenon DEF Frame
<1> HIDE DEF fr
<1>2. frames' = [frames EXCEPT ![t] = Append(@, fr)]
  BY Zenon DEF Call, fr
<1>3. frames \in [Threads -> Seq(Frame)]
  BY Zenon DEF TypeOK
<1>4. /\ frames' \in [Threads -> Seq(Frame)]
      /\ \A u \in Threads \ {t} : frames'[u] = frames[u]
      /\ frames'[t] = Append(frames[t], fr)
  BY <1>1, <1>2, <1>3
<1>5. /\ Len(frames'[t]) = Len(frames[t]) + 1
      /\ DOMAIN frames'[t] = 1..(Len(frames[t]) + 1)
      /\ DOMAIN frames[t] = 1..Len(frames[t])
      /\ Len(frames[t]) \in Nat
      /\ frames'[t][Len(frames[t]) + 1] = fr
      /\ \A i \in 1..Len(frames[t]) : frames'[t][i] = frames[t][i]
  BY <1>1, <1>3, <1>4
<1>6. EnteredAt(t)' = EnteredAt(t) \cup
        (IF path = "entered" THEN {Len(frames[t]) + 1} ELSE {})
  BY <1>1, <1>5 DEF EnteredAt
<1>7. \A u \in Threads \ {t} : EnteredAt(u)' = EnteredAt(u)
  BY Zenon, <1>4 DEF EnteredAt
<1>8. \A u \in Threads : Len(frames'[u]) >= Len(frames[u])
  <2>1. \A u \in Threads : Len(frames[u]) \in Nat
    BY <1>3
  <2>2. QED
    BY <1>4, <1>5, <2>1
<1>9. QED
  BY Zenon, <1>1, <1>4, <1>5, <1>6, <1>7, <1>8 DEF Last

-----------------------------------------------------------------------------
(* The steps of get_default                                                *)

\* The load of SCOPED_COUNT and the entry keep the invariant.
LEMMA GetDefaultKeeps ==
  ASSUME Inv, Scopes, NEW t \in Threads, GetDefault(t)
  PROVE  Inv'
<1> USE DispatcherAssumption DEF Inv
<1>1. /\ pc[t] = "idle"
      /\ UNCHANGED <<default, alive, scopedCount, exists, globalInit,
                     globalDispatch, guards, arg, prior>>
  BY Zenon DEF GetDefault, globalVars
<1>2. \A u \in Threads : scoped'[u] => scoped[u]
  BY Zenon, StillScoped
<1>a. scoped' \in [Threads -> BOOLEAN]
  BY Zenon, StillScoped
<1>3. CASE scopedCount = 0 /\ Goto(t, "fast") /\ UNCHANGED <<canEnter, frames>>
  <2>1. pc' = [pc EXCEPT ![t] = "fast"] /\ UNCHANGED <<canEnter, frames>>
    BY Zenon, <1>3 DEF Goto
  <2>2. TypeOK'
    BY Zenon, <1>1, <1>a, <2>1 DEF TypeOK
  <2>3. Entering'
    BY <1>1, <2>1 DEF Entering, EnteredAt, Chose, TypeOK
  <2>4. Nested'
    BY Zenon, <1>1, <2>1 DEF Nested
  <2>5. Counted'
    BY Zenon, <1>1, <2>1, CountedSame DEF TypeOK
  <2>6. guards[t] = <<>>
    BY Zenon, <1>3, NoneHeld
  <2>7. Scoping'
    BY <1>1, <1>2, <2>1, <2>6 DEF Scoping, Chose, Innermost, TypeOK
  <2>8. Remembered' /\ Publishing'
    BY <1>1, <2>1 DEF Remembered, Publishing, TypeOK
  <2>9. QED
    BY Zenon, <2>2, <2>3, <2>4, <2>5, <2>7, <2>8
<1>4. CASE /\ scopedCount # 0 /\ alive[t] /\ Enter(t) /\ default[t] # None
           /\ Call(t, "entered", default[t]) /\ UNCHANGED pc
  <2>1. /\ canEnter[t] /\ canEnter' = [canEnter EXCEPT ![t] = FALSE]
        /\ UNCHANGED pc
    BY Zenon, <1>4 DEF Enter
  <2>2. /\ frames' \in [Threads -> Seq(Frame)]
        /\ \A u \in Threads : Len(frames'[u]) >= Len(frames[u])
        /\ EnteredAt(t)' = EnteredAt(t) \cup {Len(frames[t]) + 1}
        /\ \A u \in Threads \ {t} : EnteredAt(u)' = EnteredAt(u)
    BY Zenon, <1>4, Called DEF TypeOK
  <2>3. TypeOK'
    BY Zenon, <1>1, <1>a, <2>1, <2>2 DEF TypeOK
  <2>4. Entering'
    <3>1. EnteredAt(t) = {}
      BY Zenon, <2>1 DEF Entering
    <3>2. EnteredAt(t)' = {Len(frames[t]) + 1}
      BY Zenon, <2>2, <3>1
    <3>3. ~Chose(t, "entered")' /\ ~canEnter'[t]
      BY Zenon, <1>1, <2>1 DEF Chose, TypeOK
    <3>4. \A u \in Threads \ {t} :
            /\ Chose(u, "entered")' <=> Chose(u, "entered")
            /\ canEnter'[u] <=> canEnter[u]
            /\ alive'[u] = alive[u] /\ default'[u] = default[u]
      BY Zenon, <1>1, <2>1 DEF Chose, TypeOK
    <3>5. \A u \in Threads \ {t} : EnteredAt(u)' = EnteredAt(u)
      BY Zenon, <2>2
    <3>6. QED
      BY SMTT(30), <3>2, <3>3, <3>4, <3>5 DEF Entering
  <2>5. Nested'
    BY Zenon, <1>1, <2>2, Deeper
  <2>6. Counted'
    BY Zenon, <1>1, <2>1, CountedSame
  <2>7. Scoping'
    BY <1>1, <1>2, <2>1 DEF Scoping, Chose, Innermost
  <2>8. Remembered' /\ Publishing'
    BY Zenon, <1>1, <2>1 DEF Remembered, Publishing
  <2>9. QED
    BY Zenon, <2>3, <2>4, <2>5, <2>6, <2>7, <2>8
<1>5. CASE /\ scopedCount # 0 /\ alive[t] /\ Enter(t) /\ default[t] = None
           /\ Goto(t, "entered") /\ UNCHANGED frames
  <2>1. /\ canEnter[t] /\ canEnter' = [canEnter EXCEPT ![t] = FALSE]
        /\ pc' = [pc EXCEPT ![t] = "entered"] /\ UNCHANGED frames
    BY Zenon, <1>5 DEF Enter, Goto
  <2>2. TypeOK'
    BY Zenon, <1>1, <1>a, <2>1 DEF TypeOK
  <2>3. Entering'
    BY <1>1, <1>5, <2>1 DEF Entering, EnteredAt, Chose, TypeOK
  <2>4. Nested'
    BY Zenon, <1>1, <2>1 DEF Nested
  <2>5. Counted'
    BY Zenon, <1>1, <2>1, CountedSame DEF TypeOK
  <2>6. Scoping'
    BY <1>1, <1>2, <2>1 DEF Scoping, Chose, Innermost, TypeOK
  <2>7. Remembered' /\ Publishing'
    BY <1>1, <2>1 DEF Remembered, Publishing, TypeOK
  <2>8. QED
    BY Zenon, <2>2, <2>3, <2>4, <2>5, <2>6, <2>7
<1>6. CASE /\ scopedCount # 0 /\ ~(alive[t] /\ canEnter[t])
           /\ Call(t, "none", None) /\ UNCHANGED <<canEnter, pc>>
  <2>1. UNCHANGED <<canEnter, pc>>
    BY Zenon, <1>6
  <2>2. /\ frames' \in [Threads -> Seq(Frame)]
        /\ \A u \in Threads : Len(frames'[u]) >= Len(frames[u])
        /\ EnteredAt(t)' = EnteredAt(t)
        /\ \A u \in Threads \ {t} : EnteredAt(u)' = EnteredAt(u)
    BY <1>6, Called DEF TypeOK
  <2>3. TypeOK'
    BY Zenon, <1>1, <1>a, <2>1, <2>2 DEF TypeOK
  <2>4. Entering'
    BY <1>1, <2>1, <2>2 DEF Entering, Chose
  <2>5. Nested'
    BY Zenon, <1>1, <2>2, Deeper
  <2>6. Counted'
    BY Zenon, <1>1, <2>1, CountedSame
  <2>7. Scoping'
    BY <1>1, <1>2, <2>1 DEF Scoping, Chose, Innermost
  <2>8. Remembered' /\ Publishing'
    BY Zenon, <1>1, <2>1 DEF Remembered, Publishing
  <2>9. QED
    BY Zenon, <2>3, <2>4, <2>5, <2>6, <2>7, <2>8
<1>7. QED
  BY Zenon, <1>3, <1>4, <1>5, <1>6 DEF GetDefault

\* The closure that t chose a path for is called, with `given`.
LEMMA CallKeeps ==
  ASSUME Inv, Scopes, NEW t \in Threads, NEW path \in {"fast", "entered"},
         NEW given \in Dispatches \cup {None, Torn},
         pc[t] \in {"fast", "entered", "read_global"},
         Chose(t, path), Call(t, path, given), Goto(t, "idle"),
         arg' = arg \/ arg' = [arg EXCEPT ![t] = None],
         UNCHANGED <<stateVars, scopedCount, exists, globalVars, guards, prior>>
  PROVE  Inv'
<1> USE DispatcherAssumption DEF Inv
<1>1. /\ pc' = [pc EXCEPT ![t] = "idle"]
      /\ UNCHANGED <<default, canEnter, alive, scopedCount, exists, globalInit,
                     globalDispatch, guards, prior>>
  BY Zenon DEF Goto, stateVars, globalVars
<1>2. scoped' \in [Threads -> BOOLEAN] /\ \A u \in Threads : scoped'[u] => scoped[u]
  BY Zenon, StillScoped
<1>3. /\ frames' \in [Threads -> Seq(Frame)]
      /\ \A u \in Threads : Len(frames'[u]) >= Len(frames[u])
      /\ EnteredAt(t)' = EnteredAt(t) \cup
           (IF path = "entered" THEN {Len(frames[t]) + 1} ELSE {})
      /\ \A u \in Threads \ {t} : EnteredAt(u)' = EnteredAt(u)
  BY Called
<1>4. \A u \in Threads \ {t} : pc'[u] = pc[u] /\ arg'[u] = arg[u]
  BY Zenon, <1>1 DEF TypeOK
<1>5. TypeOK'
  BY Zenon, <1>1, <1>2, <1>3 DEF TypeOK
<1>6. Entering'
  <2>1. ~Chose(t, "entered")'
    BY Zenon, <1>1 DEF Chose, TypeOK
  <2>2. /\ \A i, j \in EnteredAt(t)' : i = j
        /\ canEnter[t] <=> EnteredAt(t)' = {}
    <3>1. CASE path = "entered"
      BY Zenon, <1>3, <3>1 DEF Entering
    <3>2. CASE path = "fast"
      BY Zenon, <1>3, <3>2 DEF Entering, Chose
    <3>3. QED
      BY Zenon, <3>1, <3>2
  <2>3. \A u \in Threads \ {t} : Chose(u, "entered")' <=> Chose(u, "entered")
    BY Zenon, <1>4 DEF Chose
  <2>4. \A u \in Threads \ {t} : EnteredAt(u)' = EnteredAt(u)
    BY Zenon, <1>3
  <2>5. QED
    BY <1>1, <2>1, <2>2, <2>3, <2>4 DEF Entering
<1>7. Nested'
  BY Zenon, <1>1, <1>3, Deeper
<1>8. Counted'
  <2>1. \A u \in Threads : pc'[u] = "uncount" <=> pc[u] = "uncount"
    BY Zenon, <1>1, <1>4 DEF TypeOK
  <2>2. QED
    BY Zenon, <1>1, <2>1, CountedSame
<1>9. Scoping'
  <2>1. \A u \in Threads : Chose(u, "fast")' => Chose(u, "fast")
    BY Zenon, <1>1, <1>4 DEF Chose, TypeOK
  <2>2. \A u \in Threads : /\ pc'[u] = "count" <=> pc[u] = "count"
                           /\ pc[u] = "count" => arg'[u] = arg[u]
    BY Zenon, <1>1, <1>4 DEF TypeOK
  <2>3. QED
    BY <1>1, <1>2, <2>1, <2>2 DEF Scoping, Innermost
<1>10. Remembered' /\ Publishing'
  BY <1>1, <1>4 DEF Remembered, Publishing, TypeOK
<1>11. QED
  BY Zenon, <1>5, <1>6, <1>7, <1>8, <1>9, <1>10

\* The load of GLOBAL_INIT keeps the invariant.
LEMMA GetGlobalKeeps ==
  ASSUME Inv, Scopes, NEW t \in Threads, GetGlobal(t)
  PROVE  Inv'
<1> USE DispatcherAssumption DEF Inv
<1>1. /\ pc[t] \in {"fast", "entered"}
      /\ UNCHANGED <<stateVars, scopedCount, exists, globalVars, guards, prior>>
  BY Zenon DEF GetGlobal
<1>2. CASE globalInit # "INITIALIZED"
  <2>1. Call(t, pc[t], None) /\ Goto(t, "idle") /\ arg' = arg
    BY Zenon, <1>2 DEF GetGlobal
  <2>2. Chose(t, pc[t])
    BY Zenon DEF Chose
  <2>3. QED
    BY Zenon, <1>1, <2>1, <2>2, CallKeeps
<1>3. CASE globalInit = "INITIALIZED"
  <2>1. /\ arg' = [arg EXCEPT ![t] = pc[t]]
        /\ pc' = [pc EXCEPT ![t] = "read_global"] /\ UNCHANGED frames
        /\ UNCHANGED <<default, canEnter, alive, scopedCount, exists,
                       globalInit, globalDispatch, guards, prior>>
    BY Zenon, <1>1, <1>3 DEF GetGlobal, Goto, stateVars, globalVars
  <2>2. scoped' \in [Threads -> BOOLEAN] /\ \A u \in Threads : scoped'[u] => scoped[u]
    BY Zenon, StillScoped
  <2>3. /\ Chose(t, "fast")' <=> Chose(t, "fast")
        /\ Chose(t, "entered")' <=> Chose(t, "entered")
        /\ pc'[t] # "count" /\ pc[t] # "count"
    BY Zenon, <1>1, <2>1 DEF Chose, TypeOK
  <2>4. \A u \in Threads \ {t} : pc'[u] = pc[u] /\ arg'[u] = arg[u]
    BY Zenon, <2>1 DEF TypeOK
  <2>5. \A u \in Threads \ {t} :
          /\ Chose(u, "fast")' <=> Chose(u, "fast")
          /\ Chose(u, "entered")' <=> Chose(u, "entered")
    BY Zenon, <2>4 DEF Chose
  <2>6. TypeOK'
    BY Zenon, <1>1, <2>1, <2>2 DEF TypeOK
  <2>7. Entering'
    BY <2>1, <2>3, <2>5 DEF Entering, EnteredAt
  <2>8. Nested'
    BY Zenon, <2>1 DEF Nested
  <2>9. Counted'
    BY Zenon, <1>1, <2>1, <2>4, CountedSame DEF TypeOK
  <2>10. Scoping'
    BY <2>1, <2>2, <2>3, <2>4, <2>5 DEF Scoping, Innermost
  <2>11. Remembered' /\ Publishing'
    BY SMTT(60), <1>1, <1>3, <2>1, <2>4 DEF Remembered, Publishing, TypeOK
  <2>12. QED
    BY Zenon, <2>6, <2>7, <2>8, <2>9, <2>10, <2>11
<1>4. QED
  BY Zenon, <1>2, <1>3

\* The read of GLOBAL_DISPATCH keeps the invariant.
LEMMA ReadGlobalKeeps ==
  ASSUME Inv, Scopes, NEW t \in Threads, ReadGlobal(t)
  PROVE  Inv'
<1> USE DispatcherAssumption DEF Inv
<1>1. /\ pc[t] = "read_global" /\ Call(t, arg[t], globalDispatch)
      /\ arg' = [arg EXCEPT ![t] = None] /\ Goto(t, "idle")
      /\ UNCHANGED <<stateVars, scopedCount, exists, globalVars, guards, prior>>
  BY Zenon DEF ReadGlobal
<1>2. arg[t] \in {"fast", "entered"} /\ globalDispatch \in Dispatches \cup {None, Torn}
  BY Zenon, <1>1 DEF Remembered, TypeOK
<1>3. Chose(t, arg[t])
  BY Zenon, <1>1 DEF Chose
<1>4. QED
  BY Zenon, <1>1, <1>2, <1>3, CallKeeps

\* The return of a closure keeps the invariant.
LEMMA ReturnKeeps ==
  ASSUME Inv, Scopes, NEW t \in Threads, Return(t)
  PROVE  Inv'
<1> USE DEF Inv
<1>1. /\ pc[t] = "idle" /\ frames[t] # <<>>
      /\ frames' = [frames EXCEPT ![t] = Without(frames[t], Len(frames[t]))]
      /\ guards' = [guards EXCEPT ![t] = MovedOut(guards[t], Len(frames[t]) - 1)]
      /\ canEnter' = IF Last(frames[t]).path = "entered"
                     THEN [canEnter EXCEPT ![t] = TRUE] ELSE canEnter
      /\ UNCHANGED <<default, alive, scopedCount, exists, globalInit,
                     globalDispatch, pc, arg, prior>>
  BY Zenon DEF Return, globalVars
<1>2. scoped' \in [Threads -> BOOLEAN] /\ \A u \in Threads : scoped'[u] => scoped[u]
  BY Zenon, StillScoped
<1>3. frames[t] \in Seq(Frame) /\ guards[t] \in Seq(Guard)
  BY Zenon DEF TypeOK
<1>4. PICK n \in Nat : n = Len(frames[t]) - 1
  BY <1>1, <1>3, WithoutLast
<1>5. /\ frames'[t] \in Seq(Frame) /\ Len(frames'[t]) = n
      /\ \A i \in 1..n : frames'[t][i] = frames[t][i]
      /\ \A u \in Threads \ {t} : frames'[u] = frames[u]
      /\ frames' \in [Threads -> Seq(Frame)]
  <2>1. frames'[t] = Without(frames[t], Len(frames[t]))
    BY Zenon, <1>1 DEF TypeOK
  <2>2. \A u \in Threads \ {t} : frames'[u] = frames[u]
    BY Zenon, <1>1 DEF TypeOK
  <2>3. /\ frames'[t] \in Seq(Frame) /\ Len(frames'[t]) = n
        /\ \A i \in 1..n : frames'[t][i] = frames[t][i]
    BY Zenon, <1>1, <1>3, <1>4, <2>1, WithoutLast
  <2>4. QED
    BY Zenon, <1>1, <2>1, <2>2, <2>3 DEF TypeOK
<1>6. /\ guards'[t] \in Seq(Guard) /\ Len(guards'[t]) = Len(guards[t])
      /\ \A i \in 1..Len(guards[t]) :
           /\ guards'[t][i].set = guards[t][i].set
           /\ guards'[t][i].prior = guards[t][i].prior
           /\ guards'[t][i].depth =
                IF guards[t][i].depth > n THEN n ELSE guards[t][i].depth
      /\ \A u \in Threads \ {t} : guards'[u] = guards[u]
      /\ guards' \in [Threads -> Seq(Guard)]
  <2>1. guards'[t] = MovedOut(guards[t], n)
    BY Zenon, <1>1, <1>4 DEF TypeOK
  <2>2. \A u \in Threads \ {t} : guards'[u] = guards[u]
    BY Zenon, <1>1 DEF TypeOK
  <2>3. /\ guards'[t] \in Seq(Guard) /\ Len(guards'[t]) = Len(guards[t])
        /\ \A i \in 1..Len(guards[t]) :
             /\ guards'[t][i].set = guards[t][i].set
             /\ guards'[t][i].prior = guards[t][i].prior
             /\ guards'[t][i].depth =
                  IF guards[t][i].depth > n THEN n ELSE guards[t][i].depth
    <3> DEFINE m == MovedOut(guards[t], n)
    <3>1. /\ m \in Seq(Guard) /\ Len(m) = Len(guards[t])
          /\ \A i \in 1..Len(guards[t]) :
               /\ m[i].set = guards[t][i].set
               /\ m[i].prior = guards[t][i].prior
               /\ m[i].depth = IF guards[t][i].depth > n THEN n ELSE guards[t][i].depth
      BY Zenon, <1>3, MovedOutGuards
    <3> HIDE DEF m
    <3>2. guards'[t] = m
      BY Zenon, <2>1 DEF m
    <3>3. QED
      BY Zenon, <3>1, <3>2
  <2>4. QED
    BY Zenon, <1>1, <2>1, <2>2, <2>3 DEF TypeOK
<1>7. TypeOK'
  BY Zenon, <1>1, <1>2, <1>5, <1>6 DEF TypeOK
<1>8. Entering'
  <2>1. EnteredAt(t)' = EnteredAt(t) \ {n + 1}
    <3>1. DOMAIN frames[t] = 1..(n + 1) /\ DOMAIN frames'[t] = 1..n
      BY <1>3, <1>4, <1>5
    <3>2. QED
      BY <1>5, <3>1 DEF EnteredAt
  <2>2. n + 1 \in EnteredAt(t) <=> Last(frames[t]).path = "entered"
    BY <1>3, <1>4 DEF EnteredAt, Last
  <2>3. \A u \in Threads \ {t} : EnteredAt(u)' = EnteredAt(u)
    BY Zenon, <1>5 DEF EnteredAt
  <2>4. \A u \in Threads : Chose(u, "entered")' <=> Chose(u, "entered")
    BY Zenon, <1>1 DEF Chose
  <2>5. ~Chose(t, "entered")
    BY Zenon, <1>1 DEF Chose
  <2>6. /\ \A i, j \in EnteredAt(t)' : i = j
        /\ canEnter'[t] <=> EnteredAt(t)' = {}
    <3>1. CASE Last(frames[t]).path = "entered"
      <4>1. canEnter'[t] = TRUE
        BY Zenon, <1>1, <3>1 DEF TypeOK
      <4>2. EnteredAt(t)' = {}
        BY Zenon, <2>1, <2>2, <3>1 DEF Entering
      <4>3. QED
        BY Zenon, <4>1, <4>2
    <3>2. CASE Last(frames[t]).path # "entered"
      <4>1. EnteredAt(t)' = EnteredAt(t)
        BY Zenon, <2>1, <2>2, <3>2
      <4>2. QED
        BY Zenon, <1>1, <2>5, <3>2, <4>1 DEF Entering
    <3>3. QED
      BY Zenon, <3>1, <3>2
  <2>7. \A u \in Threads \ {t} : canEnter'[u] <=> canEnter[u]
    BY Zenon, <1>1 DEF TypeOK
  <2>8. QED
    BY <1>1, <2>3, <2>4, <2>5, <2>6, <2>7 DEF Entering
<1>9. Nested'
  <2>1. \A i \in 1..Len(guards[t]) : guards[t][i].depth \in Nat
    <3>1. \A i \in 1..Len(guards[t]) : guards[t][i] \in Guard
      BY <1>3
    <3>2. QED
      BY Zenon, <3>1 DEF Guard
  <2>2. DOMAIN guards[t] = 1..Len(guards[t]) /\ DOMAIN guards'[t] = 1..Len(guards[t])
    BY <1>3, <1>6
  <2>3. \A i \in DOMAIN guards'[t] :
          /\ guards'[t][i].depth <= Len(frames'[t])
          /\ \A j \in DOMAIN guards'[t] : i <= j => guards'[t][i].depth <= guards'[t][j].depth
    <3> SUFFICES ASSUME NEW i \in 1..Len(guards[t])
                 PROVE  /\ guards'[t][i].depth <= n
                        /\ \A j \in 1..Len(guards[t]) :
                             i <= j => guards'[t][i].depth <= guards'[t][j].depth
      BY Zenon, <1>5, <2>2
    <3>1. guards'[t][i].depth <= n
      BY <1>6, <2>1
    <3>2. ASSUME NEW j \in 1..Len(guards[t]), i <= j
          PROVE  guards'[t][i].depth <= guards'[t][j].depth
      <4>1. guards[t][i].depth <= guards[t][j].depth
        BY Zenon, <2>2, <3>2 DEF Nested
      <4>2. QED
        BY <1>6, <2>1, <4>1
    <3>3. QED
      BY Zenon, <3>1, <3>2
  <2>4. QED
    BY ZenonT(30), <1>5, <1>6, <2>3 DEF Nested
<1>10. Counted'
  BY Zenon, <1>1, <1>6, CountedSame
<1>11. Scoping'
  <2>1. \A u \in Threads : guards[u] = <<>> => guards'[u] = <<>>
    BY Zenon, <1>3, <1>6, EmptySeq
  <2>2. DOMAIN guards[t] = 1..Len(guards[t]) /\ DOMAIN guards'[t] = 1..Len(guards[t])
    BY <1>3, <1>6
  <2>3. Innermost(t)' = Innermost(t)
    <3>1. CASE guards[t] = <<>>
      BY Zenon, <2>1, <3>1 DEF Innermost
    <3>2. CASE guards[t] # <<>>
      <4>1. Len(guards[t]) \in 1..Len(guards[t]) /\ guards'[t] # <<>>
        BY <1>3, <1>6, <3>2, EmptySeq
      <4>2. guards'[t][Len(guards'[t])].set = guards[t][Len(guards[t])].set
        BY Zenon, <1>6, <4>1
      <4>3. QED
        BY Zenon, <3>2, <4>1, <4>2 DEF Innermost, Last
    <3>3. QED
      BY Zenon, <3>1, <3>2
  <2>4. \A u \in Threads \ {t} : Innermost(u)' = Innermost(u)
    BY Zenon, <1>6 DEF Innermost
  <2>5. \A u \in Threads : Chose(u, "fast")' <=> Chose(u, "fast")
    BY Zenon, <1>1 DEF Chose
  <2>6. scoped[t] /\ alive[t] =>
          \A i \in DOMAIN guards'[t] :
            guards'[t][i].prior = IF i = 1 THEN None ELSE guards'[t][i-1].set
    BY <1>6, <2>2 DEF Scoping
  <2>7. QED
    BY <1>1, <1>2, <1>6, <2>1, <2>3, <2>4, <2>5, <2>6 DEF Scoping
<1>12. Remembered' /\ Publishing'
  BY Zenon, <1>1 DEF Remembered, Publishing
<1>13. QED
  BY Zenon, <1>7, <1>8, <1>9, <1>10, <1>11, <1>12

-----------------------------------------------------------------------------
(* The steps of set_default and of DefaultGuard                            *)

\* SCOPED_COUNT.fetch_add and the new guard keep the invariant.
LEMMA IncrementScopedKeeps ==
  ASSUME Inv, Scopes, NEW t \in Threads, IncrementScoped(t)
  PROVE  Inv'
<1> USE DispatcherAssumption DEF Inv
<1> DEFINE g == [set |-> arg[t], prior |-> prior[t], depth |-> Len(frames[t])]
<1>1. /\ pc[t] = "count" /\ scopedCount' = scopedCount + 1
      /\ guards' = [guards EXCEPT ![t] = Append(guards[t], g)]
      /\ arg' = [arg EXCEPT ![t] = None] /\ prior' = [prior EXCEPT ![t] = None]
      /\ pc' = [pc EXCEPT ![t] = "idle"]
      /\ UNCHANGED <<default, canEnter, alive, exists, globalInit,
                     globalDispatch, frames>>
  BY Zenon DEF IncrementScoped, Goto, stateVars, globalVars
<1>2. scoped' \in [Threads -> BOOLEAN] /\ \A u \in Threads : scoped'[u] => scoped[u]
  BY Zenon, StillScoped
<1>3. /\ g \in Guard /\ g.set = arg[t] /\ g.prior = prior[t]
      /\ g.depth = Len(frames[t]) /\ arg[t] \in Dispatches
      /\ guards[t] \in Seq(Guard) /\ Len(frames[t]) \in Nat
  <2>1. /\ arg[t] \in Dispatches /\ prior[t] \in Dispatches \cup {None}
        /\ guards[t] \in Seq(Guard) /\ Len(frames[t]) \in Nat
    BY <1>1 DEF Remembered, TypeOK
  <2>2. QED
    BY Zenon, <2>1 DEF Guard
<1> HIDE DEF g
<1>4. /\ guards'[t] = Append(guards[t], g)
      /\ \A u \in Threads \ {t} : guards'[u] = guards[u]
      /\ guards' \in [Threads -> Seq(Guard)]
  BY <1>1, <1>3 DEF TypeOK
<1>5. /\ Len(guards'[t]) = Len(guards[t]) + 1 /\ Len(guards[t]) \in Nat
      /\ DOMAIN guards[t] = 1..Len(guards[t])
      /\ DOMAIN guards'[t] = 1..(Len(guards[t]) + 1)
      /\ guards'[t][Len(guards[t]) + 1] = g
      /\ \A i \in 1..Len(guards[t]) : guards'[t][i] = guards[t][i]
      /\ guards'[t] # <<>>
  BY <1>3, <1>4
<1>6. /\ pc'[t] = "idle"
      /\ \A u \in Threads \ {t} :
           pc'[u] = pc[u] /\ arg'[u] = arg[u] /\ prior'[u] = prior[u]
  BY Zenon, <1>1 DEF TypeOK
<1>7. TypeOK'
  BY <1>1, <1>2, <1>4 DEF TypeOK
<1>8. \A u \in Threads : \A path \in {"fast", "entered"} :
        Chose(u, path)' <=> Chose(u, path)
  BY Zenon, <1>1, <1>6 DEF Chose
<1>9. Entering'
  BY <1>1, <1>8 DEF Entering, EnteredAt
<1>10. Nested'
  <2>1. \A i \in DOMAIN guards[t] : guards[t][i].depth <= Len(frames[t])
    BY Zenon DEF Nested
  <2>2. \A i \in 1..(Len(guards[t]) + 1) : i = Len(guards[t]) + 1 \/ i \in 1..Len(guards[t])
    BY <1>5
  <2>3. \A i \in DOMAIN guards'[t] :
          /\ guards'[t][i].depth <= Len(frames'[t])
          /\ \A j \in DOMAIN guards'[t] :
               i <= j => guards'[t][i].depth <= guards'[t][j].depth
    BY <1>1, <1>3, <1>5, <2>1, <2>2 DEF Nested
  <2>4. QED
    BY <1>1, <1>4, <2>3 DEF Nested
<1>11. Counted'
  <2> DEFINE x == <<t, Len(guards[t]) + 1>>
  <2>1. Counting' = Counting \cup {x} /\ x \notin Counting
    <3>1. \A u \in Threads : pc'[u] = "uncount" <=> pc[u] = "uncount"
      BY Zenon, <1>1, <1>6
    <3>2. QED
      BY <1>4, <1>5, <3>1 DEF Counting
  <2> HIDE DEF x
  <2>2. PICK n \in Nat : HasSize(Counting, n) /\ n <= scopedCount
    BY Zenon DEF Counted
  <2>3. HasSize(Counting', n + 1)
    BY Zenon, <2>1, <2>2, AddOne
  <2>4. n + 1 \in Nat /\ n + 1 <= scopedCount'
    BY SMTT(60), <1>1, <2>2 DEF TypeOK
  <2>5. QED
    BY Zenon, <2>3, <2>4 DEF Counted
<1>12. Scoping'
  <2>1. ASSUME scoped[t], alive[t]
        PROVE  /\ \A i \in DOMAIN guards'[t] :
                    guards'[t][i].prior = IF i = 1 THEN None ELSE guards'[t][i-1].set
               /\ default'[t] = Innermost(t)'
    <3>1. default[t] = arg[t] /\ prior[t] = Innermost(t)
      BY Zenon, <1>1, <2>1 DEF Scoping
    <3>2. Innermost(t)' = g.set
      BY Zenon, <1>5 DEF Innermost, Last
    <3>3. \A i \in 1..Len(guards[t]) :
            guards'[t][i].prior = IF i = 1 THEN None ELSE guards'[t][i-1].set
      BY SMTT(60), <1>5, <2>1 DEF Scoping
    <3>4. g.prior = IF Len(guards[t]) + 1 = 1 THEN None ELSE guards'[t][Len(guards[t])].set
      <4>1. guards[t] = <<>> <=> Len(guards[t]) = 0
        BY Zenon, <1>3, EmptySeq
      <4>2. QED
        BY <1>3, <1>5, <3>1, <4>1 DEF Innermost, Last
    <3>5. QED
      BY SMTT(60), <1>1, <1>3, <1>5, <3>1, <3>2, <3>3, <3>4
  <2>2. \A u \in Threads \ {t} : Innermost(u)' = Innermost(u)
    BY Zenon, <1>4 DEF Innermost
  <2>3. ~Chose(t, "fast")'
    BY Zenon, <1>6 DEF Chose
  <2>4. QED
    BY SMTT(60), <1>1, <1>2, <1>4, <1>6, <1>8, <2>1, <2>2, <2>3 DEF Scoping
<1>13. Remembered' /\ Publishing'
  BY <1>1, <1>6 DEF Remembered, Publishing
<1>14. QED
  BY Zenon, <1>7, <1>9, <1>10, <1>11, <1>12, <1>13

\* SCOPED_COUNT.fetch_sub keeps the invariant.
LEMMA DecrementScopedKeeps ==
  ASSUME Inv, Scopes, NEW t \in Threads, DecrementScoped(t)
  PROVE  Inv'
<1> USE DEF Inv
<1>1. /\ pc[t] = "uncount" /\ scopedCount' = scopedCount - 1
      /\ pc' = [pc EXCEPT ![t] = "idle"]
      /\ UNCHANGED <<default, canEnter, alive, exists, globalInit,
                     globalDispatch, guards, frames, arg, prior>>
  BY Zenon DEF DecrementScoped, Goto, stateVars, globalVars
<1>2. scoped' \in [Threads -> BOOLEAN] /\ \A u \in Threads : scoped'[u] => scoped[u]
  BY Zenon, StillScoped
<1>3. pc'[t] = "idle" /\ \A u \in Threads \ {t} : pc'[u] = pc[u]
  BY Zenon, <1>1 DEF TypeOK
<1>4. Counted' /\ scopedCount' \in Nat
  <2> DEFINE x == <<t, 0>>
  <2>1. Counting' = Counting \ {x} /\ x \in Counting
    BY <1>1, <1>3 DEF Counting
  <2> HIDE DEF x
  <2>2. PICK n \in Nat : HasSize(Counting, n) /\ n <= scopedCount
    BY Zenon DEF Counted
  <2>3. n > 0 /\ HasSize(Counting', n - 1)
    BY Zenon, <2>1, <2>2, RemoveOne
  <2>4. n - 1 \in Nat /\ n - 1 <= scopedCount' /\ scopedCount' \in Nat
    BY <1>1, <2>2, <2>3 DEF TypeOK
  <2>5. QED
    BY Zenon, <2>3, <2>4 DEF Counted
<1>5. TypeOK'
  BY Zenon, <1>1, <1>2, <1>4 DEF TypeOK
<1>6. \A u \in Threads : \A path \in {"fast", "entered"} :
        Chose(u, path)' <=> Chose(u, path)
  BY Zenon, <1>1, <1>3 DEF Chose
<1>7. Entering'
  BY <1>1, <1>6 DEF Entering, EnteredAt
<1>8. Nested' /\ Counted'
  BY Zenon, <1>1, <1>4 DEF Nested
<1>9. Scoping'
  BY SMTT(60), <1>1, <1>2, <1>3, <1>6 DEF Scoping, Innermost
<1>10. Remembered' /\ Publishing'
  BY SMTT(60), <1>1, <1>3 DEF Remembered, Publishing
<1>11. QED
  BY Zenon, <1>5, <1>7, <1>8, <1>9, <1>10

\* Handing a guard to another thread keeps the invariant.
LEMMA SendGuardKeeps ==
  ASSUME Inv, Scopes, NEW t \in Threads, NEW u \in Threads,
         NEW i \in DOMAIN guards[t], SendGuard(t, u, i)
  PROVE  Inv'
<1> USE DEF Inv
<1> DEFINE rest == Without(guards[t], i)
           g == [guards[t][i] EXCEPT !.depth = Len(frames[u])]
<1>1. /\ pc[t] = "idle" /\ pc[u] = "idle" /\ t # u
      /\ UNCHANGED <<default, canEnter, alive, scopedCount, exists, globalInit,
                     globalDispatch, frames, pc, arg, prior>>
  BY Zenon DEF SendGuard, stateVars, globalVars
<1>2. /\ guards[t] \in Seq(Guard) /\ i \in 1..Len(guards[t])
      /\ Len(guards[t]) \in Nat /\ Len(guards[t]) > 0
      /\ guards[t][i] \in Guard /\ Len(frames[u]) \in Nat
      /\ guards[u] \in Seq(Guard) /\ Len(guards[u]) \in Nat
  BY DEF TypeOK
<1>3. /\ rest \in Seq(Guard) /\ Len(rest) = Len(guards[t]) - 1
      /\ \A j \in 1..(Len(guards[t]) - 1) :
           rest[j] = IF j < i THEN guards[t][j] ELSE guards[t][j + 1]
  BY Zenon, <1>2, WithoutOne
<1>4. g \in Guard /\ g.depth = Len(frames[u])
  BY Zenon, <1>2 DEF Guard
<1>5. guards' = [guards EXCEPT ![t] = rest, ![u] = Append(guards[u], g)]
  BY Zenon, <1>1 DEF SendGuard, TypeOK
<1> HIDE DEF rest, g
<1>6. /\ guards'[t] = rest /\ guards'[u] = Append(guards[u], g)
      /\ \A v \in Threads \ {t, u} : guards'[v] = guards[v]
      /\ guards' \in [Threads -> Seq(Guard)]
  <2> DEFINE more == Append(guards[u], g)
  <2>1. more \in Seq(Guard) /\ guards \in [Threads -> Seq(Guard)]
    BY <1>2, <1>4 DEF TypeOK
  <2>2. guards' = [guards EXCEPT ![t] = rest, ![u] = more]
    BY Zenon, <1>5
  <2> HIDE DEF more
  <2>3. /\ guards'[t] = rest /\ guards'[u] = more
        /\ \A v \in Threads \ {t, u} : guards'[v] = guards[v]
        /\ guards' \in [Threads -> Seq(Guard)]
    BY Zenon, <1>1, <1>3, <2>1, <2>2
  <2>4. QED
    BY Zenon, <2>3 DEF more
<1>7. /\ DOMAIN rest = 1..(Len(guards[t]) - 1)
      /\ DOMAIN guards[t] = 1..Len(guards[t])
      /\ DOMAIN guards[u] = 1..Len(guards[u])
      /\ DOMAIN guards'[u] = 1..(Len(guards[u]) + 1)
      /\ Len(guards'[u]) = Len(guards[u]) + 1
      /\ guards'[u][Len(guards[u]) + 1] = g
      /\ \A j \in 1..Len(guards[u]) : guards'[u][j] = guards[u][j]
  <2>1. /\ DOMAIN rest = 1..(Len(guards[t]) - 1)
        /\ DOMAIN guards[t] = 1..Len(guards[t])
        /\ DOMAIN guards[u] = 1..Len(guards[u])
    BY <1>2, <1>3
  <2>2. /\ Len(Append(guards[u], g)) = Len(guards[u]) + 1
        /\ DOMAIN Append(guards[u], g) = 1..(Len(guards[u]) + 1)
        /\ Append(guards[u], g)[Len(guards[u]) + 1] = g
        /\ \A j \in 1..Len(guards[u]) : Append(guards[u], g)[j] = guards[u][j]
    BY <1>2, <1>4
  <2>3. QED
    BY Zenon, <1>6, <2>1, <2>2
<1>8. /\ scoped' \in [Threads -> BOOLEAN]
      /\ \A v \in Threads : scoped'[v] => scoped[v] /\ v # t /\ v # u
  <2>1. \A v \in Threads : scoped'[v] => scoped[v] /\ InScope(v)
    BY Zenon, StillScoped
  <2>2. ~InScope(t)
    BY <1>1, <1>2, <1>3, <1>6 DEF InScope
  <2>3. ~InScope(u)
    BY <1>1, <1>2, <1>7 DEF InScope
  <2>4. QED
    BY Zenon, <2>1, <2>2, <2>3, StillScoped
<1>9. TypeOK'
  BY Zenon, <1>1, <1>6, <1>8 DEF TypeOK
<1>10. \A v \in Threads : \A path \in {"fast", "entered"} :
        Chose(v, path)' <=> Chose(v, path)
  BY Zenon, <1>1 DEF Chose
<1>11. Entering'
  BY SMTT(60), <1>1, <1>10 DEF Entering, EnteredAt
<1>12. Nested'
  <2>1. \A j \in DOMAIN rest : \E a \in 1..Len(guards[t]) :
          /\ rest[j] = guards[t][a] /\ a = IF j < i THEN j ELSE j + 1
    BY <1>2, <1>3, <1>7
  <2>2. \A j \in DOMAIN rest : rest[j].depth <= Len(frames[t])
    BY Zenon, <1>7, <2>1 DEF Nested
  <2>3. ASSUME NEW j \in DOMAIN rest, NEW k \in DOMAIN rest, j <= k
        PROVE  rest[j].depth <= rest[k].depth
    <3>1. PICK a \in 1..Len(guards[t]) :
            rest[j] = guards[t][a] /\ a = IF j < i THEN j ELSE j + 1
      BY Zenon, <2>1
    <3>2. PICK b \in 1..Len(guards[t]) :
            rest[k] = guards[t][b] /\ b = IF k < i THEN k ELSE k + 1
      BY Zenon, <2>1
    <3>3. a <= b
      BY <1>2, <1>7, <2>3, <3>1, <3>2
    <3>4. QED
      BY <1>7, <3>1, <3>2, <3>3 DEF Nested
  <2>4. \A j \in 1..Len(guards[u]) : guards[u][j].depth <= Len(frames[u])
    BY Zenon, <1>7 DEF Nested
  <2>5. \A j \in 1..(Len(guards[u]) + 1) : j = Len(guards[u]) + 1 \/ j \in 1..Len(guards[u])
    BY <1>2
  <2>6. \A j \in DOMAIN guards'[u] :
          /\ guards'[u][j].depth <= Len(frames[u])
          /\ \A k \in DOMAIN guards'[u] :
               j <= k => guards'[u][j].depth <= guards'[u][k].depth
    <3> SUFFICES ASSUME NEW j \in 1..(Len(guards[u]) + 1)
                 PROVE  /\ guards'[u][j].depth <= Len(frames[u])
                        /\ \A k \in 1..(Len(guards[u]) + 1) :
                             j <= k => guards'[u][j].depth <= guards'[u][k].depth
      BY Zenon, <1>7
    <3>1. guards'[u][j].depth <= Len(frames[u])
      BY SMTT(60), <1>2, <1>4, <1>7, <2>4, <2>5
    <3>2. ASSUME NEW k \in 1..(Len(guards[u]) + 1), j <= k
          PROVE  guards'[u][j].depth <= guards'[u][k].depth
      <4>1. CASE k = Len(guards[u]) + 1
        BY Zenon, <1>4, <1>7, <3>1, <4>1
      <4>2. CASE k # Len(guards[u]) + 1
        <5>1. k \in 1..Len(guards[u]) /\ j \in 1..Len(guards[u])
          BY <1>2, <3>2, <4>2
        <5>2. guards[u][j].depth <= guards[u][k].depth
          BY Zenon, <1>7, <3>2, <5>1 DEF Nested
        <5>3. QED
          BY Zenon, <1>7, <5>1, <5>2
      <4>3. QED
        BY Zenon, <4>1, <4>2
    <3>3. QED
      BY Zenon, <3>1, <3>2
  <2>7. QED
    BY Zenon, <1>1, <1>6, <2>2, <2>3, <2>6 DEF Nested
<1>13. Counted'
  <2> DEFINE x == <<t, Len(guards[t])>>
             y == <<u, Len(guards[u]) + 1>>
  <2>1. /\ Counting' = (Counting \ {x}) \cup {y}
        /\ x \in Counting /\ y \notin Counting \ {x}
    <3>1. /\ Len(guards'[t]) = Len(guards[t]) - 1
          /\ Len(guards'[u]) = Len(guards[u]) + 1
          /\ \A v \in Threads \ {t, u} : Len(guards'[v]) = Len(guards[v])
      BY Zenon, <1>3, <1>6, <1>7
    <3>2. x \in Counting /\ y \notin Counting
      BY <1>1, <1>2 DEF Counting
    <3>3. ASSUME NEW v \in Threads, NEW k \in Nat
          PROVE  (IF k = 0 THEN pc'[v] = "uncount" ELSE k <= Len(guards'[v])) <=>
                   \/ /\ IF k = 0 THEN pc[v] = "uncount" ELSE k <= Len(guards[v])
                      /\ ~(v = t /\ k = Len(guards[t]))
                   \/ v = u /\ k = Len(guards[u]) + 1
      <4>1. CASE v = t
        BY <1>1, <1>2, <3>1, <4>1
      <4>2. CASE v = u
        BY <1>1, <1>2, <3>1, <4>2
      <4>3. CASE v \notin {t, u}
        BY Zenon, <1>1, <3>1, <4>3
      <4>4. QED
        BY Zenon, <4>1, <4>2, <4>3
    <3>4. QED
      BY <3>2, <3>3 DEF Counting
  <2> HIDE DEF x, y
  <2>2. PICK n \in Nat : HasSize(Counting, n) /\ n <= scopedCount
    BY Zenon DEF Counted
  <2>3. n > 0 /\ HasSize(Counting \ {x}, n - 1)
    BY Zenon, <2>1, <2>2, RemoveOne
  <2>4. PICK m \in Nat : m = n - 1
    BY <2>3
  <2>5. HasSize(Counting', m + 1)
    BY Zenon, <2>1, <2>3, <2>4, AddOne
  <2>6. m + 1 = n /\ n <= scopedCount'
    BY SMTT(60), <1>1, <2>2, <2>4
  <2>7. QED
    BY Zenon, <2>5, <2>6 DEF Counted
<1>14. Scoping'
  <2>1. \A v \in Threads : scoped'[v] => guards'[v] = guards[v]
    BY Zenon, <1>6, <1>8
  <2>2. ~Chose(t, "fast") /\ ~Chose(u, "fast")
    BY Zenon, <1>1 DEF Chose
  <2>3. \A v \in Threads : Chose(v, "fast")' => guards'[v] = <<>>
    BY Zenon, <1>6, <1>10, <2>2 DEF Scoping
  <2>4. QED
    BY <1>1, <1>8, <2>1, <2>3 DEF Scoping, Innermost
<1>15. Remembered' /\ Publishing'
  BY Zenon, <1>1 DEF Remembered, Publishing
<1>16. QED
  BY Zenon, <1>9, <1>11, <1>12, <1>13, <1>14, <1>15

\* The destruction of a thread's locals keeps the invariant.
LEMMA ThreadExitKeeps ==
  ASSUME Inv, Scopes, NEW t \in Threads, ThreadExit(t)
  PROVE  Inv'
<1> USE DEF Inv
<1>1. /\ pc[t] = "idle" /\ alive' = [alive EXCEPT ![t] = FALSE]
      /\ default' = [default EXCEPT ![t] = None]
      /\ UNCHANGED <<canEnter, scopedCount, exists, globalInit, globalDispatch,
                     guards, frames, pc, arg, prior>>
  BY Zenon DEF ThreadExit, globalVars
<1>2. scoped' \in [Threads -> BOOLEAN] /\ \A u \in Threads : scoped'[u] => scoped[u]
  BY Zenon, StillScoped
<1>3. /\ alive'[t] = FALSE
      /\ \A u \in Threads \ {t} : default'[u] = default[u] /\ alive'[u] = alive[u]
  BY Zenon, <1>1 DEF TypeOK
<1>4. TypeOK'
  BY Zenon, <1>1, <1>2 DEF TypeOK
<1>5. \A u \in Threads : \A path \in {"fast", "entered"} :
        Chose(u, path)' <=> Chose(u, path)
  BY Zenon, <1>1 DEF Chose
<1>6. ~Chose(t, "entered")
  BY Zenon, <1>1 DEF Chose
<1>7. Entering'
  BY SMTT(60), <1>1, <1>3, <1>5, <1>6 DEF Entering, EnteredAt
<1>8. Nested' /\ Counted'
  BY Zenon, <1>1, CountedSame DEF Nested
<1>9. Scoping'
  BY SMTT(60), <1>1, <1>2, <1>3, <1>5 DEF Scoping, Innermost
<1>10. Remembered' /\ Publishing'
  BY Zenon, <1>1 DEF Remembered, Publishing
<1>11. QED
  BY Zenon, <1>4, <1>7, <1>8, <1>9, <1>10

-----------------------------------------------------------------------------
(* The steps of set_global_default                                         *)

\* The steps of set_global_default keep the invariant.
LEMMA SetGlobalKeeps ==
  ASSUME Inv, Scopes, NEW t \in Threads,
         \/ \E d \in Dispatches : SetGlobalDefault(t, d)
         \/ WriteGlobal(t)
         \/ InitializedGlobal(t)
  PROVE  Inv'
<1> USE DispatcherAssumption DEF Inv
<1>1. UNCHANGED <<default, canEnter, alive, scopedCount, guards, frames, prior>>
  BY Zenon DEF SetGlobalDefault, WriteGlobal, InitializedGlobal, stateVars
<1>2. scoped' \in [Threads -> BOOLEAN] /\ \A u \in Threads : scoped'[u] => scoped[u]
  BY Zenon, StillScoped
<1>3. \A u \in Threads \ {t} : pc'[u] = pc[u] /\ arg'[u] = arg[u]
  BY Zenon DEF SetGlobalDefault, WriteGlobal, InitializedGlobal, Goto, TypeOK
<1>4. /\ pc[t] \in {"idle", "write_global", "store_global"}
      /\ pc'[t] \in {"idle", "write_global", "store_global"}
  BY Zenon DEF SetGlobalDefault, WriteGlobal, InitializedGlobal, Goto, TypeOK
<1>5. TypeOK' /\ Remembered' /\ Publishing'
  <2>1. CASE \E d \in Dispatches : SetGlobalDefault(t, d)
    <3>1. PICK d \in Dispatches :
            /\ pc[t] = "idle" /\ globalInit = "UNINITIALIZED"
            /\ globalInit' = "INITIALIZING"
            /\ arg' = [arg EXCEPT ![t] = d]
            /\ pc' = [pc EXCEPT ![t] = "write_global"]
            /\ UNCHANGED <<exists, globalDispatch>>
      BY Zenon, <2>1 DEF SetGlobalDefault, Goto
    <3>2. pc'[t] = "write_global" /\ arg'[t] = d
      BY Zenon, <3>1 DEF TypeOK
    <3>3. TypeOK'
      BY Zenon, <1>1, <1>2, <3>1 DEF TypeOK
    <3>4. Remembered'
      BY Zenon, <1>3, <3>2 DEF Remembered
    <3>5. \A u \in Threads : pc[u] \notin {"read_global", "write_global", "store_global"}
      BY Zenon, <3>1 DEF Publishing
    <3>6. Publishing'
      BY Zenon, <1>3, <3>1, <3>2, <3>5 DEF Publishing
    <3>7. QED
      BY Zenon, <3>3, <3>4, <3>6
  <2>2. CASE WriteGlobal(t)
    <3>1. /\ pc[t] = "write_global"
          /\ \/ globalDispatch' = Torn /\ pc' = pc
             \/ globalDispatch' = arg[t] /\ pc' = [pc EXCEPT ![t] = "store_global"]
          /\ UNCHANGED <<exists, globalInit, arg>>
      BY Zenon, <2>2 DEF WriteGlobal, Goto
    <3>2. globalInit = "INITIALIZING" /\ arg[t] \in Dispatches
      BY Zenon, <3>1 DEF Publishing, Remembered
    <3>3. TypeOK'
      BY Zenon, <1>1, <1>2, <3>1, <3>2 DEF TypeOK
    <3>4. Remembered'
      BY Zenon, <1>3, <1>4, <3>1, <3>2 DEF Remembered
    <3>5. \A u \in Threads \ {t} : pc[u] \notin {"write_global", "store_global"}
      BY Zenon, <3>1 DEF Publishing
    <3>6. pc'[t] = "write_global" \/ (pc'[t] = "store_global" /\ globalDispatch' \in Dispatches)
      BY Zenon, <3>1, <3>2 DEF TypeOK
    <3>7. Publishing'
      BY Zenon, <1>3, <3>1, <3>2, <3>5, <3>6 DEF Publishing
    <3>8. QED
      BY Zenon, <3>3, <3>4, <3>7
  <2>3. CASE InitializedGlobal(t)
    <3>1. /\ pc[t] = "store_global" /\ globalInit' = "INITIALIZED" /\ exists' = TRUE
          /\ arg' = [arg EXCEPT ![t] = None]
          /\ pc' = [pc EXCEPT ![t] = "idle"]
          /\ UNCHANGED globalDispatch
      BY Zenon, <2>3 DEF InitializedGlobal, Goto
    <3>2. pc'[t] = "idle" /\ globalDispatch \in Dispatches
      BY Zenon, <3>1 DEF Publishing, TypeOK
    <3>3. TypeOK'
      BY Zenon, <1>1, <1>2, <3>1 DEF TypeOK
    <3>4. Remembered'
      BY Zenon, <1>3, <3>2 DEF Remembered
    <3>5. \A u \in Threads \ {t} : pc[u] \notin {"write_global", "store_global"}
      BY Zenon, <3>1 DEF Publishing
    <3>6. Publishing'
      BY Zenon, <1>3, <3>1, <3>2, <3>5 DEF Publishing
    <3>7. QED
      BY Zenon, <3>3, <3>4, <3>6
  <2>4. QED
    BY Zenon, <2>1, <2>2, <2>3
<1>6. \A u \in Threads : \A path \in {"fast", "entered"} :
        Chose(u, path)' <=> Chose(u, path)
  BY Zenon, <1>3, <1>4 DEF Chose
<1>7. Entering'
  BY SMTT(60), <1>1, <1>6 DEF Entering, EnteredAt
<1>8. Nested'
  BY Zenon, <1>1 DEF Nested
<1>9. Counted'
  BY Zenon, <1>1, <1>3, <1>4, CountedSame
<1>10. Scoping'
  BY SMTT(60), <1>1, <1>2, <1>3, <1>4, <1>6 DEF Scoping, Innermost
<1>11. QED
  BY Zenon, <1>5, <1>7, <1>8, <1>9, <1>10

-----------------------------------------------------------------------------

\* Counting when t goes from more guards to n.
LEMMA CountedLess ==
  ASSUME TypeOK, Counted, NEW t \in Threads, NEW n \in 0..Len(guards[t]),
         Len(guards'[t]) = n,
         \A u \in Threads \ {t} : Len(guards'[u]) = Len(guards[u]),
         \A u \in Threads : pc'[u] = "uncount" <=> pc[u] = "uncount"
  PROVE  \E c \in Nat : HasSize(Counting', c) /\ c + (Len(guards[t]) - n) <= scopedCount
<1> DEFINE ks == (n + 1)..Len(guards[t])
           gone == {t} \X ks
           f == [k \in ks |-> <<t, k>>]
<1>1. Len(guards[t]) \in Nat /\ scopedCount \in Nat
  BY DEF TypeOK
<1>2. Counting' = Counting \ gone
  BY <1>1 DEF Counting
<1>3. Counting \cap gone = gone
  BY <1>1 DEF Counting
<1>4. IsFiniteSet(gone) /\ Cardinality(gone) = Len(guards[t]) - n
  <2>1. IsFiniteSet(ks) /\ Cardinality(ks) = Len(guards[t]) - n
    <3>1. PICK a \in Int, b \in Int : a = n + 1 /\ b = Len(guards[t])
      BY <1>1
    <3>2. IsFiniteSet(a..b) /\ Cardinality(a..b) = IF a > b THEN 0 ELSE b - a + 1
      BY Zenon, FS_Interval
    <3>3. QED
      BY <1>1, <3>1, <3>2
  <2> HIDE DEF ks
  <2>2. f \in Bijection(ks, gone)
    <3>1. f \in [ks -> gone]
      BY Zenon
    <3>2. \A a, b \in ks : f[a] = f[b] => a = b
      BY Zenon
    <3>3. \A x \in gone : \E k \in ks : f[k] = x
      OBVIOUS
    <3>4. QED
      BY Zenon, <3>1, <3>2, <3>3 DEF Bijection, Injection, Surjection, IsInjective
  <2>3. ExistsBijection(ks, gone)
    BY Zenon, <2>2 DEF ExistsBijection
  <2>4. QED
    BY Zenon, <2>1, <2>3, FS_Bijection
<1> HIDE DEF gone
<1>5. IsFiniteSet(Counting) /\ Cardinality(Counting) <= scopedCount
  <2>1. PICK m \in Nat : ExistsBijection(1..m, Counting) /\ m <= scopedCount
    BY Zenon DEF Counted, HasSize
  <2>2. QED
    BY Zenon, <2>1, FS_NatBijection, FS_CountingElements
<1>6. /\ IsFiniteSet(Counting \ gone)
      /\ Cardinality(Counting \ gone) = Cardinality(Counting) - Cardinality(Counting \cap gone)
  BY Zenon, <1>5, FS_Difference
<1>7. Cardinality(Counting) \in Nat /\ Cardinality(Counting \ gone) \in Nat
  BY Zenon, <1>5, <1>6, FS_CardinalityType
<1>8. Cardinality(Counting \ gone) = Cardinality(Counting) - (Len(guards[t]) - n)
  BY Zenon, <1>3, <1>4, <1>6
<1>9. Cardinality(Counting \ gone) + (Len(guards[t]) - n) <= scopedCount
  BY <1>1, <1>5, <1>7, <1>8
<1>10. HasSize(Counting \ gone, Cardinality(Counting \ gone))
  BY Zenon, <1>6, FS_CardinalityType DEF HasSize
<1>11. QED
  BY Zenon, <1>2, <1>7, <1>9, <1>10

\* The guards held outside all closures come first, so a panic that unwinds to
\* there always finds which guards stay: Unwind never blocks a step.
LEMMA OutsideFirst ==
  ASSUME NEW s \in Seq(Guard),
         \A i, j \in 1..Len(s) : i <= j => s[i].depth <= s[j].depth
  PROVE  \E n \in 0..Len(s) : \A i \in 1..Len(s) : s[i].depth = 0 <=> i <= n
<1> DEFINE inside == {j \in Nat : j \in 1..Len(s) /\ s[j].depth # 0}
<1>1. \A i \in 1..Len(s) : s[i].depth \in Nat
  <2>1. \A i \in 1..Len(s) : s[i] \in Guard
    OBVIOUS
  <2>2. QED
    BY Zenon, <2>1 DEF Guard
<1>2. CASE inside = {}
  <2>1. \A i \in 1..Len(s) : s[i].depth = 0 <=> i <= Len(s)
    BY <1>2
  <2>2. Len(s) \in 0..Len(s)
    OBVIOUS
  <2>3. QED
    BY Zenon, <2>1, <2>2
<1>3. CASE inside # {}
  <2>1. IsWellFoundedOn(OpToRel(<, Nat), Nat)
    BY Zenon, NatLessThanWellFounded
  <2>2. PICK j \in inside : \A k \in inside : ~(<<k, j>> \in OpToRel(<, Nat))
    <3>1. inside \subseteq Nat
      BY Zenon
    <3> HIDE DEF inside
    <3>2. QED
      BY <1>3, <2>1, <3>1, WFMin, Zenon
  <2>3. /\ j \in 1..Len(s) /\ s[j].depth # 0
        /\ \A k \in 1..Len(s) : k < j => s[k].depth = 0
    <3>1. \A k \in inside : ~(k < j)
      BY Zenon, <2>2 DEF OpToRel
    <3>2. QED
      BY <3>1
  <2>4. \A i \in 1..Len(s) : j <= i => s[i].depth # 0
    BY <1>1, <2>3
  <2>5. \A i \in 1..Len(s) : s[i].depth = 0 <=> i <= j - 1
    BY <2>3, <2>4
  <2>6. j - 1 \in 0..Len(s)
    BY <2>3
  <2>7. QED
    BY Zenon, <2>5, <2>6
<1>4. QED
  BY Zenon, <1>2, <1>3

\* A panic of RefCell::replace, caught outside all closures, keeps the
\* invariant: the count is not lower than the guards that are left.
LEMMA UnwindKeeps ==
  ASSUME Inv, Scopes, NEW t \in Threads, NEW held \in Seq(Guard),
         pc[t] = "idle", Unwind(t, held),
         held = guards[t] \/ Len(held) < Len(guards[t]),
         UNCHANGED <<alive, exists, globalVars, pc, arg, prior>>
  PROVE  Inv'
<1> USE DEF Inv
<1>1. PICK n \in 0..Len(held) :
        /\ \A i \in DOMAIN held : held[i].depth = 0 <=> i <= n
        /\ frames' = [frames EXCEPT ![t] = <<>>]
        /\ canEnter' = [canEnter EXCEPT ![t] = TRUE]
        /\ guards' = [guards EXCEPT ![t] = SubSeq(held, 1, n)]
        /\ scopedCount' = scopedCount - (Len(held) - n)
        /\ default' = IF n = Len(held) THEN default
                      ELSE [default EXCEPT ![t] = held[n + 1].prior]
  BY Zenon DEF Unwind
<1>2. UNCHANGED <<alive, exists, globalInit, globalDispatch, pc, arg, prior>>
  BY Zenon DEF globalVars
<1>3. guards[t] \in Seq(Guard) /\ Len(guards[t]) \in Nat /\ Len(held) \in Nat
  BY DEF TypeOK
<1>4. n \in 0..Len(guards[t])
  BY <1>3
<1>5. /\ SubSeq(held, 1, n) \in Seq(Guard) /\ Len(SubSeq(held, 1, n)) = n
      /\ \A j \in 1..n : SubSeq(held, 1, n)[j] = held[j]
  BY Zenon, Prefix
<1>6. /\ guards'[t] = SubSeq(held, 1, n)
      /\ \A u \in Threads \ {t} : guards'[u] = guards[u]
      /\ frames'[t] = <<>>
      /\ \A u \in Threads \ {t} : frames'[u] = frames[u]
  BY Zenon, <1>1 DEF TypeOK
<1>7. PICK c \in Nat : HasSize(Counting', c) /\ c + (Len(guards[t]) - n) <= scopedCount
  BY Zenon, <1>2, <1>4, <1>5, <1>6, CountedLess
<1>8. scopedCount' \in Nat /\ c <= scopedCount'
  BY <1>1, <1>3, <1>7 DEF TypeOK
<1>9. scoped' \in [Threads -> BOOLEAN] /\ \A u \in Threads : scoped'[u] => scoped[u] /\ InScope(u)
  BY Zenon, StillScoped
<1>10. \A i \in 1..Len(held) : held[i] \in Guard
  OBVIOUS
<1>11. TypeOK'
  <2>1. default' \in [Threads -> Dispatches \cup {None}]
    <3>1. n # Len(held) => held[n + 1].prior \in Dispatches \cup {None}
      BY <1>3, <1>10 DEF Guard
    <3>2. QED
      BY Zenon, <1>1, <3>1 DEF TypeOK
  <2>2. guards' \in [Threads -> Seq(Guard)]
    BY Zenon, <1>1, <1>5 DEF TypeOK
  <2>3. frames' \in [Threads -> Seq(Frame)]
    BY Zenon, <1>1, EmptySeq DEF TypeOK
  <2>4. canEnter' \in [Threads -> BOOLEAN]
    BY Zenon, <1>1 DEF TypeOK
  <2>5. QED
    BY Zenon, <1>2, <1>8, <1>9, <2>1, <2>2, <2>3, <2>4 DEF TypeOK
<1>12. Entering'
  <2>1. EnteredAt(t)' = {}
    BY <1>6 DEF EnteredAt
  <2>2. \A u \in Threads \ {t} : EnteredAt(u)' = EnteredAt(u)
    BY Zenon, <1>6 DEF EnteredAt
  <2>3. \A u \in Threads : Chose(u, "entered")' <=> Chose(u, "entered")
    BY Zenon, <1>2 DEF Chose
  <2>4. ~Chose(t, "entered") /\ canEnter'[t] = TRUE
    BY Zenon, <1>1 DEF Chose, TypeOK
  <2>5. \A u \in Threads \ {t} : (canEnter'[u] <=> canEnter[u]) /\ default'[u] = default[u]
    BY Zenon, <1>1 DEF TypeOK
  <2>6. QED
    BY <1>2, <2>1, <2>2, <2>3, <2>4, <2>5 DEF Entering
<1>13. Nested'
  <2>1. \A i \in DOMAIN guards'[t] : guards'[t][i].depth = 0
    BY <1>1, <1>3, <1>5, <1>6
  <2>2. \A i \in DOMAIN guards'[t] :
          /\ guards'[t][i].depth <= Len(frames'[t])
          /\ \A j \in DOMAIN guards'[t] :
               i <= j => guards'[t][i].depth <= guards'[t][j].depth
    BY <1>6, <2>1
  <2>3. QED
    BY Zenon, <1>6, <2>2 DEF Nested
<1>14. Counted'
  BY Zenon, <1>7, <1>8 DEF Counted
<1>15. Scoping'
  <2>1. scoped'[t] => guards'[t] = guards[t] /\ default' = default
    <3>1. SUFFICES ASSUME scoped'[t] PROVE guards'[t] = guards[t] /\ default' = default
      BY Zenon
    <3>2. ~(Len(guards'[t]) < Len(guards[t]))
      BY Zenon, <1>2, <1>9, <3>1 DEF InScope
    <3>3. n = Len(guards[t]) /\ held = guards[t]
      BY <1>3, <1>5, <1>6, <3>2
    <3>4. SubSeq(held, 1, n) = held
      BY <3>3
    <3>5. QED
      BY Zenon, <1>1, <1>6, <3>3, <3>4
  <2>2. \A u \in Threads \ {t} : default'[u] = default[u]
    BY Zenon, <1>1 DEF TypeOK
  <2>3. \A u \in Threads : scoped'[u] => /\ guards'[u] = guards[u]
                                        /\ default'[u] = default[u]
    BY Zenon, <1>6, <2>1, <2>2
  <2>4. ~Chose(t, "fast")'
    BY Zenon, <1>2 DEF Chose
  <2>5. \A u \in Threads : Chose(u, "fast")' => guards'[u] = <<>>
    BY Zenon, <1>2, <1>6, <2>4 DEF Scoping, Chose
  <2>6. QED
    BY <1>2, <1>9, <2>3, <2>5 DEF Scoping, Innermost
<1>16. Remembered' /\ Publishing'
  BY <1>2 DEF Remembered, Publishing
<1>17. QED
  BY Zenon, <1>11, <1>12, <1>13, <1>14, <1>15, <1>16

\* State::set_default keeps the invariant.
LEMMA SetDefaultKeeps ==
  ASSUME Inv, Scopes, NEW t \in Threads, NEW d \in Dispatches, SetDefault(t, d)
  PROVE  Inv'
<1> USE DispatcherAssumption DEF Inv
<1>1. pc[t] = "idle" /\ UNCHANGED <<alive, globalVars>>
  BY Zenon DEF SetDefault
<1>2. scoped' \in [Threads -> BOOLEAN] /\ \A u \in Threads : scoped'[u] => scoped[u]
  BY Zenon, StillScoped
<1>3. CASE Unwind(t, guards[t]) /\ UNCHANGED <<exists, pc, arg, prior>>
  <2>1. guards[t] \in Seq(Guard)
    BY Zenon DEF TypeOK
  <2>2. QED
    BY Zenon, <1>1, <1>3, <2>1, UnwindKeeps
<1>4. ASSUME arg' = [arg EXCEPT ![t] = d], exists' = TRUE, Goto(t, "count"),
             UNCHANGED <<scopedCount, guards, frames>>,
             \/ /\ ~Borrowed(t) /\ canEnter' = [canEnter EXCEPT ![t] = TRUE]
                /\ default' = [default EXCEPT ![t] = d]
                /\ prior' = [prior EXCEPT ![t] = default[t]]
             \/ /\ ~alive[t] /\ prior' = [prior EXCEPT ![t] = None]
                /\ UNCHANGED <<default, canEnter>>
      PROVE  Inv'
  <2>1. /\ pc' = [pc EXCEPT ![t] = "count"]
        /\ UNCHANGED <<alive, globalInit, globalDispatch>>
    BY Zenon, <1>1, <1>4 DEF Goto, globalVars
  <2>2. \A u \in Threads \ {t} :
          /\ pc'[u] = pc[u] /\ arg'[u] = arg[u] /\ prior'[u] = prior[u]
          /\ default'[u] = default[u] /\ (canEnter'[u] <=> canEnter[u])
    BY Zenon, <1>4, <2>1 DEF TypeOK
  <2>3. pc'[t] = "count" /\ arg'[t] = d
    BY Zenon, <1>4, <2>1 DEF TypeOK
  <2>4. TypeOK'
    <3>1. /\ default' \in [Threads -> Dispatches \cup {None}]
          /\ prior' \in [Threads -> Dispatches \cup {None}]
          /\ canEnter' \in [Threads -> BOOLEAN]
      <4>1. /\ default \in [Threads -> Dispatches \cup {None}]
            /\ prior \in [Threads -> Dispatches \cup {None}]
            /\ canEnter \in [Threads -> BOOLEAN]
            /\ default[t] \in Dispatches \cup {None}
        BY Zenon DEF TypeOK
      <4> HIDE DEF Inv
      <4>2. CASE /\ canEnter' = [canEnter EXCEPT ![t] = TRUE]
                 /\ default' = [default EXCEPT ![t] = d]
                 /\ prior' = [prior EXCEPT ![t] = default[t]]
        BY Zenon, <4>1, <4>2
      <4>3. CASE /\ prior' = [prior EXCEPT ![t] = None]
                 /\ UNCHANGED <<default, canEnter>>
        BY Zenon, <4>1, <4>3
      <4>4. QED
        BY Zenon, <1>4, <4>2, <4>3
    <3>2. /\ arg' \in [Threads -> Dispatches \cup {None, "fast", "entered"}]
          /\ pc' \in [Threads -> {"idle", "fast", "entered", "read_global", "count",
                                  "uncount", "write_global", "store_global"}]
      BY Zenon, <1>4, <2>1 DEF TypeOK
    <3>3. QED
      BY Zenon, <1>2, <1>4, <2>1, <3>1, <3>2 DEF TypeOK
  <2>5. \A u \in Threads \ {t} :
          /\ Chose(u, "entered")' <=> Chose(u, "entered")
          /\ Chose(u, "fast")' <=> Chose(u, "fast")
    BY Zenon, <2>2 DEF Chose
  <2>6. ~Chose(t, "entered") /\ ~Chose(t, "entered")' /\ ~Chose(t, "fast")'
    BY Zenon, <1>1, <2>3 DEF Chose
  <2>7. Entering'
    <3>1. \A u \in Threads : EnteredAt(u)' = EnteredAt(u)
      BY Zenon, <1>4 DEF EnteredAt
    <3>2. canEnter'[t] <=> EnteredAt(t) = {}
      <4>1. canEnter[t] <=> EnteredAt(t) = {}
        BY Zenon, <2>6 DEF Entering
      <4>2. ~Borrowed(t) => EnteredAt(t) = {}
        BY Zenon DEF Borrowed, EnteredAt
      <4>3. \/ ~Borrowed(t) /\ canEnter'[t] = TRUE
            \/ canEnter' = canEnter
        BY Zenon, <1>4 DEF TypeOK
      <4>4. QED
        BY Zenon, <4>1, <4>2, <4>3
    <3>3. \A u \in Threads \ {t} :
            /\ default'[u] = default[u] /\ alive'[u] = alive[u]
            /\ canEnter'[u] <=> canEnter[u]
            /\ Chose(u, "entered")' <=> Chose(u, "entered")
      BY Zenon, <2>1, <2>2, <2>5
    <3>4. \A i, j \in EnteredAt(t) : i = j
      BY Zenon DEF Entering
    <3>5. \A u \in Threads \ {t} :
            /\ \A i, j \in EnteredAt(u)' : i = j
            /\ Chose(u, "entered")' => EnteredAt(u)' = {} /\ alive'[u] /\ default'[u] = None
            /\ canEnter'[u] <=> EnteredAt(u)' = {} /\ ~Chose(u, "entered")'
      BY <3>1, <3>3 DEF Entering
    <3> HIDE DEF Inv
    <3>6. QED
      BY Zenon, <2>6, <3>1, <3>2, <3>4, <3>5 DEF Entering
  <2>8. Nested'
    BY Zenon, <1>4 DEF Nested
  <2>9. Counted'
    BY Zenon, <1>1, <1>4, <2>2, <2>3, CountedSame
  <2>10. Scoping'
    <3>1. \A u \in Threads : Innermost(u)' = Innermost(u)
      BY Zenon, <1>4 DEF Innermost
    <3>2. scoped[t] /\ alive[t] => default'[t] = arg'[t] /\ prior'[t] = Innermost(t)
      BY Zenon, <1>1, <1>4, <2>3 DEF Scoping, TypeOK
    <3>3. \A u \in Threads \ {t} :
            /\ default'[u] = default[u] /\ prior'[u] = prior[u]
            /\ arg'[u] = arg[u] /\ pc'[u] = pc[u]
            /\ Chose(u, "fast")' <=> Chose(u, "fast")
      BY Zenon, <2>2, <2>5
    <3>4. guards' = guards /\ alive' = alive /\ pc'[t] = "count" /\ ~Chose(t, "fast")'
      BY Zenon, <1>4, <2>1, <2>3, <2>6
    <3>5. \A u \in Threads \ {t} :
            /\ Chose(u, "fast")' => guards'[u] = <<>>
            /\ scoped'[u] /\ alive'[u] =>
                 /\ \A i \in DOMAIN guards'[u] :
                      guards'[u][i].prior = IF i = 1 THEN None ELSE guards'[u][i-1].set
                 /\ IF pc'[u] = "count"
                    THEN default'[u] = arg'[u] /\ prior'[u] = Innermost(u)'
                    ELSE default'[u] = Innermost(u)'
      BY <1>2, <3>1, <3>3, <3>4 DEF Scoping
    <3>6. scoped'[t] /\ alive'[t] =>
            /\ \A i \in DOMAIN guards'[t] :
                 guards'[t][i].prior = IF i = 1 THEN None ELSE guards'[t][i-1].set
            /\ default'[t] = arg'[t] /\ prior'[t] = Innermost(t)'
      BY <1>2, <3>1, <3>2, <3>4 DEF Scoping
    <3> HIDE DEF Inv
    <3>7. QED
      BY <3>4, <3>5, <3>6 DEF Scoping
  <2>11. Remembered' /\ Publishing'
    BY <2>1, <2>2, <2>3 DEF Remembered, Publishing
  <2>12. QED
    BY Zenon, <2>4, <2>7, <2>8, <2>9, <2>10, <2>11
<1>5. QED
  BY Zenon, <1>3, <1>4 DEF SetDefault

\* The sequence is the same without its i-th element as without its last one
\* only if the two are equal.
LEMMA SameWithout ==
  ASSUME NEW S, NEW s \in Seq(S), NEW i \in 1..Len(s),
         Without(s, i) = Without(s, Len(s))
  PROVE  s[i] = s[Len(s)]
<1> DEFINE differ == {j \in Nat : j \in i..Len(s) /\ s[j] # s[i]}
<1>1. SUFFICES ASSUME differ # {} PROVE FALSE
  BY DEF differ
<1>2. PICK j \in differ : \A k \in differ : ~(k < j)
  <2>1. IsWellFoundedOn(OpToRel(<, Nat), Nat)
    BY Zenon, NatLessThanWellFounded
  <2>2. PICK j \in differ : \A k \in differ : ~(<<k, j>> \in OpToRel(<, Nat))
    <3>1. differ \subseteq Nat
      BY Zenon
    <3> HIDE DEF differ
    <3>2. QED
      BY <1>1, <2>1, <3>1, WFMin, Zenon
  <2>3. QED
    BY Zenon, <2>2 DEF OpToRel
<1>3. j \in i..Len(s) /\ s[j] # s[i] /\ j # i /\ j - 1 \in i..Len(s) /\ j - 1 < j
  BY <1>2
<1>4. s[j - 1] = s[i]
  BY <1>2, <1>3
<1>5. /\ Without(s, i)[j - 1] = s[j]
      /\ Without(s, Len(s))[j - 1] = s[j - 1]
  <2>1. j - 1 \in 1..(Len(s) - 1) /\ ~(j - 1 < i) /\ j - 1 < Len(s) /\ j - 1 + 1 = j
    BY <1>3
  <2>2. Len(s) \in 1..Len(s)
    OBVIOUS
  <2>3. \A k \in 1..(Len(s) - 1) :
          Without(s, i)[k] = IF k < i THEN s[k] ELSE s[k + 1]
    BY Zenon, WithoutOne
  <2>4. \A k \in 1..(Len(s) - 1) :
          Without(s, Len(s))[k] = IF k < Len(s) THEN s[k] ELSE s[k + 1]
    BY Zenon, <2>2, WithoutOne
  <2>5. QED
    BY Zenon, <2>1, <2>3, <2>4
<1>6. QED
  BY Zenon, <1>3, <1>4, <1>5

\* Dropping a guard keeps the invariant, a panicking drop included.
LEMMA DropGuardKeeps ==
  ASSUME Inv, Scopes, NEW t \in Threads, NEW i \in DOMAIN guards[t],
         DropGuard(t, i)
  PROVE  Inv'
<1> USE DEF Inv
<1> DEFINE rest == Without(guards[t], i)
<1>1. /\ pc[t] = "idle"
      /\ UNCHANGED <<alive, exists, globalInit, globalDispatch, arg, prior>>
  BY Zenon DEF DropGuard, globalVars
<1>2. /\ guards[t] \in Seq(Guard) /\ i \in 1..Len(guards[t])
      /\ DOMAIN guards[t] = 1..Len(guards[t])
      /\ Len(guards[t]) \in Nat /\ Len(guards[t]) > 0 /\ guards[t] # <<>>
      /\ \A j \in 1..Len(guards[t]) : guards[t][j] \in Guard
  BY DEF TypeOK
<1>3. /\ rest \in Seq(Guard) /\ Len(rest) = Len(guards[t]) - 1
      /\ DOMAIN rest = 1..(Len(guards[t]) - 1)
      /\ \A j \in 1..(Len(guards[t]) - 1) :
           rest[j] = IF j < i THEN guards[t][j] ELSE guards[t][j + 1]
  <2>1. /\ rest \in Seq(Guard) /\ Len(rest) = Len(guards[t]) - 1
        /\ \A j \in 1..(Len(guards[t]) - 1) :
             rest[j] = IF j < i THEN guards[t][j] ELSE guards[t][j + 1]
    BY Zenon, <1>2, WithoutOne
  <2> HIDE DEF rest
  <2>2. QED
    BY <2>1
<1>4. CASE Unwind(t, rest) /\ UNCHANGED pc
  <2>1. Len(rest) < Len(guards[t])
    BY <1>2, <1>3
  <2>2. UNCHANGED <<alive, exists, globalVars, pc, arg, prior>>
    BY Zenon, <1>1, <1>4 DEF globalVars
  <2> HIDE DEF rest
  <2>3. QED
    BY Zenon, <1>1, <1>3, <1>4, <2>1, <2>2, UnwindKeeps
<1>5. ASSUME default' = IF alive[t]
                        THEN [default EXCEPT ![t] = guards[t][i].prior]
                        ELSE default,
             guards' = [guards EXCEPT ![t] = rest], Goto(t, "uncount"),
             UNCHANGED <<canEnter, frames, scopedCount>>
      PROVE  Inv'
  <2> HIDE DEF rest
  <2>1. pc' = [pc EXCEPT ![t] = "uncount"]
    BY Zenon, <1>5 DEF Goto
  <2>2. /\ guards'[t] = rest /\ pc'[t] = "uncount"
        /\ \A u \in Threads \ {t} :
             guards'[u] = guards[u] /\ pc'[u] = pc[u] /\ default'[u] = default[u]
    BY Zenon, <1>5, <2>1 DEF TypeOK
  <2>3. scoped' \in [Threads -> BOOLEAN] /\ \A u \in Threads : scoped'[u] => scoped[u] /\ InScope(u)
    BY Zenon, StillScoped
  <2>4. \A u \in Threads : \A path \in {"fast", "entered"} :
          Chose(u, path)' <=> Chose(u, path)
    BY Zenon, <1>1, <2>2 DEF Chose
  <2>5. TypeOK'
    <3>1. guards[t][i].prior \in Dispatches \cup {None}
      BY Zenon, <1>2 DEF Guard
    <3>2. default' \in [Threads -> Dispatches \cup {None}]
      BY Zenon, <1>5, <3>1 DEF TypeOK
    <3>3. guards' \in [Threads -> Seq(Guard)]
      BY Zenon, <1>3, <1>5 DEF TypeOK
    <3>4. QED
      BY Zenon, <1>1, <1>5, <2>1, <2>3, <3>2, <3>3 DEF TypeOK
  <2>6. Entering'
    <3>1. ~Chose(t, "entered")
      BY Zenon, <1>1 DEF Chose
    <3>2. QED
      BY <1>1, <1>5, <2>2, <2>4, <3>1 DEF Entering, EnteredAt
  <2>7. Nested'
    <3>1. \A j \in DOMAIN rest : \E a \in 1..Len(guards[t]) :
            /\ rest[j] = guards[t][a] /\ a = IF j < i THEN j ELSE j + 1
      BY <1>2, <1>3
    <3>2. \A j \in DOMAIN rest : rest[j].depth <= Len(frames[t])
      BY Zenon, <1>2, <3>1 DEF Nested
    <3>3. ASSUME NEW j \in DOMAIN rest, NEW k \in DOMAIN rest, j <= k
          PROVE  rest[j].depth <= rest[k].depth
      <4>1. PICK a \in 1..Len(guards[t]) :
              rest[j] = guards[t][a] /\ a = IF j < i THEN j ELSE j + 1
        BY Zenon, <3>1
      <4>2. PICK b \in 1..Len(guards[t]) :
              rest[k] = guards[t][b] /\ b = IF k < i THEN k ELSE k + 1
        BY Zenon, <3>1
      <4>3. a <= b
        BY <1>2, <1>3, <3>3, <4>1, <4>2
      <4>4. QED
        BY Zenon, <1>2, <4>1, <4>2, <4>3 DEF Nested
    <3>4. QED
      BY <1>5, <2>2, <3>2, <3>3 DEF Nested
  <2>8. Counted'
    <3> DEFINE x == <<t, Len(guards[t])>>
               y == <<t, 0>>
    <3>1. /\ Counting' = (Counting \ {x}) \cup {y}
          /\ x \in Counting /\ y \notin Counting \ {x}
      BY <1>1, <1>2, <1>3, <2>2 DEF Counting
    <3> HIDE DEF x, y
    <3>2. PICK n \in Nat : HasSize(Counting, n) /\ n <= scopedCount
      BY Zenon DEF Counted
    <3>3. n > 0 /\ HasSize(Counting \ {x}, n - 1)
      BY Zenon, <3>1, <3>2, RemoveOne
    <3>4. PICK m \in Nat : m = n - 1
      BY <3>3
    <3>5. HasSize(Counting', m + 1)
      BY Zenon, <3>1, <3>3, <3>4, AddOne
    <3>6. m + 1 = n /\ n <= scopedCount'
      BY <1>5, <3>2, <3>4
    <3>7. QED
      BY Zenon, <3>5, <3>6 DEF Counted
  <2>9. Scoping'
    <3>1. ASSUME scoped'[t], alive[t]
          PROVE  /\ \A j \in DOMAIN guards'[t] :
                      guards'[t][j].prior = IF j = 1 THEN None ELSE guards'[t][j-1].set
                 /\ default'[t] = Innermost(t)'
      <4>1. rest = Without(guards[t], Len(guards[t]))
        BY <1>2, <1>3, <2>2, <2>3, <3>1 DEF InScope
      <4>2. guards[t][i] = guards[t][Len(guards[t])]
        <5>1. Without(guards[t], i) = Without(guards[t], Len(guards[t]))
          BY Zenon, <4>1 DEF rest
        <5>2. QED
          BY Zenon, <1>2, <5>1, SameWithout
      <4>3. \A j \in 1..(Len(guards[t]) - 1) : rest[j] = guards[t][j]
        <5>1. \A j \in 1..(Len(guards[t]) - 1) :
                Without(guards[t], Len(guards[t]))[j] = guards[t][j]
          BY Zenon, <1>2, WithoutLast
        <5>2. QED
          BY Zenon, <4>1, <5>1
      <4>4. \A j \in 1..Len(guards[t]) :
              guards[t][j].prior = IF j = 1 THEN None ELSE guards[t][j-1].set
        BY Zenon, <1>2, <2>3, <3>1 DEF Scoping
      <4>5. default'[t] = guards[t][Len(guards[t])].prior
        BY Zenon, <1>5, <3>1, <4>2 DEF TypeOK
      <4>6. rest = <<>> <=> Len(guards[t]) = 1
        <5>1. rest = <<>> <=> Len(rest) = 0
          BY Zenon, <1>3, EmptySeq
        <5>2. QED
          BY <1>2, <1>3, <5>1
      <4>7. default'[t] = IF rest = <<>> THEN None ELSE rest[Len(rest)].set
        <5>1. rest # <<>> => /\ Len(rest) \in 1..(Len(guards[t]) - 1)
                             /\ Len(guards[t]) \in 1..Len(guards[t])
                             /\ Len(guards[t]) # 1 /\ Len(guards[t]) - 1 = Len(rest)
          <6>1. rest # <<>> => Len(guards[t]) # 1
            BY Zenon, <4>6
          <6>2. QED
            BY <1>2, <1>3, <6>1
        <5>2. rest = <<>> => 1 \in 1..Len(guards[t]) /\ Len(guards[t]) = 1
          BY <1>2, <4>6
        <5>3. QED
          BY Zenon, <4>3, <4>4, <4>5, <5>1, <5>2
      <4>8. \A j \in 1..(Len(guards[t]) - 1) :
              rest[j].prior = IF j = 1 THEN None ELSE rest[j-1].set
        <5>1. \A j \in 1..(Len(guards[t]) - 1) : j \in 1..Len(guards[t])
                /\ (j # 1 => j - 1 \in 1..(Len(guards[t]) - 1))
          BY <1>2
        <5>2. QED
          BY Zenon, <4>3, <4>4, <5>1
      <4>9. QED
        BY Zenon, <1>3, <2>2, <4>7, <4>8 DEF Innermost, Last
    <3>2. \A u \in Threads \ {t} : Innermost(u)' = Innermost(u)
      BY Zenon, <2>2 DEF Innermost
    <3>3. ~Chose(t, "fast")'
      BY Zenon, <2>2 DEF Chose
    <3>4. QED
      BY <1>1, <2>2, <2>3, <2>4, <3>1, <3>2, <3>3 DEF Scoping
  <2>10. Remembered' /\ Publishing'
    BY <1>1, <2>2 DEF Remembered, Publishing
  <2>11. QED
    BY Zenon, <2>5, <2>6, <2>7, <2>8, <2>9, <2>10
<1>6. QED
  BY Zenon, <1>4, <1>5 DEF DropGuard

-----------------------------------------------------------------------------
(* The theorems                                                            *)

\* Initially no thread has a default, a guard or a closure.
LEMMA InitInv == Init => Inv
<1> SUFFICES ASSUME Init PROVE Inv
  BY Zenon
<1> USE DispatcherAssumption DEF Init
<1>1. TypeOK
  <2>1. /\ <<>> \in Seq(Guard) /\ <<>> \in Seq(Frame)
    BY Zenon, EmptySeq
  <2>2. QED
    BY Zenon, <2>1 DEF TypeOK
<1>2. Entering
  BY DEF Entering, EnteredAt, Chose
<1>3. Nested
  BY DEF Nested
<1>4. Counted
  <2>1. Counting = {}
    BY DEF Counting
  <2>2. QED
    BY <2>1, SizeOfNone DEF Counted
<1>5. Scoping
  BY DEF Scoping, Chose, Innermost
<1>6. Remembered /\ Publishing
  BY Zenon DEF Remembered, Publishing
<1>7. QED
  BY Zenon, <1>1, <1>2, <1>3, <1>4, <1>5, <1>6 DEF Inv

\* Every step keeps the invariant.
LEMMA NextInv == Inv /\ [Next]_vars => Inv'
<1> SUFFICES ASSUME Inv, [Next]_vars PROVE Inv'
  BY Zenon
<1>1. CASE Next
  <2>1. PICK t \in Threads : Step(t)
    BY Zenon, <1>1 DEF Next
  <2>2. Scopes
    BY Zenon, <1>1 DEF Next, Scopes
  <2>3. CASE \E d \in Dispatches : SetDefault(t, d)
    BY Zenon, <2>2, <2>3, SetDefaultKeeps
  <2>4. CASE \E i \in DOMAIN guards[t] : DropGuard(t, i)
    BY Zenon, <2>2, <2>4, DropGuardKeeps
  <2>5. CASE \E i \in DOMAIN guards[t] : \E u \in Threads : SendGuard(t, u, i)
    BY Zenon, <2>2, <2>5, SendGuardKeeps
  <2>6. CASE GetDefault(t) \/ GetGlobal(t) \/ ReadGlobal(t) \/ Return(t)
    BY Zenon, <2>2, <2>6, GetDefaultKeeps, GetGlobalKeeps, ReadGlobalKeeps, ReturnKeeps
  <2>7. CASE IncrementScoped(t) \/ DecrementScoped(t) \/ ThreadExit(t)
    BY Zenon, <2>2, <2>7, IncrementScopedKeeps, DecrementScopedKeeps, ThreadExitKeeps
  <2>8. CASE \/ \E d \in Dispatches : SetGlobalDefault(t, d)
             \/ WriteGlobal(t) \/ InitializedGlobal(t)
    BY Zenon, <2>2, <2>8, SetGlobalKeeps
  <2>9. QED
    BY Zenon, <2>1, <2>3, <2>4, <2>5, <2>6, <2>7, <2>8 DEF Step
<1>2. CASE UNCHANGED vars
  <2>1. UNCHANGED <<default, canEnter, alive, scopedCount, exists, globalInit,
                    globalDispatch, guards, frames, pc, arg, prior, scoped>>
    BY Zenon, <1>2 DEF vars, stateVars, globalVars
  <2>2. /\ TypeOK' /\ Entering' /\ Nested'
    <3>1. TypeOK'
      BY <2>1 DEF Inv, TypeOK
    <3>2. Entering'
      BY <2>1 DEF Inv, Entering, EnteredAt, Chose
    <3>3. Nested'
      BY <2>1 DEF Inv, Nested
    <3>4. QED
      BY Zenon, <3>1, <3>2, <3>3
  <2>3. Counted' /\ Scoping'
    <3>1. Counted'
      BY Zenon, <2>1 DEF Inv, Counted, Counting
    <3>2. Scoping'
      <4>1. \A u \in Threads : Innermost(u)' = Innermost(u) /\ (Chose(u, "fast")' <=> Chose(u, "fast"))
        BY Zenon, <2>1 DEF Innermost, Chose
      <4>2. QED
        BY <2>1, <4>1 DEF Inv, Scoping
    <3>3. QED
      BY Zenon, <3>1, <3>2
  <2>4. Remembered' /\ Publishing'
    BY Zenon, <2>1 DEF Inv, Remembered, Publishing
  <2>5. QED
    BY Zenon, <2>2, <2>3, <2>4 DEF Inv
<1>3. QED
  BY Zenon, <1>1, <1>2

\* The inductive invariant holds in every state of the default dispatcher.
THEOREM InvHolds == Spec => []Inv
<1>1. QED
  BY InitInv, NextInv, PTL DEF Spec

\* can_enter is false exactly while a closure runs with the thread's scoped
\* dispatcher, and at most one does (State::enter, Entered::drop).
THEOREM NeverReenters == Spec => []NoReentry
<1>1. ASSUME Inv PROVE NoReentry
  <2> SUFFICES ASSUME NEW t \in Threads
               PROVE  /\ Cardinality(EnteredAt(t)) <= 1
                      /\ pc[t] = "idle" => (canEnter[t] <=> EnteredAt(t) = {})
    BY Zenon DEF NoReentry, EnteredAt
  <2>1. \A i, j \in EnteredAt(t) : i = j
    BY Zenon, <1>1 DEF Inv, Entering
  <2>2. Cardinality(EnteredAt(t)) <= 1
    <3>1. CASE EnteredAt(t) = {}
      BY <3>1, FS_EmptySet
    <3>2. CASE EnteredAt(t) # {}
      <4>1. PICK i : EnteredAt(t) = {i}
        BY Zenon, <2>1, <3>2
      <4>2. QED
        BY <4>1, FS_Singleton
    <3>3. QED
      BY Zenon, <3>1, <3>2
  <2>3. pc[t] = "idle" => (canEnter[t] <=> EnteredAt(t) = {})
    BY Zenon, <1>1 DEF Inv, Entering, Chose
  <2>4. QED
    BY Zenon, <2>2, <2>3
<1>2. QED
  BY <1>1, InvHolds, PTL

\* What the dispatcher of a closure that starts is: the thread's default, none
\* when it cannot enter, or what get_global returns.
LEMMA Started ==
  ASSUME Inv, Next, NEW t \in Threads, Len(frames'[t]) > Len(frames[t])
  PROVE  \/ /\ pc[t] = "idle" /\ alive[t] /\ Last(frames'[t]).given = default[t]
            /\ default[t] # None
         \/ /\ pc[t] = "idle" /\ ~(alive[t] /\ canEnter[t])
            /\ Last(frames'[t]).given = None
         \/ /\ Chose(t, "fast") \/ Chose(t, "entered")
            /\ \/ Last(frames'[t]).given = None
               \/ /\ Last(frames'[t]).given = globalDispatch
                  /\ globalInit = "INITIALIZED"
<1> USE DispatcherAssumption DEF Inv
<1>1. PICK u \in Threads : Step(u)
  BY Zenon DEF Next
<1>2. Len(frames[t]) \in Nat /\ frames[t] \in Seq(Frame)
  BY DEF TypeOK
<1>3. frames'[t] # frames[t]
  BY <1>2
<1>4. CASE GetDefault(u) \/ GetGlobal(u) \/ ReadGlobal(u)
  <2>1. u = t
    <3>1. \/ frames' = frames
          \/ \E path \in {"fast", "entered", "none"},
                given \in Dispatches \cup {None, Torn} : Call(u, path, given)
      <4>1. CASE GetDefault(u)
        BY Zenon, <4>1 DEF GetDefault, TypeOK
      <4>2. CASE GetGlobal(u)
        BY Zenon, <4>2 DEF GetGlobal
      <4>3. CASE ReadGlobal(u)
        <5>1. arg[u] \in {"fast", "entered"} /\ globalDispatch \in Dispatches \cup {None, Torn}
          BY Zenon, <4>3 DEF ReadGlobal, Remembered, TypeOK
        <5>2. QED
          BY Zenon, <4>3, <5>1 DEF ReadGlobal
      <4>4. QED
        BY Zenon, <1>4, <4>1, <4>2, <4>3
    <3>2. frames' = frames \/ \A v \in Threads \ {u} : frames'[v] = frames[v]
      BY Zenon, <3>1 DEF Call, TypeOK
    <3>3. QED
      BY Zenon, <1>3, <3>2
  <2>2. CASE GetDefault(t)
    <3>1. CASE /\ alive[t] /\ default[t] # None /\ Call(t, "entered", default[t])
      <4>1. Last(frames'[t]).given = default[t]
        BY Zenon, <3>1, Called DEF TypeOK
      <4>2. QED
        BY Zenon, <2>2, <3>1, <4>1 DEF GetDefault
    <3>2. CASE ~(alive[t] /\ canEnter[t]) /\ Call(t, "none", None)
      <4>1. Last(frames'[t]).given = None
        BY Zenon, <3>2, Called
      <4>2. QED
        BY Zenon, <2>2, <3>2, <4>1 DEF GetDefault
    <3>3. QED
      BY Zenon, <1>3, <2>2, <3>1, <3>2 DEF GetDefault
  <2>3. CASE GetGlobal(t)
    <3>1. Call(t, pc[t], None) /\ pc[t] \in {"fast", "entered"}
      BY Zenon, <1>3, <2>3 DEF GetGlobal
    <3>2. Last(frames'[t]).given = None
      BY <3>1, Called
    <3>3. QED
      BY Zenon, <3>1, <3>2 DEF Chose
  <2>4. CASE ReadGlobal(t)
    <3>1. Call(t, arg[t], globalDispatch) /\ pc[t] = "read_global"
      BY Zenon, <2>4 DEF ReadGlobal
    <3>2. arg[t] \in {"fast", "entered"} /\ globalInit = "INITIALIZED"
      BY Zenon, <3>1 DEF Remembered, Publishing
    <3>3. globalDispatch \in Dispatches \cup {None, Torn}
      BY Zenon DEF TypeOK
    <3>4. Last(frames'[t]).given = globalDispatch
      BY Zenon, <3>1, <3>2, <3>3, Called
    <3>5. QED
      BY Zenon, <3>1, <3>2, <3>4 DEF Chose
  <2>5. QED
    BY Zenon, <1>4, <2>1, <2>2, <2>3, <2>4
<1>5. CASE Return(u)
  <2>1. frames[u] \in Seq(Frame) /\ frames[u] # <<>>
    BY Zenon, <1>5 DEF Return, TypeOK
  <2>2. Len(Without(frames[u], Len(frames[u]))) = Len(frames[u]) - 1
    BY Zenon, <2>1, WithoutLast
  <2>3. frames' = [frames EXCEPT ![u] = Without(frames[u], Len(frames[u]))]
    BY Zenon, <1>5 DEF Return
  <2>4. CASE u = t
    BY <1>2, <2>2, <2>3, <2>4 DEF TypeOK
  <2>5. CASE u # t
    BY Zenon, <1>3, <2>3, <2>5 DEF TypeOK
  <2>6. QED
    BY Zenon, <2>4, <2>5
<1>6. ASSUME NEW held, Unwind(u, held)
      PROVE  FALSE
  <2>1. frames' = [frames EXCEPT ![u] = <<>>]
    BY Zenon, <1>6 DEF Unwind
  <2>2. frames'[t] = frames[t] \/ Len(frames'[t]) = 0
    BY Zenon, <2>1 DEF TypeOK
  <2>3. QED
    BY <1>2, <2>2
<1>7. CASE \E d \in Dispatches : SetDefault(u, d)
  BY Zenon, <1>3, <1>6, <1>7 DEF SetDefault
<1>8. CASE \E i \in DOMAIN guards[u] : DropGuard(u, i)
  BY Zenon, <1>3, <1>6, <1>8 DEF DropGuard
<1>9. CASE \/ \E d \in Dispatches : SetGlobalDefault(u, d)
           \/ IncrementScoped(u) \/ DecrementScoped(u) \/ ThreadExit(u)
           \/ WriteGlobal(u) \/ InitializedGlobal(u)
           \/ \E i \in DOMAIN guards[u] : \E v \in Threads : SendGuard(u, v, i)
  BY Zenon, <1>3, <1>9 DEF SetGlobalDefault, IncrementScoped, DecrementScoped,
                    ThreadExit, WriteGlobal, InitializedGlobal, SendGuard
<1>10. QED
  BY Zenon, <1>1, <1>4, <1>5, <1>7, <1>8, <1>9 DEF Step

\* A closure that a thread with a guard starts, outside the closures that run
\* with its scoped dispatcher, runs with the newest guard's dispatcher, for
\* as long as the thread uses its guards as scopes (set_default, get_default).
THEOREM DeliversItsScope == Spec => DeliversScoped
<1> DEFINE A == \A t \in Threads :
                  /\ Len(frames'[t]) > Len(frames[t])
                  /\ scoped[t] /\ alive[t] /\ guards[t] # <<>> /\ ~Borrowed(t)
                  => Last(frames'[t]).given = Innermost(t)
<1>1. ASSUME Inv, [Next]_vars PROVE A \/ UNCHANGED vars
  <2> SUFFICES ASSUME Next, NEW t \in Threads,
                      Len(frames'[t]) > Len(frames[t]), scoped[t], alive[t],
                      guards[t] # <<>>, ~Borrowed(t)
               PROVE  Last(frames'[t]).given = Innermost(t)
    BY Zenon, <1>1
  <2>1. ~Chose(t, "fast")
    BY Zenon, <1>1 DEF Inv, Scoping
  <2>2. EnteredAt(t) = {}
    BY Zenon DEF EnteredAt, Borrowed
  <2>3. guards[t][Len(guards[t])] \in Guard
    BY <1>1 DEF Inv, TypeOK
  <2>4. Innermost(t) # None
    BY Zenon, <2>3, DispatcherAssumption DEF Innermost, Last, Guard
  <2>5. pc[t] # "count" => default[t] = Innermost(t)
    BY Zenon, <1>1 DEF Inv, Scoping
  <2>6. ~Chose(t, "entered")
    BY Zenon, <1>1, <2>4, <2>5 DEF Inv, Entering, Chose
  <2>7. canEnter[t]
    BY Zenon, <1>1, <2>2, <2>6 DEF Inv, Entering
  <2>8. QED
    BY Zenon, <1>1, <2>1, <2>5, <2>6, <2>7, Started
<1>2. QED
  BY <1>1, InvHolds, PTL DEF Spec, DeliversScoped

\* A closure that a thread without a guard starts, as long as the thread uses
\* its guards as scopes, runs with the published global default or with none
\* (get_default, get_global, set_global_default).
THEOREM NeverForeignDefault == Spec => NeverForeign
<1> DEFINE A == \A t \in Threads :
                  Len(frames'[t]) > Len(frames[t]) /\ scoped[t] /\ guards[t] = <<>> =>
                    Last(frames'[t]).given \in
                      {None} \cup IF globalInit = "INITIALIZED"
                                  THEN {globalDispatch} \ {Torn} ELSE {}
<1>1. ASSUME Inv, [Next]_vars PROVE A \/ UNCHANGED vars
  <2> SUFFICES ASSUME Next, NEW t \in Threads,
                      Len(frames'[t]) > Len(frames[t]), scoped[t], guards[t] = <<>>
               PROVE  Last(frames'[t]).given \in
                        {None} \cup IF globalInit = "INITIALIZED"
                                    THEN {globalDispatch} \ {Torn} ELSE {}
    BY Zenon, <1>1
  <2>1. alive[t] /\ pc[t] = "idle" => default[t] = None
    BY Zenon, <1>1 DEF Inv, Scoping, Innermost
  <2>2. globalInit = "INITIALIZED" => globalDispatch # Torn
    BY Zenon, <1>1, DispatcherAssumption DEF Inv, Publishing
  <2>3. QED
    BY Zenon, <1>1, <2>1, <2>2, Started
<1>2. QED
  BY <1>1, InvHolds, PTL DEF Spec, NeverForeign
=============================================================================
