-------------------------- MODULE AlgorithmsProofs --------------------------
(***************************************************************************)
(* Proofs about the algorithms that MCAlgorithms checks over bounded       *)
(* inputs: the stack of entered spans, the filter combinators, and the     *)
(* conversion of a time to a date.                                         *)
(***************************************************************************)
EXTENDS SpanStack, Filters, DateTime, TLAPS

-----------------------------------------------------------------------------
(***************************************************************************)
(* SpanStack: for every set of spans and any order of enters and exits,    *)
(* the `duplicate` marks stay true.                                        *)
(***************************************************************************)

\* Marked(s) is DuplicatesMarked for any sequence of entries.
Marked(s) ==
  \A i \in DOMAIN s :
    s[i].duplicate <=> \E j \in DOMAIN s : j < i /\ s[j].id = s[i].id

\* SpanStack::push computes the mark of the new entry from all the others.
LEMMA PushMarked ==
  ASSUME NEW s \in Seq(ContextId), NEW id \in Ids, Marked(s)
  PROVE  Push(s, id) \in Seq(ContextId) /\ Marked(Push(s, id))
<1> DEFINE e == [id |-> id, duplicate |-> At(s, id) # {}]
           p == Append(s, e)
<1>1. e \in ContextId
  BY DEF ContextId
<1>2. /\ p \in Seq(ContextId) /\ DOMAIN p = 1..Len(s) + 1 /\ DOMAIN s = 1..Len(s)
      /\ \A i \in 1..Len(s) : p[i] = s[i]
      /\ p[Len(s) + 1] = e /\ Len(s) \in Nat
  BY <1>1
<1>3. e.id = id /\ (e.duplicate <=> \E j \in 1..Len(s) : s[j].id = id)
  BY <1>2 DEF At
<1> HIDE DEF e, p
<1>4. \A i \in 1..Len(s) :
        p[i].duplicate <=> \E j \in DOMAIN p : j < i /\ p[j].id = p[i].id
  BY <1>2 DEF Marked
<1>5. p[Len(s) + 1].duplicate
        <=> \E j \in DOMAIN p : j < Len(s) + 1 /\ p[j].id = p[Len(s) + 1].id
  BY <1>2, <1>3
<1>6. Marked(p)
  BY <1>2, <1>4, <1>5 DEF Marked
<1>7. QED
  BY <1>2, <1>6 DEF Push, e, p

\* SpanStack::pop takes the newest entry of the span, on which no other
\* entry's mark depends.
LEMMA RemoveMarked ==
  ASSUME NEW s \in Seq(ContextId), NEW id \in Ids, NEW i \in DOMAIN s,
         PopAt(s, id, i), Marked(s)
  PROVE  /\ VecRemove(s, i) \in Seq(ContextId) /\ Len(VecRemove(s, i)) = Len(s) - 1
         /\ Marked(VecRemove(s, i))
<1> DEFINE r == VecRemove(s, i)
           old(j) == IF j < i THEN j ELSE j + 1
<1>1. DOMAIN s = 1..Len(s) /\ Len(s) \in Nat /\ i \in 1..Len(s)
  OBVIOUS
<1>2. Len(s) - 1 \in Nat /\ \A j \in 1..Len(s) - 1 : old(j) \in 1..Len(s)
  BY <1>1
<1>3. DOMAIN r = 1..Len(s) - 1 /\ \A j \in 1..Len(s) - 1 : r[j] = s[old(j)]
  BY DEF VecRemove
<1>4. r \in Seq(ContextId) /\ Len(r) = Len(s) - 1
  <2>1. \A j \in 1..Len(s) - 1 : s[old(j)] \in ContextId
    BY <1>2
  <2>2. r = [j \in 1..Len(s) - 1 |-> s[old(j)]]
    BY DEF VecRemove
  <2> HIDE DEF r, old
  <2>3. QED
    BY <1>2, <2>1, <2>2
<1> HIDE DEF r
<1>5. \A j \in 1..Len(s) : j # i => \E k \in 1..Len(s) - 1 : old(k) = j
  <2> TAKE j \in 1..Len(s)
  <2> HAVE j # i
  <2>1. CASE j < i
    <3> WITNESS j \in 1..Len(s) - 1
    <3> QED
      BY <1>1, <2>1
  <2>2. CASE j > i
    <3>1. j - 1 \in 1..Len(s) - 1 /\ old(j - 1) = j
      BY <1>1, <2>2
    <3>2. QED
      BY <3>1
  <2>3. QED
    BY <1>1, <2>1, <2>2
<1>6. \A j, k \in 1..Len(s) - 1 : k < j <=> old(k) < old(j)
  BY <1>1
<1>7. \A j \in 1..Len(s) : j > i => s[j].id # s[i].id
  BY <1>1 DEF PopAt, At
<1>8. ASSUME NEW j \in DOMAIN r
      PROVE  r[j].duplicate <=> \E k \in DOMAIN r : k < j /\ r[k].id = r[j].id
  <2>1. /\ j \in 1..Len(s) - 1 /\ old(j) \in 1..Len(s) /\ r[j] = s[old(j)]
        /\ old(j) # i
    BY <1>1, <1>2, <1>3, <1>8
  <2>2. r[j].duplicate
          <=> \E m \in 1..Len(s) : m < old(j) /\ s[m].id = s[old(j)].id
    BY <1>1, <2>1 DEF Marked
  <2> HIDE DEF old
  <2>3. ASSUME NEW m \in 1..Len(s), m < old(j), s[m].id = s[old(j)].id
        PROVE  \E k \in DOMAIN r : k < j /\ r[k].id = r[j].id
    <3>1. m # i
      BY <1>7, <2>1, <2>3
    <3>2. PICK k \in 1..Len(s) - 1 : old(k) = m
      BY <1>5, <3>1
    <3>3. k < j /\ r[k] = s[m]
      BY <1>3, <1>6, <2>1, <2>3, <3>2
    <3>4. QED
      BY <1>3, <2>1, <2>3, <3>3
  <2>4. ASSUME NEW k \in DOMAIN r, k < j, r[k].id = r[j].id
        PROVE  \E m \in 1..Len(s) : m < old(j) /\ s[m].id = s[old(j)].id
    BY <1>2, <1>3, <1>6, <2>1, <2>4
  <2>5. QED
    BY <2>2, <2>3, <2>4
<1>9. Marked(r)
  BY <1>8 DEF Marked
<1>10. QED
  BY <1>4, <1>9 DEF r

\* The inductive invariant is TypeOK and DuplicatesMarked together: the mark of
\* a new entry says something of all older entries, and stays true whatever is
\* removed, because pop never removes an entry that another one is marked for.
THEOREM StackCorrect == Spec => [](TypeOK /\ DuplicatesMarked)
<1> USE SpanStackAssumption DEF SpanStackAssumption
<1> DEFINE IInv == TypeOK /\ DuplicatesMarked
<1>1. Init => IInv
  BY DEF Init, TypeOK, DuplicatesMarked
<1>2. IInv /\ [Next]_stack => IInv'
  <2> SUFFICES ASSUME IInv, [Next]_stack PROVE IInv'
    OBVIOUS
  <2>1. stack \in Seq(ContextId) /\ Marked(stack) /\ Len(stack) <= MaxStack
    BY DEF TypeOK, DuplicatesMarked, Marked
  <2>2. ASSUME NEW id \in Ids, Enter(id)
        PROVE  stack' \in Seq(ContextId) /\ Marked(stack') /\ Len(stack') <= MaxStack
    <3>1. stack' \in Seq(ContextId) /\ Marked(stack')
      BY <2>1, <2>2, PushMarked DEF Enter
    <3>2. Len(stack') = Len(stack) + 1
      BY <2>1, <2>2 DEF Enter, Push
    <3>3. QED
      BY <2>1, <2>2, <3>1, <3>2 DEF Enter
  <2>3. ASSUME NEW id \in Ids, Exit(id)
        PROVE  stack' \in Seq(ContextId) /\ Marked(stack') /\ Len(stack') <= MaxStack
    <3>1. CASE At(stack, id) = {} /\ UNCHANGED stack
      BY <2>1, <3>1
    <3>2. ASSUME NEW i \in DOMAIN stack, PopAt(stack, id, i),
                 stack' = VecRemove(stack, i)
          PROVE  stack' \in Seq(ContextId) /\ Marked(stack')
                 /\ Len(stack') <= MaxStack
      BY <2>1, <3>2, RemoveMarked
    <3>3. QED
      BY <2>3, <3>1, <3>2 DEF Exit
  <2>4. ASSUME UNCHANGED stack
        PROVE  stack' \in Seq(ContextId) /\ Marked(stack') /\ Len(stack') <= MaxStack
    BY <2>1, <2>4
  <2>5. stack' \in Seq(ContextId) /\ Marked(stack') /\ Len(stack') <= MaxStack
    BY <2>2, <2>3, <2>4 DEF Next
  <2>6. QED
    BY <2>5 DEF TypeOK, DuplicatesMarked, Marked
<1>3. QED
  BY <1>1, <1>2, PTL DEF Spec

-----------------------------------------------------------------------------
(***************************************************************************)
(* Filters: every filter made with the combinators is sound, whatever the  *)
(* metadata, the contexts and the filters it is made of.                   *)
(***************************************************************************)

\* The inductive invariant: the filters a program has are filters, and sound.
FInv == built \subseteq FilterType /\ AllSound

\* What And answers, from what its parts answer.
LEMMA AndSound ==
  ASSUME NEW a \in FilterType, NEW b \in FilterType, Sound(a), Sound(b)
  PROVE  And(a, b) \in FilterType /\ Sound(And(a, b))
<1>1. And(a, b) \in FilterType
  BY DEF And, FilterType, Answers, AndInterest, Interests, Hints, NoHint
<1>2. InterestSound(And(a, b))
  BY DEF Sound, InterestSound, And, AndInterest, FilterType, Answers, Interests
<1>3. HintSound(And(a, b))
  BY FiltersAssumption
  DEF Sound, HintSound, BelowHint, And, FilterType, Answers, Hints, NoHint, Levels
<1> QED BY <1>1, <1>2, <1>3 DEF Sound

\* What Or answers, from what its parts answer.
LEMMA OrSound ==
  ASSUME NEW a \in FilterType, NEW b \in FilterType, Sound(a), Sound(b)
  PROVE  Or(a, b) \in FilterType /\ Sound(Or(a, b))
<1>1. Or(a, b) \in FilterType
  BY DEF Or, FilterType, Answers, OrInterest, OrHint, Interests, Hints, NoHint
<1>2. InterestSound(Or(a, b))
  BY DEF Sound, InterestSound, Or, OrInterest, FilterType, Answers, Interests
<1>3. ASSUME NEW m \in Metas, NEW c \in Contexts, Or(a, b).enabled[m][c]
      PROVE  BelowHint(m, Or(a, b).hint)
  <2>1. a.hint \in Hints /\ b.hint \in Hints /\ m.level \in Levels
    BY FiltersAssumption DEF FilterType
  <2>2. Or(a, b).hint = OrHint(a.hint, b.hint)
    BY DEF Or
  <2>3. BelowHint(m, a.hint) \/ BelowHint(m, b.hint)
    BY <1>3 DEF Or, Sound, HintSound
  <2> QED BY <2>1, <2>2, <2>3 DEF BelowHint, OrHint, Hints, NoHint, Levels
<1> QED BY <1>1, <1>2, <1>3 DEF Sound, HintSound

\* What Not answers, from what its part answers: it never hints.
LEMMA NotSound ==
  ASSUME NEW a \in FilterType, Sound(a)
  PROVE  Not(a) \in FilterType /\ Sound(Not(a))
<1>1. Not(a) \in FilterType
  BY DEF Not, FilterType, Answers, Always, Interests, Hints, NoHint
<1>2. InterestSound(Not(a))
  BY DEF Sound, InterestSound, Not, FilterType, Answers, Interests
<1>3. HintSound(Not(a))
  BY DEF HintSound, BelowHint, Not
<1> QED BY <1>1, <1>2, <1>3 DEF Sound

\* A LevelFilter is sound.
LEMMA LevelFilterSound ==
  ASSUME NEW level \in Off .. 5
  PROVE  LevelFilter(level) \in FilterType /\ Sound(LevelFilter(level))
<1>1. LevelFilter(level) \in FilterType
  BY FiltersAssumption
  DEF LevelFilter, FilterType, Answers, Always, AlwaysOrNever, Interests, Hints, NoHint, Off, Levels
<1> QED
  BY <1>1, FiltersAssumption
  DEF LevelFilter, Sound, InterestSound, HintSound, BelowHint, AlwaysOrNever, Off, Levels

\* A FilterFn whose debug assertions hold is sound.
LEMMA FilterFnSound ==
  ASSUME NEW f \in [Metas -> BOOLEAN], NEW hint \in Hints, FilterFnAsserts(f, hint)
  PROVE  FilterFn(f, hint) \in FilterType /\ Sound(FilterFn(f, hint))
  BY DEF FilterFn, FilterFnAsserts, FilterType, Answers, Always, AlwaysOrNever, Interests,
         Sound, InterestSound, HintSound

\* A DynFilterFn whose debug assertions hold is sound, if its callback is.
LEMMA DynFilterFnSound ==
  ASSUME NEW f \in Answers, NEW callback \in [Metas -> Interests] \cup {NoCallback},
         NEW hint \in Hints, DynFilterFnAsserts(f, callback, hint),
         callback # NoCallback => InterestSound(DynFilterFn(f, callback, hint))
  PROVE  /\ DynFilterFn(f, callback, hint) \in FilterType
         /\ Sound(DynFilterFn(f, callback, hint))
<1> DEFINE d == DynFilterFn(f, callback, hint)
<1>1. d \in FilterType
  BY DEF DynFilterFn, DefaultCallsite, FilterType, Answers, Always, Interests
<1>2. HintSound(d)
  BY DEF DynFilterFn, DynFilterFnAsserts, HintSound
<1>3. CASE callback # NoCallback
  BY <1>1, <1>2, <1>3 DEF Sound
<1>4. CASE callback = NoCallback
  <2>1. InterestSound(d)
    BY <1>4 DEF DynFilterFn, DefaultCallsite, DynFilterFnAsserts, InterestSound
  <2> QED BY <1>1, <1>2, <2>1 DEF Sound
<1> QED BY <1>3, <1>4

\* The filters and layers with only the methods of their traits are sound; a
\* layer's enabled must not depend on the context.
LEMMA DefaultsSound ==
  ASSUME NEW enabled \in Answers, NEW eventEnabled \in Answers
  PROVE  /\ FilterDefaults(enabled, eventEnabled) \in FilterType
         /\ Sound(FilterDefaults(enabled, eventEnabled))
         /\ (\A m \in Metas, c \in Contexts : enabled[m][c] = enabled[m][NoContext])
              => LayerDefaults(enabled) \in FilterType /\ Sound(LayerDefaults(enabled))
         /\ NoFilter \in FilterType /\ Sound(NoFilter)
<1>1. /\ FilterDefaults(enabled, eventEnabled) \in FilterType
      /\ Sound(FilterDefaults(enabled, eventEnabled))
  BY DEF FilterDefaults, FilterType, Interests, Hints, NoHint, Sound, InterestSound,
         HintSound, BelowHint
<1>2. ASSUME \A m \in Metas, c \in Contexts : enabled[m][c] = enabled[m][NoContext]
      PROVE  LayerDefaults(enabled) \in FilterType /\ Sound(LayerDefaults(enabled))
  BY <1>2, FiltersAssumption
  DEF LayerDefaults, FilterType, Answers, Always, AlwaysOrNever, Interests, Hints, NoHint,
      Sound, InterestSound, HintSound, BelowHint
<1>3. NoFilter \in FilterType /\ Sound(NoFilter)
  BY DEF NoFilter, FilterType, Answers, Always, Interests, Hints, NoHint, Sound,
         InterestSound, HintSound, BelowHint
<1> QED BY <1>1, <1>2, <1>3

\* A filter that is added and is sound keeps the invariant.
LEMMA HasSound ==
  ASSUME FInv, NEW f, f \in FilterType, Sound(f), Has(f)
  PROVE  FInv'
  BY DEF FInv, AllSound, Has

\* Whatever filters a program makes of those it has, callsite_enabled and
\* max_level_hint never contradict enabled.
THEOREM CombinatorsSound == FilterSpec => []AllSound
<1>1. FilterInit => FInv
  BY DEF FilterInit, FInv, AllSound
<1>2. FInv /\ [FilterNext]_built => FInv'
  <2> SUFFICES ASSUME FInv, [FilterNext]_built PROVE FInv'
    OBVIOUS
  <2>1. CASE UNCHANGED built
    BY <2>1 DEF FInv, AllSound
  <2>2. ASSUME NEW enabled \in Given, NEW eventEnabled \in Given,
               NewFilter(enabled, eventEnabled)
        PROVE  FInv'
    BY <2>2, FiltersAssumption, DefaultsSound, HasSound DEF NewFilter
  <2>3. ASSUME NEW enabled \in Given, NewLayer(enabled) PROVE FInv'
    BY <2>3, FiltersAssumption, DefaultsSound, HasSound DEF NewLayer
  <2>4. ASSUME NEW level \in Off .. 5, NewLevelFilter(level) PROVE FInv'
    BY <2>4, LevelFilterSound, HasSound DEF NewLevelFilter
  <2>5. ASSUME NEW f \in [Metas -> BOOLEAN], NEW hint \in Hints, NewFilterFn(f, hint)
        PROVE  FInv'
    BY <2>5, FilterFnSound, HasSound DEF NewFilterFn
  <2>6. ASSUME NEW f \in Given, NEW callback \in [Metas -> Interests] \cup {NoCallback},
               NEW hint \in Hints, NewDynFilterFn(f, callback, hint)
        PROVE  FInv'
    BY <2>6, FiltersAssumption, DynFilterFnSound, HasSound DEF NewDynFilterFn
  <2>7. ASSUME NEW a \in built, NEW b \in built, Combine(a, b) PROVE FInv'
    <3>1. a \in FilterType /\ Sound(a) /\ b \in FilterType /\ Sound(b)
      BY DEF FInv, AllSound
    <3>2. NoFilter \in FilterType /\ Sound(NoFilter)
      BY <3>1, DefaultsSound DEF FilterType
    <3> QED BY <2>7, <3>1, <3>2, AndSound, OrSound, NotSound, HasSound DEF Combine
  <2> QED
    BY <2>1, <2>2, <2>3, <2>4, <2>5, <2>6, <2>7 DEF FilterNext
<1>3. FInv => AllSound
  BY DEF FInv
<1> QED BY <1>1, <1>2, <1>3, PTL DEF FilterSpec

-----------------------------------------------------------------------------
(***************************************************************************)
(* DateTime: for every day, the date computed for the day after is the day *)
(* after the date.  The argument follows the computation: the place of a   *)
(* day in its cycle of 400 years is unique, a step either stays in a year  *)
(* that begins in March or begins the next one, and such a year has 366    *)
(* days iff the calendar year in which it ends is a leap year.             *)
(***************************************************************************)

\* Day r of year y of four years q of century c of the cycle: a year has its day
\* 365 only if it is the last of its four, and not the last of a century that is
\* not the last of the cycle.
Place(c, q, y, r) ==
  /\ c \in Nat /\ c <= 3 /\ q \in Nat /\ q <= 24 /\ y \in Nat /\ y <= 3 /\ r \in Nat /\ r <= 365
  /\ r = 365 => y = 3 /\ (q # 24 \/ c = 3)

DayOf(c, q, y, r) == c * 36524 + q * 1461 + y * 365 + r

\* The division with floor that InCycle comes to.
LEMMA InCycleOf ==
  ASSUME NEW k \in Int, NEW n \in Nat, n < 146097
  PROVE  InCycle(k * 146097 + n) = [cycles |-> k, remdays |-> n]
<1> DEFINE a == k * 146097 + n
<1>1. a \in Int
  OBVIOUS
<1>2. CASE a >= 0
  <2>1. k >= 0
    BY <1>2
  <2>2. a \div 146097 = k
    BY <1>1, <1>2, <2>1
  <2>3. Quot(a, DaysPer400Y) = k /\ Rem(a, DaysPer400Y) = n
    BY <1>1, <1>2, <2>2 DEF Quot, Rem, DaysPer400Y
  <2> QED
    BY <2>3 DEF InCycle
<1>3. CASE a < 0 /\ n = 0
  <2>1. (-a) \div 146097 = -k
    BY <1>1, <1>3
  <2>2. Quot(a, DaysPer400Y) = k /\ Rem(a, DaysPer400Y) = n
    BY <1>1, <1>3, <2>1 DEF Quot, Rem, DaysPer400Y
  <2> QED
    BY <2>2 DEF InCycle
<1>4. CASE a < 0 /\ n # 0
  <2>1. (-a) \div 146097 = -k - 1
    BY <1>1, <1>4
  <2>2. Quot(a, DaysPer400Y) = k + 1 /\ Rem(a, DaysPer400Y) = n - 146097
    BY <1>1, <1>4, <2>1 DEF Quot, Rem, DaysPer400Y
  <2> QED
    BY <2>2 DEF InCycle, DaysPer400Y
<1> QED
  BY <1>1, <1>2, <1>3, <1>4

\* The clamped quotients are the place of a day.
LEMMA CycleOf ==
  ASSUME NEW c, NEW q, NEW y, NEW r, Place(c, q, y, r)
  PROVE  /\ DayOf(c, q, y, r) \in Nat /\ DayOf(c, q, y, r) < 146097
         /\ Cycle(DayOf(c, q, y, r)) = [years |-> y + 4 * q + 100 * c, remdays |-> r]
<1> DEFINE n == DayOf(c, q, y, r)
           s == q * 1461 + y * 365 + r
           u == y * 365 + r
<1>1. /\ c \in Nat /\ c <= 3 /\ q \in Nat /\ q <= 24 /\ y \in Nat /\ y <= 3 /\ r \in Nat /\ r <= 365
      /\ r = 365 => y = 3 /\ (q # 24 \/ c = 3)
  BY DEF Place
<1>2. n = c * 36524 + s /\ n \in Nat
  BY <1>1 DEF DayOf
<1>3. u \in Nat /\ u <= 1460 /\ (q = 24 /\ c # 3 => u < 1460)
  BY <1>1
<1>4. s \in Nat /\ s <= 36524 /\ (c # 3 => s < 36524)
  BY <1>1, <1>3
<1>5. n \in Nat /\ n < 146097
  BY <1>1, <1>2, <1>4
<1>6. Least(n \div DaysPer100Y, 3) = c
  BY <1>1, <1>2, <1>4 DEF Least, DaysPer100Y
<1>7. Least(s \div DaysPer4Y, 24) = q
  BY <1>1, <1>3, <1>4 DEF Least, DaysPer4Y
<1>8. Least(u \div 365, 3) = y
  BY <1>1, <1>3 DEF Least
<1>9. n - c * DaysPer100Y = s /\ s - q * DaysPer4Y = u /\ u - 365 * y = r
  BY <1>1, <1>2 DEF DaysPer100Y, DaysPer4Y
<1>10. Cycle(n) = [years |-> y + 4 * q + 100 * c, remdays |-> r]
  BY <1>6, <1>7, <1>8, <1>9 DEF Cycle
<1> QED
  BY <1>5, <1>10

\* Every day of a cycle has a place.
LEMMA HasPlace ==
  ASSUME NEW n \in Nat, n < 146097
  PROVE  \E c, q, y, r : Place(c, q, y, r) /\ n = DayOf(c, q, y, r)
<1> DEFINE c == Least(n \div 36524, 3)
           s == n - c * 36524
           q == Least(s \div 1461, 24)
           u == s - q * 1461
           y == Least(u \div 365, 3)
           r == u - y * 365
<1>1. c \in Nat /\ c <= 3 /\ s \in Nat /\ s <= 36524 /\ (c # 3 => s < 36524)
  BY DEF Least
<1> HIDE DEF c
<1> HIDE DEF s
<1>2. q \in Nat /\ q <= 24 /\ u \in Nat /\ u <= 1460 /\ (q = 24 /\ c # 3 => u < 1460)
  BY <1>1 DEF Least
<1> HIDE DEF q
<1> HIDE DEF u
<1>3. y \in Nat /\ y <= 3 /\ r \in Nat /\ r <= 365 /\ (r = 365 => y = 3 /\ u = 1460)
  BY <1>2 DEF Least
<1>4. Place(c, q, y, r)
  BY <1>1, <1>2, <1>3 DEF Place
<1>5. n = c * 36524 + s /\ s = q * 1461 + u /\ u = y * 365 + r
  BY <1>1, <1>2, <1>3 DEF s, u
<1>6. n = DayOf(c, q, y, r)
  BY <1>1, <1>2, <1>3, <1>5 DEF DayOf
<1> QED
  BY <1>4, <1>6

\* A day is in the month m of its year.
In(m, r) ==
  /\ DaysBefore[m + 1] <= r
  /\ m = 11 \/ r < DaysBefore[m + 2]

\* The entries of the table are numbers.
LEMMA DaysBeforeType ==
  ASSUME NEW i \in 1 .. 12
  PROVE  DaysBefore[i] \in Nat
BY DEF DaysBefore

\* The numbers of the table grow.
LEMMA DaysBeforeGrows ==
  ASSUME NEW i \in 1 .. 12, NEW j \in 1 .. 12, i < j
  PROVE  DaysBefore[i + 1] <= DaysBefore[j]
BY DEF DaysBefore

\* The loop over the months stops at the only month that the day falls in.
LEMMA MonthsOf ==
  ASSUME NEW m \in 0 .. 11, NEW r \in Nat, In(m, r)
  PROVE  Months(r) = m
<1>1. ASSUME NEW i \in 0 .. 11, In(i, r), i # m PROVE FALSE
  <2>1. CASE i < m
    <3>1. DaysBefore[i + 2] <= DaysBefore[m + 1]
      BY <2>1, DaysBeforeGrows
    <3>2. DaysBefore[i + 2] \in Nat /\ DaysBefore[m + 1] \in Nat
      BY <2>1, DaysBeforeType
    <3> QED
      BY <1>1, <2>1, <3>1, <3>2 DEF In
  <2>2. CASE m < i
    <3>1. DaysBefore[m + 2] <= DaysBefore[i + 1]
      BY <2>2, DaysBeforeGrows
    <3>2. DaysBefore[m + 2] \in Nat /\ DaysBefore[i + 1] \in Nat
      BY <2>2, DaysBeforeType
    <3> QED
      BY <1>1, <2>2, <3>1, <3>2 DEF In
  <2> QED
    BY <1>1, <2>1, <2>2
<1>2. Months(r) = CHOOSE i \in 0 .. 11 : In(i, r)
  BY DEF Months, In
<1> QED
  BY <1>1, <1>2

\* Every day of a year falls in a month.
LEMMA HasMonth ==
  ASSUME NEW r \in Nat, r <= 365
  PROVE  \E m \in 0 .. 11 : In(m, r)
BY DEF In, DaysBefore

MonthOf(m) == IF m >= 10 THEN m - 9 ELSE m + 3
YearOf(years, m) == IF m >= 10 THEN years + 2001 ELSE years + 2000

Ymd(y, m, d) == [year |-> y, month |-> m, day |-> d]

\* The date of a day whose month is known.
LEMMA DateIn ==
  ASSUME NEW m \in 0 .. 11, NEW r \in Nat, In(m, r), NEW years \in Int
  PROVE  Date(years, r) = Ymd(YearOf(years, m), MonthOf(m), r - DaysBefore[m + 1] + 1)
<1>1. Months(r) = m
  BY MonthsOf
<1>2. (IF m >= 10 THEN years + 1 ELSE years) + 2000 = YearOf(years, m)
  BY DEF YearOf
<1>3. (IF m >= 10 THEN m - 12 ELSE m) + 3 = MonthOf(m)
  BY DEF MonthOf
<1> QED
  BY <1>1, <1>2, <1>3 DEF Date, Ymd

\* The table is the calendar's: the months of a year that begins in March.
LEMMA MonthLength ==
  ASSUME NEW m \in 0 .. 10, NEW year \in Int
  PROVE  DaysIn(year, MonthOf(m)) = DaysBefore[m + 2] - DaysBefore[m + 1]
BY DEF DaysIn, MonthOf, DaysBefore

\* The day after, in a year that begins in March.
LEMMA WithinYear ==
  ASSUME NEW years \in Int, NEW r \in Nat, r < 365, r = 364 => Leap(years + 2001)
  PROVE  Date(years, r + 1) = Tomorrow(Date(years, r))
<1>1. PICK m \in 0 .. 11 : In(m, r)
  BY HasMonth
<1> DEFINE d == Date(years, r)
           e == Date(years, r + 1)
<1>2. d = Ymd(YearOf(years, m), MonthOf(m), r - DaysBefore[m + 1] + 1)
  BY <1>1, DateIn
<1>3. DaysBefore[m + 1] \in Nat /\ YearOf(years, m) \in Int /\ MonthOf(m) \in 1 .. 12
  BY DaysBeforeType DEF YearOf, MonthOf
<1>4. CASE In(m, r + 1)
  <2>1. e = Ymd(YearOf(years, m), MonthOf(m), (r + 1) - DaysBefore[m + 1] + 1)
    <3>1. PICK x \in Nat : x = r + 1
      OBVIOUS
    <3>2. Date(years, x) = Ymd(YearOf(years, m), MonthOf(m), x - DaysBefore[m + 1] + 1)
      BY <1>4, <3>1, DateIn
    <3> QED
      BY <3>1, <3>2
  <2>2. CASE m = 11
    <3>1. DaysBefore[12] = 337 /\ MonthOf(11) = 2 /\ YearOf(years, 11) = years + 2001
      BY DEF DaysBefore, MonthOf, YearOf
    <3>2. r - DaysBefore[m + 1] + 1 < DaysIn(YearOf(years, m), MonthOf(m))
      BY <2>2, <3>1 DEF DaysIn
    <3> QED
      BY <1>2, <1>3, <2>1, <3>2 DEF Tomorrow, Ymd
  <2>3. CASE m # 11
    <3>1. m \in 0 .. 10 /\ DaysBefore[m + 2] \in Nat
      BY <2>3, DaysBeforeType
    <3>2. r + 1 < DaysBefore[m + 2]
      BY <1>4, <2>3 DEF In
    <3>3. DaysIn(YearOf(years, m), MonthOf(m)) = DaysBefore[m + 2] - DaysBefore[m + 1]
      BY <1>3, <3>1, MonthLength
    <3>4. r - DaysBefore[m + 1] + 1 < DaysIn(YearOf(years, m), MonthOf(m))
      BY <1>3, <3>1, <3>2, <3>3
    <3> QED
      BY <1>2, <1>3, <2>1, <3>4 DEF Tomorrow, Ymd
  <2> QED
    BY <2>2, <2>3
<1>5. CASE ~In(m, r + 1)
  <2>1. m \in 0 .. 10 /\ DaysBefore[m + 2] \in Nat /\ r + 1 = DaysBefore[m + 2]
    BY <1>1, <1>3, <1>5, DaysBeforeType DEF In
  <2>2. m + 1 \in 0 .. 11 /\ In(m + 1, r + 1)
    BY <2>1, DaysBeforeGrows DEF In, DaysBefore
  <2>3. e = Ymd(YearOf(years, m + 1), MonthOf(m + 1), 1)
    <3>1. PICK x \in Nat : x = r + 1
      OBVIOUS
    <3>2. PICK n \in 0 .. 11 : n = m + 1
      BY <2>1
    <3>3. Date(years, x) = Ymd(YearOf(years, n), MonthOf(n), x - DaysBefore[n + 1] + 1)
      BY <2>2, <3>1, <3>2, DateIn
    <3>4. DaysBefore[n + 1] = x
      BY <2>1, <3>1, <3>2
    <3> QED
      BY <3>1, <3>2, <3>3, <3>4
  <2>4. DaysIn(YearOf(years, m), MonthOf(m)) = DaysBefore[m + 2] - DaysBefore[m + 1]
    BY <1>3, <2>1, MonthLength
  <2>5. ~(r - DaysBefore[m + 1] + 1 < DaysIn(YearOf(years, m), MonthOf(m)))
    BY <1>3, <2>1, <2>4
  <2>6. IF MonthOf(m) < 12
        THEN YearOf(years, m + 1) = YearOf(years, m) /\ MonthOf(m + 1) = MonthOf(m) + 1
        ELSE YearOf(years, m + 1) = YearOf(years, m) + 1 /\ MonthOf(m + 1) = 1
    BY <2>1 DEF YearOf, MonthOf
  <2> QED
    BY <1>2, <1>3, <2>3, <2>5, <2>6 DEF Tomorrow, Ymd
<1> QED
  BY <1>4, <1>5

\* The last day of February and the first of March.
LEMMA NewYear ==
  ASSUME NEW years \in Int, NEW r \in {364, 365}, r = 365 <=> Leap(years + 2001)
  PROVE  Date(years + 1, 0) = Tomorrow(Date(years, r))
<1>1. In(11, r) /\ In(0, 0) /\ DaysBefore[12] = 337 /\ DaysBefore[1] = 0
  BY DEF In, DaysBefore
<1>2. Date(years, r) = Ymd(years + 2001, 2, r - 336)
  <2>1. Date(years, r) = Ymd(YearOf(years, 11), MonthOf(11), r - DaysBefore[11 + 1] + 1)
    <3>1. r \in Nat /\ 11 \in 0 .. 11
      OBVIOUS
    <3> QED
      BY <1>1, <3>1, DateIn
  <2>2. /\ YearOf(years, 11) = years + 2001 /\ MonthOf(11) = 2
        /\ r - DaysBefore[11 + 1] + 1 = r - 336
    BY <1>1 DEF YearOf, MonthOf
  <2> QED
    BY <2>1, <2>2
<1>3. Date(years + 1, 0) = Ymd(years + 2001, 3, 1)
  <2>1. PICK x \in Int : x = years + 1
    OBVIOUS
  <2>2. 0 \in Nat /\ 0 \in 0 .. 11
    OBVIOUS
  <2>3. Date(x, 0) = Ymd(YearOf(x, 0), MonthOf(0), 0 - DaysBefore[0 + 1] + 1)
    BY <1>1, <2>2, DateIn
  <2>4. YearOf(x, 0) = years + 2001 /\ MonthOf(0) = 3 /\ 0 - DaysBefore[0 + 1] + 1 = 1
    BY <1>1, <2>1 DEF YearOf, MonthOf
  <2> QED
    BY <2>1, <2>3, <2>4
<1>4. DaysIn(years + 2001, 2) = IF r = 365 THEN 29 ELSE 28
  BY DEF DaysIn
<1> QED
  BY <1>2, <1>3, <1>4 DEF Tomorrow, Ymd

\* Which years of a cycle are leap years.
LEMMA LeapYears ==
  ASSUME NEW k \in Int, NEW c, NEW q, NEW y, NEW r, Place(c, q, y, r)
  PROVE  Leap(y + 4 * q + 100 * c + 400 * k + 2001) <=> y = 3 /\ (q # 24 \/ c = 3)
<1> DEFINE n == y + 4 * q + 100 * c + 400 * k + 2001
<1>1. /\ c \in Nat /\ c <= 3 /\ q \in Nat /\ q <= 24 /\ y \in Nat /\ y <= 3
      /\ n \in Int
  BY DEF Place
<1>2. n % 4 = 0 <=> y = 3
  BY <1>1
<1>3. y = 3 => (n % 100 = 0 <=> q = 24)
  BY <1>1
<1>4. y = 3 /\ q = 24 => (n % 400 = 0 <=> c = 3)
  BY <1>1
<1>5. n % 400 = 0 => n % 100 = 0
  BY <1>1
<1> QED
  BY <1>2, <1>3, <1>4, <1>5 DEF Leap

\* The date of a day whose place in its cycle is known.
LEMMA CivilOf ==
  ASSUME NEW k \in Int, NEW c, NEW q, NEW y, NEW r, Place(c, q, y, r)
  PROVE  Civil(k * 146097 + DayOf(c, q, y, r)) = Date(y + 4 * q + 100 * c + 400 * k, r)
<1> DEFINE n == DayOf(c, q, y, r)
<1>1. n \in Nat /\ n < 146097
      /\ Cycle(n) = [years |-> y + 4 * q + 100 * c, remdays |-> r]
  BY CycleOf
<1>2. InCycle(k * 146097 + n) = [cycles |-> k, remdays |-> n]
  BY <1>1, InCycleOf
<1> QED
  BY <1>1, <1>2 DEF Civil

\* The day after is in the same year, or the first of the next one.
YearGoesOn(c, q, y, r) ==
  /\ r < 365 /\ Place(c, q, y, r + 1)
  /\ DayOf(c, q, y, r + 1) = DayOf(c, q, y, r) + 1

YearEnds(k, c, q, y, r) ==
  /\ r \in {364, 365} /\ (r = 365 <=> y = 3 /\ (q # 24 \/ c = 3))
  /\ Civil(k * 146097 + DayOf(c, q, y, r) + 1)
       = Date(y + 4 * q + 100 * c + 400 * k + 1, 0)

\* The day after, by place: in the same year or at the start of the next one.
LEMMA NextPlace ==
  ASSUME NEW k \in Int, NEW c, NEW q, NEW y, NEW r, Place(c, q, y, r)
  PROVE  YearGoesOn(c, q, y, r) \/ YearEnds(k, c, q, y, r)
<1>1. /\ c \in Nat /\ c <= 3 /\ q \in Nat /\ q <= 24 /\ y \in Nat /\ y <= 3
      /\ r \in Nat /\ r <= 365 /\ (r = 365 => y = 3 /\ (q # 24 \/ c = 3))
  BY DEF Place
<1>2. CASE r < 364 \/ (r = 364 /\ y = 3 /\ (q # 24 \/ c = 3))
  BY <1>1, <1>2 DEF YearGoesOn, Place, DayOf
<1>3. CASE r = 365 \/ (r = 364 /\ ~(y = 3 /\ (q # 24 \/ c = 3)))
  <2>1. r \in {364, 365} /\ (r = 365 <=> y = 3 /\ (q # 24 \/ c = 3))
    BY <1>1, <1>3
  <2>2. CASE y < 3
    <3>1. Place(c, q, y + 1, 0)
      BY <1>1, <2>2 DEF Place
    <3>2. k * 146097 + DayOf(c, q, y, r) + 1 = k * 146097 + DayOf(c, q, y + 1, 0)
      BY <1>1, <1>3, <2>2 DEF DayOf
    <3>3. y + 4 * q + 100 * c + 400 * k + 1 = (y + 1) + 4 * q + 100 * c + 400 * k
      BY <1>1
    <3>4. Civil(k * 146097 + DayOf(c, q, y + 1, 0)) = Date((y + 1) + 4 * q + 100 * c + 400 * k, 0)
      BY <3>1, CivilOf
    <3> QED
      BY <2>1, <3>2, <3>3, <3>4 DEF YearEnds
  <2>3. CASE y = 3 /\ q < 24
    <3>1. Place(c, q + 1, 0, 0)
      BY <1>1, <2>3 DEF Place
    <3>2. k * 146097 + DayOf(c, q, y, r) + 1 = k * 146097 + DayOf(c, q + 1, 0, 0)
      BY <1>1, <2>1, <2>3 DEF DayOf
    <3>3. y + 4 * q + 100 * c + 400 * k + 1 = 0 + 4 * (q + 1) + 100 * c + 400 * k
      BY <1>1, <2>3
    <3>4. Civil(k * 146097 + DayOf(c, q + 1, 0, 0)) = Date(0 + 4 * (q + 1) + 100 * c + 400 * k, 0)
      BY <3>1, CivilOf
    <3> QED
      BY <2>1, <3>2, <3>3, <3>4 DEF YearEnds
  <2>4. CASE y = 3 /\ q = 24 /\ c < 3
    <3>1. Place(c + 1, 0, 0, 0)
      BY <1>1, <2>4 DEF Place
    <3>2. k * 146097 + DayOf(c, q, y, r) + 1 = k * 146097 + DayOf(c + 1, 0, 0, 0)
      BY <1>1, <2>1, <2>4 DEF DayOf
    <3>3. y + 4 * q + 100 * c + 400 * k + 1 = 0 + 4 * 0 + 100 * (c + 1) + 400 * k
      BY <1>1, <2>4
    <3>4. Civil(k * 146097 + DayOf(c + 1, 0, 0, 0)) = Date(0 + 4 * 0 + 100 * (c + 1) + 400 * k, 0)
      BY <3>1, CivilOf
    <3> QED
      BY <2>1, <3>2, <3>3, <3>4 DEF YearEnds
  <2>5. CASE y = 3 /\ q = 24 /\ c = 3
    <3>1. PICK kk \in Int : kk = k + 1
      OBVIOUS
    <3>2. PICK z \in Nat : z = 0
      OBVIOUS
    <3>3. Place(z, z, z, 0)
      BY <3>2 DEF Place
    <3>4. k * 146097 + DayOf(c, q, y, r) + 1 = kk * 146097 + DayOf(z, z, z, 0)
      BY <1>1, <2>1, <2>5, <3>1, <3>2 DEF DayOf
    <3>5. y + 4 * q + 100 * c + 400 * k + 1 = z + 4 * z + 100 * z + 400 * kk
      BY <1>1, <2>5, <3>1, <3>2
    <3>6. Civil(kk * 146097 + DayOf(z, z, z, 0)) = Date(z + 4 * z + 100 * z + 400 * kk, 0)
      BY <3>3, CivilOf
    <3> QED
      BY <2>1, <3>4, <3>5, <3>6 DEF YearEnds
  <2> QED
    BY <1>1, <2>2, <2>3, <2>4, <2>5
<1> QED
  BY <1>1, <1>2, <1>3

\* DateTime::from gives, for the day after any day, the day after its date in the
\* Gregorian calendar; with the date of one day, that determines them all.
THEOREM NextDayCivil ==
  ASSUME NEW days \in Int
  PROVE  Civil(days + 1) = Tomorrow(Civil(days))
<1>1. PICK k \in Int, n \in Nat : n < 146097 /\ days = k * 146097 + n
  <2>1. /\ days \div 146097 \in Int
        /\ 146097 * (days \div 146097) <= days
        /\ days < 146097 * (days \div 146097) + 146097
    OBVIOUS
  <2> QED
    BY <2>1
<1>2. PICK c, q, y, r : Place(c, q, y, r) /\ n = DayOf(c, q, y, r)
  BY <1>1, HasPlace
<1> DEFINE years == y + 4 * q + 100 * c + 400 * k
<1>3. years \in Int /\ r \in Nat /\ n \in Int
  BY <1>2 DEF Place
<1>4. Civil(days) = Date(years, r)
  BY <1>1, <1>2, CivilOf
<1>5. Leap(years + 2001) <=> y = 3 /\ (q # 24 \/ c = 3)
  BY <1>2, LeapYears
<1> HIDE DEF years
<1>6. CASE YearGoesOn(c, q, y, r)
  <2>1. days + 1 = k * 146097 + DayOf(c, q, y, r + 1)
    BY <1>1, <1>2, <1>3, <1>6 DEF YearGoesOn
  <2>2. Civil(days + 1) = Date(years, r + 1)
    BY <1>6, <2>1, CivilOf DEF YearGoesOn, years
  <2>3. r = 364 => Leap(years + 2001)
    BY <1>3, <1>5, <1>6 DEF YearGoesOn, Place
  <2> QED
    BY <1>3, <1>4, <1>6, <2>2, <2>3, WithinYear DEF YearGoesOn
<1>7. CASE YearEnds(k, c, q, y, r)
  <2>1. Civil(days + 1) = Date(years + 1, 0)
    BY <1>1, <1>2, <1>7 DEF YearEnds, years
  <2> QED
    BY <1>3, <1>4, <1>5, <1>7, <2>1, NewYear DEF YearEnds
<1> QED
  BY <1>2, <1>6, <1>7, NextPlace

\* The Unix epoch.
LEMMA Epoch ==
  Civil(-LeapochDays) = [year |-> 1970, month |-> 1, day |-> 1]
<1>1. Place(3, 17, 1, 306) /\ DayOf(3, 17, 1, 306) = 135080
  BY DEF Place, DayOf
<1>2. -LeapochDays = (-1) * 146097 + DayOf(3, 17, 1, 306)
  BY <1>1 DEF LeapochDays
<1>3. PICK k \in Int : k = -1
  OBVIOUS
<1>4. Civil(k * 146097 + DayOf(3, 17, 1, 306)) = Date(1 + 4 * 17 + 100 * 3 + 400 * k, 306)
  BY <1>1, CivilOf
<1>5. PICK years \in Int : years = -31
  OBVIOUS
<1>6. In(10, 306) /\ 306 \in Nat /\ 10 \in 0 .. 11 /\ DaysBefore[10 + 1] = 306
  BY DEF In, DaysBefore
<1>7. Date(years, 306) = Ymd(YearOf(years, 10), MonthOf(10), 306 - DaysBefore[10 + 1] + 1)
  BY <1>6, DateIn
<1>8. YearOf(years, 10) = 1970 /\ MonthOf(10) = 1 /\ 306 - DaysBefore[10 + 1] + 1 = 1
  BY <1>5, <1>6 DEF YearOf, MonthOf
<1>9. Civil(-LeapochDays) = Date(years, 306)
  BY <1>2, <1>3, <1>4, <1>5
<1> QED
  BY <1>7, <1>8, <1>9 DEF Ymd

\* DateTime::from follows the Gregorian calendar from 1970-01-01 on and before it,
\* however far: CalendarFollowed holds for every number of days.
THEOREM CalendarAlways ==
  ASSUME NEW days \in Int
  PROVE  CalendarFollowed(days)
BY NextDayCivil, Epoch DEF CalendarFollowed

\* The day and the second of the day that DateTime::from computes, with Rust's
\* truncating division, are those of the time, before and after the epoch.
THEOREM DayAndSecond ==
  ASSUME NEW t \in Int
  PROVE  /\ SplitDay(t).days \in Int /\ SplitDay(t).remsecs \in Nat
         /\ SplitDay(t).remsecs < 86400
         /\ (SplitDay(t).days + LeapochDays) * 86400 + SplitDay(t).remsecs = t
<1> DEFINE d == SplitDay(t).days
           s == SplitDay(t).remsecs
<1>1. CASE t >= 0
  <2>1. /\ t \div 86400 \in Int /\ 86400 * (t \div 86400) <= t
        /\ t < 86400 * (t \div 86400) + 86400
    OBVIOUS
  <2>2. Quot(t, 86400) = t \div 86400 /\ Rem(t, 86400) = t - 86400 * (t \div 86400)
    BY <1>1 DEF Quot, Rem
  <2>3. d = (t \div 86400) - LeapochDays /\ s = t - 86400 * (t \div 86400)
    BY <2>1, <2>2 DEF SplitDay
  <2> QED
    BY <2>1, <2>3 DEF LeapochDays
<1>2. CASE t < 0
  <2>1. PICK u \in Nat : u = -t
    BY <1>2
  <2>2. /\ u \div 86400 \in Int /\ 86400 * (u \div 86400) <= u
        /\ u < 86400 * (u \div 86400) + 86400
    OBVIOUS
  <2>3. PICK v \in Int : v = u \div 86400
    BY <2>2
  <2>4. Quot(t, 86400) = -v /\ Rem(t, 86400) = t + 86400 * v
    BY <1>2, <2>1, <2>3 DEF Quot, Rem
  <2>5. IF t + 86400 * v < 0 THEN d = -v - LeapochDays - 1 /\ s = t + 86400 * v + 86400
        ELSE d = -v - LeapochDays /\ s = t + 86400 * v
    BY <2>4 DEF SplitDay
  <2> QED
    BY <2>1, <2>2, <2>3, <2>5 DEF LeapochDays
<1> QED
  BY <1>1, <1>2
=============================================================================
