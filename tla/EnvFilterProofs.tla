--------------------------- MODULE EnvFilterProofs ---------------------------
(***************************************************************************)
(* Proofs about EnvFilter, for any directives, callsites, values, threads  *)
(* and span ids: what it enables is what the directives it was given say   *)
(* (DecisionsExact), a thread's scope has one level for each span it is in *)
(* that the filter cares about (ScopeBalanced), and the interests that     *)
(* callsites cache agree with enabled (InterestAgrees).                    *)
(*                                                                         *)
(* The argument: the two orders of directives are total on what a table    *)
(* tells apart, so that binary_search keeps a table sorted and without     *)
(* equals; a table therefore has the latest of each kind of directive that *)
(* was filed in it (Tables), and the first that cares is the most          *)
(* specific.  The matcher of a span is what the values recorded so far     *)
(* make of those directives (SpanInv).  A scope has the levels of the      *)
(* spans its thread is in, in their order while the thread exits them last *)
(* in, first out, and as many of them in any case (ThreadInv).             *)
(***************************************************************************)
EXTENDS EnvFilter, TLAPS, FiniteSetTheorems

-----------------------------------------------------------------------------
(* Sets of numbers                                                         *)

\* A set of naturals has a least member.
LEMMA Least ==
  ASSUME NEW S \in SUBSET Nat, S # {}
  PROVE  \E n \in S : \A k \in S : n <= k
<1>1. IsWellFoundedOn(OpToRel(<, Nat), Nat)
  BY Zenon, NatLessThanWellFounded
<1>2. PICK n \in S : \A k \in S : ~(<<k, n>> \in OpToRel(<, Nat))
  BY <1>1, WFMin, Zenon
<1>3. \A k \in S : ~(k < n)
  BY <1>2, Zenon DEF OpToRel
<1>4. QED
  BY <1>3, SMT

\* A bounded one has a greatest, which is what Highest chooses.
LEMMA HighestIn ==
  ASSUME NEW n \in Nat, NEW S \in SUBSET (0 .. n), S # {}
  PROVE  Highest(S) \in S /\ \A k \in S : k <= Highest(S)
<1> DEFINE T == {n - k : k \in S}
<1>0. \A k \in S : n - k \in Nat
  BY SMT
<1>1. T \in SUBSET Nat /\ T # {}
  BY <1>0, Zenon
<1>2. PICK m \in T : \A k \in T : m <= k
  <2> HIDE DEF T
  <2> QED
    BY <1>1, Least, Zenon
<1>3. PICK x \in S : m = n - x
  BY <1>2, Zenon
<1>4. \A y \in S : x >= y
  BY <1>2, <1>3, SMT
<1>5. Highest(S) \in S /\ \A y \in S : Highest(S) >= y
  BY <1>4, Zenon DEF Highest
<1>6. QED
  BY <1>5, SMT

\* A set of places with all the places before each is the places up to its size.
LEMMA InitialSegment ==
  ASSUME NEW n \in Nat, NEW S \in SUBSET (1 .. n),
         \A i \in S : \A j \in 1 .. i : j \in S
  PROVE  Cardinality(S) \in 0 .. n /\ S = 1 .. Cardinality(S)
<1>1. CASE S = {}
  <2>1. Cardinality(S) = 0
    BY <1>1, FS_EmptySet, Zenon
  <2>2. QED
    BY <1>1, <2>1, SMT
<1>2. CASE S # {}
  <2>1. S \in SUBSET (0 .. n)
    BY SMT
  <2>2. Highest(S) \in S /\ \A k \in S : k <= Highest(S)
    BY <1>2, <2>1, HighestIn, Zenon
  <2> DEFINE m == Highest(S)
  <2>3. m \in 1 .. n /\ m \in S /\ \A k \in S : k <= m
    BY <2>2, Zenon
  <2> HIDE DEF m
  <2>4. S = 1 .. m
    <3>1. \A k \in S : k \in 1 .. m
      BY <2>3, SMT
    <3>2. QED
      BY <2>3, <3>1, Zenon
  <2>5. Cardinality(1 .. m) = m
    BY <2>3, FS_Interval, SMT
  <2>6. QED
    BY <2>3, <2>4, <2>5, SMT
<1>3. QED
  BY <1>1, <1>2, Zenon

-----------------------------------------------------------------------------
(* The order of directives                                                 *)

\* Where two differ, there is a first place.
Differ(a, b, n) == \E i \in 1 .. n : a[i] # b[i]
DifferFirst(a, b, i) == a[i] # b[i] /\ \A j \in 1 .. i - 1 : a[j] = b[j]

LEMMA FirstDifference ==
  ASSUME NEW n \in Nat, NEW a, NEW b, Differ(a, b, n)
  PROVE  \E i \in 1 .. n : DifferFirst(a, b, i)
<1> DEFINE S == {i \in 1 .. n : a[i] # b[i]}
<1>1. S \in SUBSET Nat /\ S # {}
  BY SMT DEF Differ
<1>2. PICK i \in S : \A k \in S : i <= k
  <2> HIDE DEF S
  <2> QED
    BY <1>1, Least, Zenon
<1>3. \A j \in 1 .. i - 1 : j \in 1 .. n /\ ~(i <= j)
  BY <1>2, SMT
<1>4. QED
  BY <1>2, <1>3, Zenon DEF DifferFirst

Texts == Seq(Int)

\* Ord for str is irreflexive, ...
LEMMA TextIrreflexive ==
  ASSUME NEW a \in Texts
  PROVE  ~TextLess(a, a)
BY SMT DEF TextLess, Texts

\* ... transitive ...
LEMMA TextTransitive ==
  ASSUME NEW a \in Texts, NEW b \in Texts, NEW c \in Texts, TextLess(a, b), TextLess(b, c)
  PROVE  TextLess(a, c)
<1>1. PICK i \in DOMAIN b : /\ i = Len(a) + 1 \/ (i \in DOMAIN a /\ a[i] < b[i])
                            /\ \A j \in 1 .. i - 1 : a[j] = b[j]
  BY Zenon DEF TextLess
<1>2. PICK k \in DOMAIN c : /\ k = Len(b) + 1 \/ (k \in DOMAIN b /\ b[k] < c[k])
                            /\ \A j \in 1 .. k - 1 : b[j] = c[j]
  BY Zenon DEF TextLess
<1> SUFFICES \E l \in DOMAIN c : /\ l = Len(a) + 1 \/ (l \in DOMAIN a /\ a[l] < c[l])
                                 /\ \A j \in 1 .. l - 1 : a[j] = c[j]
  BY Zenon DEF TextLess
<1>0. /\ DOMAIN a = 1 .. Len(a) /\ DOMAIN b = 1 .. Len(b) /\ DOMAIN c = 1 .. Len(c)
      /\ Len(a) \in Nat /\ Len(b) \in Nat /\ Len(c) \in Nat
      /\ \A j \in DOMAIN a : a[j] \in Int
      /\ \A j \in DOMAIN b : b[j] \in Int
      /\ \A j \in DOMAIN c : c[j] \in Int
  BY SMT DEF Texts
<1>3. CASE i < k
  <2>1. i \in DOMAIN c /\ i \in 1 .. k - 1 /\ \A j \in 1 .. i - 1 : j \in 1 .. k - 1
    BY <1>0, <1>1, <1>2, <1>3, SMT
  <2>2. b[i] = c[i] /\ \A j \in 1 .. i - 1 : a[j] = c[j]
    BY <1>1, <1>2, <2>1, Zenon
  <2>3. QED
    BY <1>1, <2>1, <2>2, Zenon
<1>4. CASE k <= i
  <2>1. k \in DOMAIN b /\ k # Len(b) + 1 /\ \A j \in 1 .. k - 1 : j \in 1 .. i - 1
    BY <1>0, <1>1, <1>2, <1>4, SMT
  <2>2. b[k] < c[k] /\ \A j \in 1 .. k - 1 : a[j] = c[j]
    BY <1>1, <1>2, <2>1, Zenon
  <2>3. k < i => k \in DOMAIN a /\ k \in 1 .. i - 1
    BY <1>0, <1>1, <1>2, SMT
  <2>4. k < i => k \in DOMAIN a /\ a[k] = b[k]
    BY <1>1, <2>3, Zenon
  <2>5. CASE k < i
    BY <2>2, <2>4, <2>5, Zenon
  <2>6. CASE k = i
    <3>1. k \in DOMAIN a /\ a[k] < b[k] => a[k] < c[k]
      BY <1>0, <1>2, <2>1, <2>2, SMT
    <3>2. QED
      BY <1>1, <2>2, <2>6, <3>1, Zenon
  <2>7. QED
    BY <1>0, <1>1, <1>2, <1>4, <2>5, <2>6, SMT
<1>5. QED
  BY <1>0, <1>1, <1>2, <1>3, <1>4, SMT

\* ... and total.
LEMMA TextTotal ==
  ASSUME NEW a \in Texts, NEW b \in Texts, a # b
  PROVE  TextLess(a, b) \/ TextLess(b, a)
<1> DEFINE n == IF Len(a) <= Len(b) THEN Len(a) ELSE Len(b)
<1>1. n \in Nat /\ n <= Len(a) /\ n <= Len(b) /\ (n = Len(a) \/ n = Len(b))
  BY SMT DEF Texts
<1> HIDE DEF n
<1>2. CASE Differ(a, b, n)
  <2>1. PICK i \in 1 .. n : DifferFirst(a, b, i)
    BY <1>1, <1>2, FirstDifference, Zenon
  <2>2. i \in DOMAIN a /\ i \in DOMAIN b /\ (a[i] < b[i] \/ b[i] < a[i])
    BY <1>1, <2>1, SMT DEF Texts, DifferFirst
  <2>3. QED
    BY <2>1, <2>2, Zenon DEF TextLess, DifferFirst
<1>3. CASE \A i \in 1 .. n : a[i] = b[i]
  <2>1. Len(a) # Len(b)
    BY <1>1, <1>3, SMT DEF Texts
  <2>2. CASE n = Len(a)
    <3>1. n + 1 \in DOMAIN b /\ \A j \in 1 .. (n + 1) - 1 : a[j] = b[j]
      BY <1>1, <1>3, <2>1, <2>2, SMT DEF Texts
    <3>2. QED
      BY <2>2, <3>1, Zenon DEF TextLess
  <2>3. CASE n = Len(b)
    <3>1. n + 1 \in DOMAIN a /\ \A j \in 1 .. (n + 1) - 1 : b[j] = a[j]
      BY <1>1, <1>3, <2>1, <2>3, SMT DEF Texts
    <3>2. QED
      BY <2>3, <3>1, Zenon DEF TextLess
  <2>4. QED
    BY <1>1, <2>2, <2>3, Zenon
<1>4. QED
  BY <1>2, <1>3, Zenon DEF Differ

Keys == Seq(Texts)

\* So is the order of keys, where keys that begin alike have a length.
LEMMA KeyIrreflexive ==
  ASSUME NEW a \in Keys
  PROVE  ~KeyLess(a, a)
<1>1. \A i \in DOMAIN a : a[i] \in Texts
  BY SMT DEF Keys
<1>2. QED
  BY <1>1, TextIrreflexive, Zenon DEF KeyLess

LEMMA KeyTransitive ==
  ASSUME NEW a \in Keys, NEW b \in Keys, NEW c \in Keys, KeyLess(a, b), KeyLess(b, c)
  PROVE  KeyLess(a, c)
<1>1. PICK i \in DOMAIN a \cap DOMAIN b :
        TextLess(a[i], b[i]) /\ \A j \in 1 .. i - 1 : a[j] = b[j]
  BY Zenon DEF KeyLess
<1>2. PICK k \in DOMAIN b \cap DOMAIN c :
        TextLess(b[k], c[k]) /\ \A j \in 1 .. k - 1 : b[j] = c[j]
  BY Zenon DEF KeyLess
<1>3. /\ i \in 1 .. Len(a) /\ i \in 1 .. Len(b) /\ k \in 1 .. Len(b) /\ k \in 1 .. Len(c)
      /\ Len(a) \in Nat /\ Len(b) \in Nat /\ Len(c) \in Nat
      /\ DOMAIN a = 1 .. Len(a) /\ DOMAIN c = 1 .. Len(c)
      /\ a[i] \in Texts /\ b[i] \in Texts /\ b[k] \in Texts /\ c[k] \in Texts
  BY SMT DEF Keys
<1>4. CASE i < k
  <2>1. i \in DOMAIN a \cap DOMAIN c /\ b[i] = c[i] /\ \A j \in 1 .. i - 1 : a[j] = c[j]
    BY <1>1, <1>2, <1>3, <1>4, SMT
  <2>2. QED
    BY <1>1, <2>1, Zenon DEF KeyLess
<1>5. CASE k < i
  <2>1. k \in DOMAIN a \cap DOMAIN c /\ a[k] = b[k] /\ \A j \in 1 .. k - 1 : a[j] = c[j]
    BY <1>1, <1>2, <1>3, <1>5, SMT
  <2>2. QED
    BY <1>2, <2>1, Zenon DEF KeyLess
<1>6. CASE i = k
  <2>1. i \in DOMAIN a \cap DOMAIN c /\ \A j \in 1 .. i - 1 : a[j] = c[j]
    BY <1>1, <1>2, <1>3, <1>6, SMT
  <2>2. TextLess(a[i], c[i])
    BY <1>1, <1>2, <1>3, <1>6, TextTransitive, Zenon
  <2>3. QED
    BY <2>1, <2>2, Zenon DEF KeyLess
<1>7. QED
  BY <1>3, <1>4, <1>5, <1>6, SMT

LEMMA KeyTotal ==
  ASSUME NEW a \in Keys, NEW b \in Keys, a # b, Len(a) > 0, Len(b) > 0,
         a[1] = b[1] => Len(a) = Len(b)
  PROVE  KeyLess(a, b) \/ KeyLess(b, a)
<1> DEFINE n == IF Len(a) <= Len(b) THEN Len(a) ELSE Len(b)
<1>1. /\ n \in Nat /\ n > 0 /\ 1 .. n \subseteq DOMAIN a /\ 1 .. n \subseteq DOMAIN b
      /\ Len(a) = Len(b) => n = Len(a)
  BY SMT DEF Keys
<1> HIDE DEF n
<1>2. Differ(a, b, n)
  <2>1. CASE a[1] = b[1]
    BY <1>1, <2>1, SMT DEF Keys, Differ
  <2>2. CASE a[1] # b[1]
    BY <1>1, <2>2, SMT DEF Differ
  <2>3. QED
    BY <2>1, <2>2, Zenon
<1>3. PICK i \in 1 .. n : DifferFirst(a, b, i)
  BY <1>1, <1>2, FirstDifference, Zenon
<1>4. i \in DOMAIN a \cap DOMAIN b /\ \A j \in 1 .. i - 1 : b[j] = a[j]
  BY <1>1, <1>3, Zenon DEF DifferFirst
<1>5. a[i] \in Texts /\ b[i] \in Texts
  BY <1>4, SMT DEF Keys
<1>6. TextLess(a[i], b[i]) \/ TextLess(b[i], a[i])
  BY <1>3, <1>5, TextTotal, Zenon DEF DifferFirst
<1>7. QED
  BY <1>3, <1>4, <1>6, Zenon DEF KeyLess, DifferFirst

Joins(T, p, q, r) ==
  /\ r \in Seq(T) /\ Len(r) = Len(p) + Len(q)
  /\ \A i \in 1 .. Len(p) : r[i] = p[i]
  /\ \A i \in 1 .. Len(q) : r[Len(p) + i] = q[i]

LEMMA Joined ==
  ASSUME NEW T, NEW p \in Seq(T), NEW q \in Seq(T)
  PROVE  Joins(T, p, q, p \o q)
BY SMT DEF Joins

\* The keys of directives are such.
LEMMA StaticKeyType ==
  ASSUME NEW d, IsDirective(d)
  PROVE  /\ StaticKey(d) \in Keys /\ Len(StaticKey(d)) = 2 + Len(d.fields)
         /\ StaticKey(d)[1] = <<TargetLen(d), Len(d.fields)>>
         /\ StaticKey(d)[2] = TargetText(d)
         /\ \A i \in DOMAIN d.fields : StaticKey(d)[2 + i] = d.fields[i].name
<1> DEFINE p == <<<<TargetLen(d), Len(d.fields)>>, TargetText(d)>>
           q == [i \in DOMAIN d.fields |-> d.fields[i].name]
<1>1. Len(d.fields) \in Nat /\ DOMAIN d.fields = 1 .. Len(d.fields)
  BY SMT DEF IsDirective
<1>2. TargetLen(d) \in Int /\ TargetText(d) \in Texts
  BY SMT DEF IsDirective, TargetLen, TargetText, Texts
<1>3. p \in Keys /\ Len(p) = 2
  BY <1>1, <1>2, SMT DEF Keys, Texts
<1>4. \A i \in DOMAIN d.fields : d.fields[i].name \in Texts
  BY SMT DEF IsDirective, Texts
<1>5. q \in Keys /\ Len(q) = Len(d.fields)
  BY <1>1, <1>4, SMT DEF Keys
<1>6. StaticKey(d) = p \o q
  BY Zenon DEF StaticKey
<1>7. p[1] = <<TargetLen(d), Len(d.fields)>> /\ p[2] = TargetText(d)
  BY SMT
<1>8. \A i \in 1 .. Len(d.fields) : q[i] = d.fields[i].name
  BY <1>1, SMT
<1> HIDE DEF p, q
<1>9. Joins(Texts, p, q, StaticKey(d))
  BY <1>3, <1>5, <1>6, Joined, Zenon DEF Keys
<1>10. 1 \in 1 .. 2 /\ 2 \in 1 .. 2
  BY SMT
<1>11. QED
  BY <1>1, <1>3, <1>5, <1>7, <1>8, <1>9, <1>10, Zenon DEF Keys, Joins

LEMMA FieldKeyType ==
  ASSUME NEW f, f.name \in Seq(Nat), HasValue(f) => f.value.rank \in Nat
  PROVE  FieldKey(f) \in Texts /\ FieldKey(f)[1] = IF HasValue(f) THEN 1 ELSE 0
<1>1. f.name \in Texts
  BY SMT DEF Texts
<1>2. CASE HasValue(f)
  <2>1. <<1>> \in Texts /\ <<-1, f.value.rank>> \in Texts /\ Len(<<1>>) = 1 /\ <<1>>[1] = 1
    BY <1>2, SMT DEF Texts
  <2>2. Joins(Int, <<1>>, f.name, <<1>> \o f.name)
    BY <1>1, <2>1, Joined, Zenon DEF Texts
  <2>3. FieldKey(f) = (<<1>> \o f.name) \o <<-1, f.value.rank>>
    BY <1>2, Zenon DEF FieldKey
  <2>4. /\ <<1>> \o f.name \in Texts /\ (<<1>> \o f.name)[1] = 1
        /\ 1 \in 1 .. Len(<<1>> \o f.name)
    BY <1>1, <2>1, <2>2, SMT DEF Texts, Joins
  <2>5. Joins(Int, <<1>> \o f.name, <<-1, f.value.rank>>, FieldKey(f))
    BY <2>1, <2>3, <2>4, Joined, Zenon DEF Texts
  <2>6. QED
    BY <1>2, <2>4, <2>5, Zenon DEF Texts, Joins
<1>3. CASE ~HasValue(f)
  <2>1. <<0>> \in Texts /\ <<-1, 0>> \in Texts /\ Len(<<0>>) = 1 /\ <<0>>[1] = 0
    BY SMT DEF Texts
  <2>2. Joins(Int, <<0>>, f.name, <<0>> \o f.name)
    BY <1>1, <2>1, Joined, Zenon DEF Texts
  <2>3. FieldKey(f) = (<<0>> \o f.name) \o <<-1, 0>>
    BY <1>3, Zenon DEF FieldKey
  <2>4. /\ <<0>> \o f.name \in Texts /\ (<<0>> \o f.name)[1] = 0
        /\ 1 \in 1 .. Len(<<0>> \o f.name)
    BY <1>1, <2>1, <2>2, SMT DEF Texts, Joins
  <2>5. Joins(Int, <<0>> \o f.name, <<-1, 0>>, FieldKey(f))
    BY <2>1, <2>3, <2>4, Joined, Zenon DEF Texts
  <2>6. QED
    BY <1>3, <2>4, <2>5, Zenon DEF Texts, Joins
<1>4. QED
  BY <1>2, <1>3, Zenon

LEMMA DynamicKeyType ==
  ASSUME NEW d, IsDirective(d)
  PROVE  /\ DynamicKey(d) \in Keys /\ Len(DynamicKey(d)) = 3 + Len(d.fields)
         /\ DynamicKey(d)[1] = <<TargetLen(d), IF HasName(d) THEN 1 ELSE 0, Len(d.fields)>>
         /\ \A i \in DOMAIN d.fields : DynamicKey(d)[3 + i] = FieldKey(d.fields[i])
<1> DEFINE one == IF HasName(d) THEN 1 ELSE 0
           name == IF HasName(d) THEN d.span ELSE <<>>
           p == <<<<TargetLen(d), one, Len(d.fields)>>, TargetText(d), name>>
           q == [i \in DOMAIN d.fields |-> FieldKey(d.fields[i])]
<1>1. Len(d.fields) \in Nat /\ DOMAIN d.fields = 1 .. Len(d.fields)
  BY SMT DEF IsDirective
<1>2. TargetLen(d) \in Int /\ TargetText(d) \in Texts
  BY SMT DEF IsDirective, TargetLen, TargetText, Texts
<1>3. one \in Int /\ name \in Texts
  BY SMT DEF IsDirective, HasName, Texts
<1>4. DynamicKey(d) = p \o q
  BY Zenon DEF DynamicKey
<1>5. \A i \in DOMAIN d.fields : FieldKey(d.fields[i]) \in Texts
  BY FieldKeyType, Zenon DEF IsDirective
<1> HIDE DEF one, name
<1>6. p \in Keys /\ Len(p) = 3 /\ p[1] = <<TargetLen(d), one, Len(d.fields)>>
  BY <1>1, <1>2, <1>3, SMT DEF Keys, Texts
<1>7. q \in Keys /\ Len(q) = Len(d.fields)
  BY <1>1, <1>5, SMT DEF Keys
<1>8. \A i \in 1 .. Len(d.fields) : q[i] = FieldKey(d.fields[i])
  BY <1>1, SMT
<1> HIDE DEF p, q
<1>9. Joins(Texts, p, q, DynamicKey(d)) /\ 1 \in 1 .. 3
  BY <1>4, <1>6, <1>7, Joined, SMT DEF Keys
<1>10. /\ DynamicKey(d) \in Keys /\ Len(DynamicKey(d)) = 3 + Len(d.fields)
       /\ DynamicKey(d)[1] = <<TargetLen(d), one, Len(d.fields)>>
       /\ \A i \in DOMAIN d.fields : DynamicKey(d)[3 + i] = FieldKey(d.fields[i])
  BY <1>1, <1>6, <1>7, <1>8, <1>9, Zenon DEF Keys, Joins
<1>11. QED
  BY <1>10, Zenon DEF one

\* Directives that a table cannot tell apart, and those that come after.
Same(table, d, e) == KeyIn(table, d) = KeyIn(table, e)
Before(table, d, e) == KeyLess(KeyIn(table, e), KeyIn(table, d))

LEMMA KeyInType ==
  ASSUME NEW table, NEW d, IsDirective(d), NEW e, IsDirective(e)
  PROVE  /\ KeyIn(table, d) \in Keys /\ Len(KeyIn(table, d)) > 0
         /\ KeyIn(table, d)[1] = KeyIn(table, e)[1]
              => Len(KeyIn(table, d)) = Len(KeyIn(table, e))
<1>0. Len(d.fields) \in Nat /\ Len(e.fields) \in Nat
  BY SMT DEF IsDirective
<1>1. CASE table = "static"
  <2>1. KeyIn(table, d) = StaticKey(d) /\ KeyIn(table, e) = StaticKey(e)
    BY <1>1, Zenon DEF KeyIn
  <2>2. StaticKey(d)[1] = StaticKey(e)[1] => Len(d.fields) = Len(e.fields)
    BY StaticKeyType, SMT
  <2>3. QED
    BY <1>0, <2>1, <2>2, StaticKeyType, SMT
<1>2. CASE table # "static"
  <2>1. KeyIn(table, d) = DynamicKey(d) /\ KeyIn(table, e) = DynamicKey(e)
    BY <1>2, Zenon DEF KeyIn
  <2>2. DynamicKey(d)[1] = DynamicKey(e)[1] => Len(d.fields) = Len(e.fields)
    BY DynamicKeyType, SMT
  <2>3. QED
    BY <1>0, <2>1, <2>2, DynamicKeyType, SMT
<1>3. QED
  BY <1>1, <1>2, Zenon

\* Of two directives that a table tells apart exactly one comes before the other.
LEMMA DirectiveOrder ==
  ASSUME NEW table, NEW D, \A d \in D : IsDirective(d)
  PROVE  /\ \A d, e \in D : ~(Same(table, d, e) /\ Before(table, d, e))
         /\ \A d, e \in D : Same(table, d, e) \/ Before(table, d, e) \/ Before(table, e, d)
         /\ \A d, e, f \in D : Before(table, d, e) /\ Before(table, e, f)
                                 => Before(table, d, f)
<1>1. \A d, e \in D : /\ KeyIn(table, d) \in Keys /\ Len(KeyIn(table, d)) > 0
                      /\ KeyIn(table, d)[1] = KeyIn(table, e)[1]
                           => Len(KeyIn(table, d)) = Len(KeyIn(table, e))
  BY KeyInType, Zenon
<1>2. \A d, e \in D : ~(Same(table, d, e) /\ Before(table, d, e))
  BY <1>1, KeyIrreflexive, Zenon DEF Same, Before
<1>3. \A d, e \in D : Same(table, d, e) \/ Before(table, d, e) \/ Before(table, e, d)
  BY <1>1, KeyTotal, Zenon DEF Same, Before
<1>4. \A d, e, f \in D : Before(table, d, e) /\ Before(table, e, f) => Before(table, d, f)
  BY <1>1, KeyTransitive, Zenon DEF Before
<1>5. QED
  BY <1>2, <1>3, <1>4, Zenon

-----------------------------------------------------------------------------
(* DirectiveSet::add                                                       *)

Members(seq) == {seq[i] : i \in DOMAIN seq}

\* The most specific first, and none twice.
Sorted(table, seq) == \A i, j \in DOMAIN seq : i < j => Before(table, seq[i], seq[j])

\* binary_search finds the place of a directive.
LEMMA Placed ==
  ASSUME NEW table, NEW D, \A e \in D : IsDirective(e),
         NEW seq \in Seq(D), NEW d \in D, Sorted(table, seq)
  PROVE  /\ Place(table, seq, d) \in 1 .. Len(seq) + 1
         /\ \A i \in DOMAIN seq : i < Place(table, seq, d) <=> Before(table, seq[i], d)
<1> DEFINE S == {i \in DOMAIN seq : KeyLess(KeyIn(table, d), KeyIn(table, seq[i]))}
<1>1. \A i \in DOMAIN seq : seq[i] \in D /\ (i \in S <=> Before(table, seq[i], d))
  BY SMT DEF Before
<1>2. DOMAIN seq = 1 .. Len(seq) /\ Len(seq) \in Nat
  BY SMT
<1>3. S \in SUBSET (1 .. Len(seq))
  BY <1>2, Zenon
<1>4. Place(table, seq, d) = 1 + Cardinality(S)
  BY Zenon DEF Place
<1> HIDE DEF S
<1>5. ASSUME NEW i \in S, NEW j \in 1 .. i
      PROVE  j \in S
  <2>1. i \in DOMAIN seq /\ j \in DOMAIN seq /\ (j = i \/ j < i)
    BY <1>2, <1>3, SMT
  <2>2. j < i => Before(table, seq[j], seq[i])
    BY <2>1, Zenon DEF Sorted
  <2>3. j < i => Before(table, seq[j], d)
    BY <1>1, <2>1, <2>2, DirectiveOrder, Zenon
  <2>4. QED
    BY <1>1, <2>1, <2>3, Zenon
<1>6. Cardinality(S) \in 0 .. Len(seq) /\ S = 1 .. Cardinality(S)
  BY <1>2, <1>3, <1>5, InitialSegment, Zenon
<1>7. \A i \in DOMAIN seq : i < 1 + Cardinality(S) <=> i \in S
  BY <1>2, <1>6, SMT
<1>8. 1 + Cardinality(S) \in 1 .. Len(seq) + 1
  BY <1>2, <1>6, SMT
<1>9. QED
  BY <1>1, <1>4, <1>7, <1>8, Zenon

\* A directive that is put between two parts of a sequence.
Between(D, seq, d, p, q) ==
  /\ q \in Seq(D) /\ Len(q) = Len(seq) + 1 /\ q[p] = d
  /\ \A i \in 1 .. p - 1 : q[i] = seq[i]
  /\ \A i \in p + 1 .. Len(seq) + 1 : q[i] = seq[i - 1]

LEMMA PutBetween ==
  ASSUME NEW D, NEW seq \in Seq(D), NEW d \in D, NEW p \in 1 .. Len(seq) + 1
  PROVE  Between(D, seq, d, p, SubSeq(seq, 1, p - 1) \o <<d>> \o SubSeq(seq, p, Len(seq)))
<1> DEFINE a == SubSeq(seq, 1, p - 1)
           b == SubSeq(seq, p, Len(seq))
           c == a \o <<d>>
           q == c \o b
<1>0. Len(seq) \in Nat /\ p \in Nat
  BY SMT
<1>1. a \in Seq(D) /\ Len(a) = p - 1 /\ \A i \in 1 .. p - 1 : a[i] = seq[i]
  BY SMT
<1>2. b \in Seq(D) /\ Len(b) = Len(seq) + 1 - p /\ \A i \in 1 .. Len(b) : b[i] = seq[p + i - 1]
  BY SMT
<1>3. <<d>> \in Seq(D) /\ Len(<<d>>) = 1 /\ <<d>>[1] = d
  BY SMT
<1>4. q = SubSeq(seq, 1, p - 1) \o <<d>> \o SubSeq(seq, p, Len(seq))
  BY Zenon
<1> HIDE DEF a, b, c, q
<1>5. Joins(D, a, <<d>>, c)
  BY <1>1, <1>3, Joined, Zenon DEF c
<1>6. /\ c \in Seq(D) /\ Len(c) = p /\ c[p] = d
  BY <1>0, <1>1, <1>3, <1>5, SMT DEF Joins
<1>7. \A i \in 1 .. p - 1 : c[i] = seq[i]
  BY <1>1, <1>5, Zenon DEF Joins
<1>8. Joins(D, c, b, q)
  BY <1>2, <1>6, Joined, Zenon DEF q
<1>9. q \in Seq(D) /\ Len(q) = Len(seq) + 1
  BY <1>0, <1>2, <1>6, <1>8, SMT DEF Joins
<1>10. (\A i \in 1 .. p - 1 : i \in 1 .. p) /\ p \in 1 .. p
  BY <1>0, SMT
<1>11. q[p] = d /\ \A i \in 1 .. p - 1 : q[i] = seq[i]
  BY <1>6, <1>7, <1>8, <1>10, Zenon DEF Joins
<1>12. ASSUME NEW i \in p + 1 .. Len(seq) + 1
       PROVE  q[i] = seq[i - 1]
  <2>1. i - p \in 1 .. Len(b) /\ p + (i - p) = i /\ p + (i - p) - 1 = i - 1
    BY <1>0, <1>2, SMT
  <2>2. q[p + (i - p)] = b[i - p] /\ b[i - p] = seq[p + (i - p) - 1]
    BY <1>2, <1>6, <1>8, <2>1, Zenon DEF Joins
  <2>3. QED
    BY <2>1, <2>2, Zenon
<1>13. QED
  BY <1>4, <1>9, <1>11, <1>12, Zenon DEF Between

Inserted(table, seq, d, q) ==
  /\ q # <<>> /\ Sorted(table, q)
  /\ \A e : e \in Members(q) <=> e = d \/ (e \in Members(seq) /\ ~Same(table, e, d))

\* The directive replaces the one that the table cannot tell from it, or is put
\* where the order says; the others stay.
LEMMA InsertMeans ==
  ASSUME NEW table, NEW D, \A e \in D : IsDirective(e),
         NEW seq \in Seq(D), NEW d \in D, Sorted(table, seq)
  PROVE  Insert(table, seq, d) \in Seq(D) /\ Inserted(table, seq, d, Insert(table, seq, d))
<1> DEFINE p == Place(table, seq, d)
           q == Insert(table, seq, d)
<1>1. p \in 1 .. Len(seq) + 1 /\ \A i \in DOMAIN seq : i < p <=> Before(table, seq[i], d)
  BY Placed, Zenon
<1>2. /\ DOMAIN seq = 1 .. Len(seq) /\ Len(seq) \in Nat
      /\ \A i \in DOMAIN seq : seq[i] \in D
  BY SMT
<1>3. q = IF p \in DOMAIN seq /\ Same(table, seq[p], d)
          THEN [seq EXCEPT ![p] = d]
          ELSE SubSeq(seq, 1, p - 1) \o <<d>> \o SubSeq(seq, p, Len(seq))
  BY Zenon DEF Insert, Same
<1> HIDE DEF p, q
<1>4. CASE p \in DOMAIN seq /\ Same(table, seq[p], d)
  <2>1. q = [seq EXCEPT ![p] = d]
    BY <1>3, <1>4, Zenon
  <2>2. /\ q \in Seq(D) /\ DOMAIN q = DOMAIN seq /\ q[p] = d
        /\ \A i \in DOMAIN seq : i # p => q[i] = seq[i]
    BY <1>2, <1>4, <2>1, SMT
  <2>3. \A i \in DOMAIN seq : i # p => ~Same(table, seq[i], d)
    <3>1. SUFFICES ASSUME NEW i \in DOMAIN seq, i # p, Same(table, seq[i], d)
                   PROVE  FALSE
      BY Zenon
    <3>2. i < p \/ p < i
      BY <1>2, <1>4, <3>1, SMT
    <3>3. Before(table, seq[i], seq[p]) \/ Before(table, seq[p], seq[i])
      BY <1>4, <3>1, <3>2, Zenon DEF Sorted
    <3>4. Same(table, seq[i], seq[p]) /\ Same(table, seq[p], seq[i])
      BY <1>4, <3>1, Zenon DEF Same
    <3>5. QED
      BY <1>2, <1>4, <3>1, <3>3, <3>4, DirectiveOrder, Zenon
  <2>4. ASSUME NEW i \in DOMAIN q, NEW j \in DOMAIN q, i < j
        PROVE  Before(table, q[i], q[j])
    <3>1. Before(table, seq[i], seq[j])
      BY <2>2, <2>4, Zenon DEF Sorted
    <3>2. \A e \in D : /\ Before(table, seq[p], e) => Before(table, d, e)
                       /\ Before(table, e, seq[p]) => Before(table, e, d)
      BY <1>4, Zenon DEF Before, Same
    <3>3. i \in DOMAIN seq /\ j \in DOMAIN seq /\ i # j
      BY <1>2, <2>2, <2>4, SMT
    <3>4. QED
      BY <1>2, <2>2, <3>1, <3>2, <3>3, Zenon
  <2>5. q # <<>>
    BY <1>4, <2>2, SMT
  <2>6. \A e : e \in Members(q) <=> e = d \/ (e \in Members(seq) /\ ~Same(table, e, d))
    BY <1>4, <2>2, <2>3, Zenon DEF Members
  <2>7. QED
    BY <2>2, <2>4, <2>5, <2>6, Zenon DEF Inserted, Sorted, q
<1>5. CASE ~(p \in DOMAIN seq /\ Same(table, seq[p], d))
  <2>0. Between(D, seq, d, p, q)
    BY <1>1, <1>3, <1>5, PutBetween, Zenon
  <2>1. /\ q \in Seq(D) /\ Len(q) = Len(seq) + 1 /\ q[p] = d
        /\ \A i \in 1 .. p - 1 : q[i] = seq[i]
        /\ \A i \in p + 1 .. Len(seq) + 1 : q[i] = seq[i - 1]
    BY <2>0, Zenon DEF Between
  <2>2. ASSUME NEW i \in DOMAIN seq, ~(i < p)
        PROVE  Before(table, d, seq[i])
    <3>1. p \in DOMAIN seq /\ (i = p \/ p < i)
      BY <1>1, <1>2, <2>2, SMT
    <3>2. ~Before(table, seq[p], d)
      BY <1>1, <3>1, SMT
    <3>3. Before(table, d, seq[p])
      BY <1>2, <1>5, <3>1, <3>2, DirectiveOrder, Zenon
    <3>4. p < i => Before(table, seq[p], seq[i])
      BY <3>1, Zenon DEF Sorted
    <3>5. QED
      BY <1>2, <3>1, <3>3, <3>4, DirectiveOrder, Zenon
  <2>3. \A i \in DOMAIN seq : ~Same(table, seq[i], d)
    <3>1. SUFFICES ASSUME NEW i \in DOMAIN seq, Same(table, seq[i], d)
                   PROVE  FALSE
      BY Zenon
    <3>2. Before(table, seq[i], d) \/ Before(table, d, seq[i])
      BY <1>1, <2>2, Zenon
    <3>3. Same(table, d, seq[i])
      BY <3>1, Zenon DEF Same
    <3>4. QED
      BY <1>2, <3>1, <3>2, <3>3, DirectiveOrder, Zenon
  <2>4. DOMAIN q = 1 .. Len(seq) + 1 /\ p \in DOMAIN q /\ p \in Nat
    BY <1>1, <1>2, <2>1, SMT
  <2>5. /\ \A i \in DOMAIN q : i = p \/ (i < p /\ i \in DOMAIN seq /\ i \in 1 .. p - 1)
                               \/ (i > p /\ i - 1 \in DOMAIN seq /\ i \in p + 1 .. Len(seq) + 1)
        /\ \A i \in DOMAIN seq : \/ i \in DOMAIN q /\ i \in 1 .. p - 1
                                 \/ i + 1 \in DOMAIN q /\ i + 1 \in p + 1 .. Len(seq) + 1
                                    /\ (i + 1) - 1 = i
    BY <1>1, <1>2, <2>4, SMT
  <2>6. \A e : e \in Members(q) => e = d \/ e \in Members(seq)
    <3>1. ASSUME NEW i \in DOMAIN q PROVE q[i] = d \/ q[i] \in Members(seq)
      <4>1. CASE i = p
        BY <2>1, <4>1, Zenon
      <4>2. CASE i < p /\ i \in DOMAIN seq /\ i \in 1 .. p - 1
        BY <2>1, <4>2, Zenon DEF Members
      <4>3. CASE i > p /\ i - 1 \in DOMAIN seq /\ i \in p + 1 .. Len(seq) + 1
        BY <2>1, <4>3, Zenon DEF Members
      <4>4. QED
        BY <2>5, <4>1, <4>2, <4>3, Zenon
    <3>2. QED
      BY <3>1, Zenon DEF Members
  <2>7. d \in Members(q) /\ \A e : e \in Members(seq) => e \in Members(q)
    <3>1. d \in Members(q)
      BY <2>1, <2>4, Zenon DEF Members
    <3>2. ASSUME NEW i \in DOMAIN seq PROVE seq[i] \in Members(q)
      <4>1. CASE i \in DOMAIN q /\ i \in 1 .. p - 1
        BY <2>1, <4>1, Zenon DEF Members
      <4>2. CASE i + 1 \in DOMAIN q /\ i + 1 \in p + 1 .. Len(seq) + 1 /\ (i + 1) - 1 = i
        <5>1. q[i + 1] = seq[i]
          BY <2>1, <4>2, Zenon
        <5>2. QED
          BY <4>2, <5>1, Zenon DEF Members
      <4>3. QED
        BY <2>5, <4>1, <4>2, Zenon
    <3>3. QED
      BY <3>1, <3>2, Zenon DEF Members
  <2>8. ASSUME NEW i \in DOMAIN q, NEW j \in DOMAIN q, i < j
        PROVE  Before(table, q[i], q[j])
    <3>1. CASE i < p /\ j < p
      <4>1. i \in DOMAIN seq /\ j \in DOMAIN seq /\ q[i] = seq[i] /\ q[j] = seq[j]
        BY <2>1, <2>4, <2>5, <3>1, SMT
      <4>2. QED
        BY <2>8, <4>1, Zenon DEF Sorted
    <3>2. CASE i < p /\ j = p
      BY <1>1, <2>1, <2>5, <3>2, SMT
    <3>3. CASE i < p /\ j > p
      <4>1. /\ i \in DOMAIN seq /\ j - 1 \in DOMAIN seq /\ q[i] = seq[i] /\ q[j] = seq[j - 1]
            /\ i < j - 1
        BY <1>1, <1>2, <2>1, <2>4, <2>5, <3>3, SMT
      <4>2. QED
        BY <4>1, Zenon DEF Sorted
    <3>4. CASE i = p /\ j > p
      <4>1. j - 1 \in DOMAIN seq /\ q[j] = seq[j - 1] /\ ~(j - 1 < p)
        BY <1>1, <1>2, <2>1, <2>4, <2>5, <3>4, SMT
      <4>2. QED
        BY <2>1, <2>2, <3>4, <4>1, Zenon
    <3>5. CASE i > p /\ j > p
      <4>1. /\ i - 1 \in DOMAIN seq /\ j - 1 \in DOMAIN seq /\ q[i] = seq[i - 1]
            /\ q[j] = seq[j - 1] /\ i - 1 < j - 1
        BY <1>1, <1>2, <2>1, <2>4, <2>5, <2>8, <3>5, SMT
      <4>2. QED
        BY <4>1, Zenon DEF Sorted
    <3>6. QED
      BY <2>4, <2>8, <3>1, <3>2, <3>3, <3>4, <3>5, SMT
  <2>9. q # <<>>
    BY <1>2, <2>1, SMT
  <2>10. Members(seq) = {seq[i] : i \in DOMAIN seq}
    BY Zenon DEF Members
  <2>11. \A e : e \in Members(q) <=> e = d \/ (e \in Members(seq) /\ ~Same(table, e, d))
    BY <2>3, <2>6, <2>7, <2>10, Zenon
  <2>12. QED
    BY <2>1, <2>8, <2>9, <2>11, Zenon DEF Inserted, Sorted, q
<1>6. QED
  BY <1>4, <1>5, Zenon

-----------------------------------------------------------------------------
(* What the tables hold                                                    *)

\* The directives of g at the places F, but for the older ones of those that the
\* table cannot tell apart.
Holding(table, seq, g, F) ==
  \A e : e \in Members(seq) <=>
           \E i \in F : g[i] = e /\ \A j \in F : j > i => ~Same(table, g[j], g[i])

TableOK(table, set, g, F) ==
  /\ set \in [directives : Seq(Known), max : 0 .. Trace]
  /\ Sorted(table, set.directives)
  /\ \A e \in Members(set.directives) : e.level <= set.max
  /\ Holding(table, set.directives, g, F)

FilledTableOK(table, set, g, F) == TableOK(table, set, g, F) /\ set.directives # <<>>

\* The directives that from_directives is given are filed one by one.
Done(i) ==
  \/ stage = "built"
  \/ stage = "stats" /\ ~IsDynamic(given[i]) /\ i < at
  \/ stage = "dyns" /\ (IsDynamic(given[i]) => i < at)

FiledStatic == {i \in DOMAIN given : Done(i) /\ IsStatic(given[i])}
FiledDynamic == {i \in DOMAIN given : Done(i) /\ OnSpans(i)}

\* The members of a table that gets another.
LEMMA HoldingMore ==
  ASSUME NEW table, NEW seq, NEW g \in Seq(Known), NEW F \in SUBSET DOMAIN g,
         Holding(table, seq, g, F), NEW a \in DOMAIN g, a \notin F,
         \A j \in F : j > a => ~Same(table, g[j], g[a]),
         NEW q, Inserted(table, seq, g[a], q)
  PROVE  Holding(table, q, g, F \cup {a})
<1>0. /\ \A i \in F : i \in Nat /\ (i > a \/ a > i)
      /\ a \in Nat /\ ~(a > a)
  BY SMT
<1> SUFFICES ASSUME NEW e
             PROVE  e \in Members(q) <=>
                      \E i \in F \cup {a} :
                        g[i] = e /\ \A j \in F \cup {a} : j > i => ~Same(table, g[j], g[i])
  BY Zenon DEF Holding
<1>1. ASSUME e = g[a]
      PROVE  \E i \in F \cup {a} :
               g[i] = e /\ \A j \in F \cup {a} : j > i => ~Same(table, g[j], g[i])
  <2>1. \A j \in F \cup {a} : j > a => ~Same(table, g[j], g[a])
    BY <1>0, Zenon
  <2>2. QED
    BY <1>1, <2>1, Zenon
<1>2. ASSUME NEW i \in F, g[i] = e, ~Same(table, e, g[a]),
             \A j \in F : j > i => ~Same(table, g[j], g[i])
      PROVE  \A j \in F \cup {a} : j > i => ~Same(table, g[j], g[i])
  BY <1>2, Zenon DEF Same
<1>3. ASSUME NEW i \in F, g[i] = e,
             \A j \in F \cup {a} : j > i => ~Same(table, g[j], g[i])
      PROVE  ~Same(table, e, g[a])
  BY <1>0, <1>3, Zenon DEF Same
<1>4. e \in Members(q) <=> e = g[a] \/ (e \in Members(seq) /\ ~Same(table, e, g[a]))
  BY Zenon DEF Inserted
<1>5. e \in Members(seq) <=>
        \E i \in F : g[i] = e /\ \A j \in F : j > i => ~Same(table, g[j], g[i])
  BY Zenon DEF Holding
<1>6. ASSUME e \in Members(q)
      PROVE  \E i \in F \cup {a} :
               g[i] = e /\ \A j \in F \cup {a} : j > i => ~Same(table, g[j], g[i])
  BY <1>1, <1>2, <1>4, <1>5, <1>6, Zenon
<1>7. ASSUME NEW i \in F \cup {a}, g[i] = e,
             \A j \in F \cup {a} : j > i => ~Same(table, g[j], g[i])
      PROVE  e \in Members(q)
  BY <1>3, <1>4, <1>5, <1>7, Zenon
<1>8. QED
  BY <1>6, <1>7, Zenon

LEMMA KnownMeans ==
  ASSUME NEW d \in Known
  PROVE  IsDirective(d) /\ d.level \in 0 .. Trace
<1>1. IsDirective(d) /\ d.level <= Trace /\ Trace \in Nat
  BY EnvAssumption, Zenon
<1>2. d.level \in Nat
  BY <1>1, Zenon DEF IsDirective
<1>3. QED
  BY <1>1, <1>2, SMT

LEMMA AddToMeans ==
  ASSUME NEW table, NEW set, NEW g \in Seq(Known), NEW F \in SUBSET DOMAIN g,
         TableOK(table, set, g, F), NEW a \in DOMAIN g, a \notin F,
         \A j \in F : j > a => ~Same(table, g[j], g[a])
  PROVE  FilledTableOK(table, AddTo(table, set, g[a]), g, F \cup {a})
<1> DEFINE q == Insert(table, set.directives, g[a])
           m == HigherOf(set.max, g[a].level)
<1>1. g[a] \in Known
  BY SMT
<1>2. set.directives \in Seq(Known) /\ set.max \in 0 .. Trace /\ Sorted(table, set.directives)
  BY Zenon DEF TableOK
<1>3. q \in Seq(Known) /\ Inserted(table, set.directives, g[a], q)
  BY <1>1, <1>2, KnownMeans, InsertMeans, Zenon
<1>4. AddTo(table, set, g[a]) = [directives |-> q, max |-> m]
  BY Zenon DEF AddTo
<1> HIDE DEF q, m
<1>5. m \in 0 .. Trace /\ set.max <= m /\ g[a].level <= m
  BY <1>1, <1>2, KnownMeans, EnvAssumption, SMT DEF HigherOf, m
<1>6. Holding(table, q, g, F \cup {a})
  BY <1>3, HoldingMore, Zenon DEF TableOK
<1>7. ASSUME NEW e \in Members(q)
      PROVE  e.level <= m
  <2>1. e = g[a] \/ e \in Members(set.directives)
    BY <1>3, Zenon DEF Inserted
  <2>2. e \in Members(set.directives) => e \in Known /\ e.level <= set.max
    BY <1>2, SMT DEF Members, TableOK
  <2>3. QED
    BY <1>2, <1>5, <2>1, <2>2, KnownMeans, SMT
<1>8. [directives |-> q, max |-> m] \in [directives : Seq(Known), max : 0 .. Trace]
  BY <1>3, <1>5, Zenon
<1>9. [directives |-> q, max |-> m].directives = q /\ [directives |-> q, max |-> m].max = m
  BY Zenon
<1>10. QED
  BY <1>3, <1>4, <1>6, <1>7, <1>8, <1>9, Zenon DEF TableOK, FilledTableOK, Inserted

\* It does not matter to them that there are more directives.
LEMMA HoldingStill ==
  ASSUME NEW table, NEW set, NEW g \in Seq(Known), NEW F \in SUBSET DOMAIN g,
         TableOK(table, set, g, F), NEW d \in Known
  PROVE  TableOK(table, set, Append(g, d), F)
<1>1. \A i \in F : Append(g, d)[i] = g[i]
  BY SMT
<1>2. Holding(table, set.directives, Append(g, d), F)
  BY <1>1, Zenon DEF TableOK, Holding
<1>3. QED
  BY <1>2, Zenon DEF TableOK

-----------------------------------------------------------------------------
(* The filter                                                              *)

Interests == {"never", "sometimes", "always"}

Types ==
  /\ given \in Seq(Known) /\ parsed \in Nat /\ parsed <= Len(given)
  /\ stage \in {"stats", "dyns", "built"} /\ at \in Nat /\ at > 0
  /\ stage # "built" => parsed = Len(given) /\ ~attached
  /\ attached \in BOOLEAN /\ hasDynamics \in BOOLEAN
  /\ cached \in [Sites -> Interests]

Tables ==
  /\ TableOK("static", statics, given, FiledStatic)
  /\ TableOK("dynamic", dynamics, given, FiledDynamic)
  /\ hasDynamics <=> dynamics.directives # <<>>

\* The callsites that have a matcher once they are registered.
Cared == {m \in Sites : hasDynamics /\ m.kind = "span" /\ Matcher(m) # {}}

Registered ==
  /\ attached => /\ \A m \in Sites : cached[m] = RegisterCallsite(m)
                 /\ DOMAIN byCs = Cared /\ \A m \in Cared : byCs[m] = Matcher(m)
  /\ ~attached => DOMAIN byCs = {}

FilterInv == Types /\ Tables /\ Registered

LEMMA EmptyTable ==
  ASSUME NEW table, NEW g
  PROVE  TableOK(table, EmptySet, g, {}) /\ EmptySet.directives = <<>>
<1>1. EmptySet.directives = <<>> /\ EmptySet.max = 0
  BY Zenon DEF EmptySet
<1>2. EmptySet \in [directives : Seq(Known), max : 0 .. Trace]
  BY EnvAssumption, SMT DEF EmptySet
<1>3. Members(<<>>) = {} /\ Sorted(table, <<>>)
  BY SMT DEF Members, Sorted
<1>4. QED
  BY <1>1, <1>2, <1>3, Zenon DEF TableOK, Holding

LEMMA FilterInit ==
  ASSUME Init
  PROVE  FilterInv
<1>1. given \in Seq(Known) /\ parsed = Len(given)
  BY EnvAssumption, Zenon DEF Init
<1>2. Types
  <2>1. Len(given) \in Nat /\ at \in Nat /\ at > 0 /\ parsed <= Len(given)
    BY <1>1, SMT DEF Init
  <2>2. cached \in [Sites -> Interests]
    BY SMT DEF Init, Interests
  <2>3. QED
    BY <1>1, <2>1, <2>2, Zenon DEF Init, Types
<1>3. ASSUME NEW i \in DOMAIN given PROVE ~Done(i)
  BY <1>1, SMT DEF Init, Done
<1>4. FiledStatic = {} /\ FiledDynamic = {}
  BY <1>3, Zenon DEF FiledStatic, FiledDynamic
<1>5. Tables
  BY <1>4, EmptyTable, Zenon DEF Init, Tables
<1>6. Registered
  BY SMT DEF Init, Registered
<1>7. QED
  BY <1>2, <1>5, <1>6, Zenon DEF FilterInv

\* What is not static is dynamic.
LEMMA StaticOrDynamic ==
  ASSUME NEW d, ~IsStatic(d)
  PROVE  IsDynamic(d)
<1>1. CASE HasName(d)
  BY <1>1, Zenon DEF IsDynamic
<1>2. CASE HasValues(d)
  <2>1. DOMAIN d.fields # {}
    BY <1>2, Zenon DEF HasValues
  <2>2. d.fields # <<>>
    BY <2>1, SMT
  <2>3. QED
    BY <2>2, Zenon DEF IsDynamic
<1>3. QED
  BY <1>1, <1>2, Zenon DEF IsStatic

\* A dynamic directive and one that is not are never the same to the static table.
LEMMA NotSame ==
  ASSUME NEW d \in Known, NEW e \in Known, IsDynamic(d), IsStatic(d), ~IsDynamic(e)
  PROVE  ~Same("static", e, d)
<1>1. d.fields # <<>> /\ e.fields = <<>>
  BY Zenon DEF IsDynamic, IsStatic
<1>2. IsDirective(d) /\ IsDirective(e)
  BY KnownMeans, Zenon
<1>3. Len(d.fields) \in Nat /\ Len(d.fields) # 0 /\ Len(e.fields) = 0
  BY <1>1, <1>2, SMT DEF IsDirective
<1>4. Len(StaticKey(d)) = 2 + Len(d.fields) /\ Len(StaticKey(e)) = 2 + Len(e.fields)
  BY <1>2, StaticKeyType, Zenon
<1>5. Len(StaticKey(d)) # Len(StaticKey(e))
  BY <1>3, <1>4, SMT
<1>6. QED
  BY <1>5, Zenon DEF Same, KeyIn

\* A directive that goes into neither table is not filed, and the others are.
LEMMA SkipStep ==
  ASSUME Types, Tables, at <= Len(given), stage # "built",
         ~(IsDynamic(given[at]) <=> stage = "dyns"),
         UNCHANGED <<tables, stage, given, parsed>>, at' = at + 1
  PROVE  Tables'
<1>1. stage' = stage /\ given' = given /\ parsed' = parsed /\ at \in Nat
  BY Zenon DEF Types
<1>2. \A i \in DOMAIN given : i \in Nat
  BY SMT DEF Types
<1>3. ASSUME NEW i \in DOMAIN given PROVE Done(i)' <=> Done(i)
  <2>1. CASE i = at
    BY <1>1, <1>2, <2>1, SMT DEF Done, Types
  <2>2. CASE i # at
    <3>1. i < at' <=> i < at
      BY <1>1, <1>2, <2>2, SMT
    <3>2. QED
      BY <1>1, <3>1, Zenon DEF Done
  <2>3. QED
    BY <2>1, <2>2, Zenon
<1>4. FiledStatic' = FiledStatic /\ FiledDynamic' = FiledDynamic
  BY <1>1, <1>3, Zenon DEF FiledStatic, FiledDynamic, OnSpans
<1>5. QED
  BY <1>1, <1>4, Zenon DEF Tables, tables

\* The next directive is filed.
LEMMA FileStep ==
  ASSUME Types, Tables, at <= Len(given), stage # "built",
         IsDynamic(given[at]) <=> stage = "dyns", MakeTables(given[at]),
         UNCHANGED <<stage, given, parsed>>, at' = at + 1
  PROVE  Tables'
<1> DEFINE d == given[at]
<1>1. stage' = stage /\ given' = given /\ parsed' = parsed /\ at \in Nat
  BY Zenon DEF Types
<1>2. at \in DOMAIN given /\ d \in Known /\ \A i \in DOMAIN given : i \in Nat /\ given[i] \in Known
  BY SMT DEF Types
<1>3. ASSUME NEW i \in DOMAIN given
      PROVE  /\ Done(i)' <=> Done(i) \/ i = at
             /\ i = at => ~Done(i)
  <2>1. CASE i = at
    BY <1>1, <1>2, <2>1, SMT DEF Done, Types
  <2>2. CASE i # at
    <3>1. i < at' <=> i < at
      BY <1>1, <1>2, <2>2, SMT
    <3>2. QED
      BY <1>1, <2>2, <3>1, Zenon DEF Done
  <2>3. QED
    BY <2>1, <2>2, Zenon
<1>4. OnSpans(at) <=> IsDynamic(d)
  BY <1>1, SMT DEF OnSpans, Types
<1>5. FiledStatic' = IF IsStatic(d) THEN FiledStatic \cup {at} ELSE FiledStatic
  BY <1>1, <1>2, <1>3, Zenon DEF FiledStatic
<1>6. FiledDynamic' = IF IsDynamic(d) THEN FiledDynamic \cup {at} ELSE FiledDynamic
  BY <1>1, <1>2, <1>3, <1>4, Zenon DEF FiledDynamic, OnSpans
<1>7. /\ FiledStatic \in SUBSET DOMAIN given /\ at \notin FiledStatic
      /\ FiledDynamic \in SUBSET DOMAIN given /\ at \notin FiledDynamic
  BY <1>2, <1>3, Zenon DEF FiledStatic, FiledDynamic
<1>8. \A j \in DOMAIN given : Done(j) /\ j > at => ~IsDynamic(given[j]) /\ IsDynamic(d)
  BY <1>1, <1>2, SMT DEF Done, Types
<1>9. ASSUME IsStatic(d)
      PROVE  \A j \in FiledStatic : j > at => ~Same("static", given[j], d)
  BY <1>2, <1>8, <1>9, NotSame, Zenon DEF FiledStatic
<1>10. \A j \in FiledDynamic : j > at => ~Same("dynamic", given[j], d)
  BY <1>8, Zenon DEF FiledDynamic, OnSpans
<1>11. TableOK("static", statics', given, FiledStatic')
  <2>1. CASE IsStatic(d)
    <3>1. statics' = AddTo("static", statics, d)
      BY <2>1, Zenon DEF MakeTables
    <3>2. FilledTableOK("static", statics', given, FiledStatic \cup {at})
      BY <1>2, <1>7, <1>9, <2>1, <3>1, AddToMeans, Zenon DEF Types, Tables
    <3>3. QED
      BY <1>5, <2>1, <3>2, Zenon DEF FilledTableOK
  <2>2. CASE ~IsStatic(d)
    BY <1>5, <2>2, Zenon DEF MakeTables, Tables
  <2>3. QED
    BY <2>1, <2>2, Zenon
<1>12. /\ TableOK("dynamic", dynamics', given, FiledDynamic')
       /\ hasDynamics' <=> dynamics'.directives # <<>>
  <2>1. CASE IsDynamic(d)
    <3>1. dynamics' = AddTo("dynamic", dynamics, d) /\ hasDynamics'
      BY <2>1, Zenon DEF MakeTables
    <3>2. FilledTableOK("dynamic", dynamics', given, FiledDynamic \cup {at})
      BY <1>2, <1>7, <1>10, <3>1, AddToMeans, Zenon DEF Types, Tables
    <3>3. QED
      BY <1>6, <2>1, <3>1, <3>2, Zenon DEF FilledTableOK
  <2>2. CASE ~IsDynamic(d)
    BY <1>6, <2>2, Zenon DEF MakeTables, Tables
  <2>3. QED
    BY <2>1, <2>2, Zenon
<1>13. QED
  BY <1>1, <1>11, <1>12, Zenon DEF Tables

\* Both rounds end with what the next begins with.
LEMMA StageStep ==
  ASSUME Types, Tables, at > Len(given), UNCHANGED <<tables, given, parsed>>,
         (stage = "stats" /\ stage' = "dyns" /\ at' = 1) \/ (stage = "dyns" /\ stage' = "built")
  PROVE  Tables'
<1>1. given' = given /\ parsed' = parsed
  BY Zenon
<1>2. \A i \in DOMAIN given : i \in Nat /\ i < at /\ ~(i < 1)
  BY SMT DEF Types
<1>3. ASSUME NEW i \in DOMAIN given PROVE Done(i)' <=> Done(i)
  BY <1>1, <1>2, SMT DEF Done
<1>4. FiledStatic' = FiledStatic /\ FiledDynamic' = FiledDynamic
  BY <1>1, <1>3, Zenon DEF FiledStatic, FiledDynamic, OnSpans
<1>5. QED
  BY <1>1, <1>4, Zenon DEF Tables, tables

\* add_directive.
LEMMA AddStep ==
  ASSUME Types, Tables, NEW d \in Known, \A i \in DOMAIN given : Done(i),
         AddToTables(d), stage' = "built", parsed' = parsed
  PROVE  Tables' /\ given' \in Seq(Known) /\ Len(given') = Len(given) + 1
<1>0. PICK n : n = Len(given) + 1
  BY Zenon
<1>1. given' = Append(given, d)
  BY Zenon DEF AddToTables
<1>2. /\ Len(given) \in Nat /\ given' \in Seq(Known) /\ Len(given') = n
      /\ n \notin DOMAIN given /\ n \in DOMAIN given' /\ n > parsed
      /\ DOMAIN given' = DOMAIN given \cup {n} /\ given'[n] = d
      /\ \A i \in DOMAIN given : given'[i] = given[i] /\ ~(i > n)
  BY <1>0, <1>1, SMT DEF Types
<1>3. \A i \in DOMAIN given' : Done(i)'
  BY Zenon DEF Done
<1>4. FiledStatic' = IF IsStatic(d) THEN FiledStatic \cup {n} ELSE FiledStatic
  BY <1>2, <1>3, Zenon DEF FiledStatic
<1>5. \A i \in DOMAIN given : OnSpans(i)' <=> OnSpans(i)
  BY <1>2, Zenon DEF OnSpans
<1>6. OnSpans(n)' <=> ~IsStatic(d)
  BY <1>2, StaticOrDynamic, Zenon DEF OnSpans
<1>7. FiledDynamic' = IF IsStatic(d) THEN FiledDynamic ELSE FiledDynamic \cup {n}
  BY <1>2, <1>3, <1>5, <1>6, Zenon DEF FiledDynamic
<1>8. /\ FiledStatic \in SUBSET DOMAIN given /\ FiledDynamic \in SUBSET DOMAIN given
      /\ FiledStatic \in SUBSET DOMAIN given' /\ FiledDynamic \in SUBSET DOMAIN given'
      /\ n \notin FiledStatic /\ n \notin FiledDynamic
  BY <1>2, Zenon DEF FiledStatic, FiledDynamic
<1>9. /\ TableOK("static", statics, given', FiledStatic)
      /\ TableOK("dynamic", dynamics, given', FiledDynamic)
  BY <1>1, <1>8, HoldingStill, Zenon DEF Types, Tables
<1>10. \A j \in FiledStatic \cup FiledDynamic : ~(j > n)
  BY <1>2, <1>8, Zenon
<1>11. CASE IsStatic(d)
  <2>1. /\ statics' = AddTo("static", statics, given'[n])
        /\ dynamics' = dynamics /\ hasDynamics' = hasDynamics
    BY <1>2, <1>11, Zenon DEF AddToTables
  <2>2. FilledTableOK("static", statics', given', FiledStatic')
    BY <1>2, <1>4, <1>8, <1>9, <1>10, <1>11, <2>1, AddToMeans, Zenon
  <2>3. QED
    BY <1>0, <1>2, <1>7, <1>9, <1>11, <2>1, <2>2, Zenon DEF Tables, FilledTableOK
<1>12. CASE ~IsStatic(d)
  <2>1. /\ dynamics' = AddTo("dynamic", dynamics, given'[n])
        /\ hasDynamics' /\ statics' = statics
    BY <1>2, <1>12, Zenon DEF AddToTables
  <2>2. FilledTableOK("dynamic", dynamics', given', FiledDynamic \cup {n})
    BY <1>2, <1>8, <1>9, <1>10, <2>1, AddToMeans, Zenon
  <2>3. TableOK("dynamic", dynamics', given', FiledDynamic') /\ dynamics'.directives # <<>>
    BY <1>7, <1>12, <2>2, Zenon DEF FilledTableOK
  <2>4. QED
    BY <1>0, <1>2, <1>4, <1>9, <1>12, <2>1, <2>3, Zenon DEF Tables
<1>13. QED
  BY <1>11, <1>12, Zenon

LEMMA BuildStep ==
  ASSUME FilterInv, Build
  PROVE  FilterInv'
<1>0. /\ Types /\ Tables /\ ~attached /\ attached' = attached /\ parsed' = parsed
      /\ cached' = cached /\ DOMAIN byCs' = {}
  BY Zenon DEF FilterInv, Types, Registered, Build
<1>1. Registered'
  BY <1>0, Zenon DEF Registered
<1>2. CASE /\ at <= Len(given) /\ at' = at + 1
           /\ IF IsDynamic(given[at]) <=> stage = "dyns"
              THEN MakeTables(given[at]) ELSE UNCHANGED tables
           /\ UNCHANGED <<stage, given>>
  <2>1. Tables'
    BY <1>0, <1>2, SkipStep, FileStep, Zenon DEF Build
  <2>2. at' \in Nat /\ at' > 0
    BY <1>0, <1>2, SMT DEF Types
  <2>3. hasDynamics' \in BOOLEAN
    BY <1>0, <1>2, Zenon DEF Types, MakeTables, tables
  <2>4. QED
    BY <1>0, <1>1, <1>2, <2>1, <2>2, <2>3, Zenon DEF Types, FilterInv
<1>3. CASE /\ at > Len(given) /\ stage = "stats" /\ stage' = "dyns" /\ at' = 1
           /\ UNCHANGED <<tables, given>>
  <2>1. Tables'
    BY <1>0, <1>3, StageStep, Zenon
  <2>2. at' \in Nat /\ at' > 0
    BY <1>3, SMT
  <2>3. QED
    BY <1>0, <1>1, <1>3, <2>1, <2>2, Zenon DEF Types, FilterInv, tables
<1>4. CASE /\ at > Len(given) /\ stage = "dyns" /\ stage' = "built" /\ at' = 1
           /\ ~hasDynamics /\ statics.directives = <<>> /\ AddToTables(Default)
  <2>1. Default \in Known
    BY Zenon DEF Known
  <2>2. \A i \in DOMAIN given : Done(i)
    BY <1>0, <1>4, SMT DEF Types, Done
  <2>3. Tables' /\ given' \in Seq(Known) /\ Len(given') = Len(given) + 1
    BY <1>0, <1>4, <2>1, <2>2, AddStep, Zenon
  <2>4. at' \in Nat /\ at' > 0 /\ parsed' \in Nat /\ parsed' <= Len(given')
    BY <1>0, <1>4, <2>3, SMT DEF Types
  <2>5. hasDynamics' \in BOOLEAN
    BY <1>0, <1>4, Zenon DEF Types, AddToTables
  <2>6. QED
    BY <1>0, <1>1, <1>4, <2>3, <2>4, <2>5, Zenon DEF Types, FilterInv
<1>5. CASE /\ at > Len(given) /\ stage = "dyns" /\ stage' = "built" /\ at' = 1
           /\ UNCHANGED <<tables, given>>
  <2>1. Tables'
    BY <1>0, <1>5, StageStep, Zenon
  <2>2. at' \in Nat /\ at' > 0
    BY <1>5, SMT
  <2>3. QED
    BY <1>0, <1>1, <1>5, <2>1, <2>2, Zenon DEF Types, FilterInv, tables
<1>6. QED
  BY <1>2, <1>3, <1>4, <1>5, Zenon DEF Build

LEMMA AddDirectiveStep ==
  ASSUME FilterInv, NEW d \in Added, AddDirective(d)
  PROVE  FilterInv'
<1>0. /\ Types /\ Tables /\ ~attached /\ attached' = attached /\ parsed' = parsed /\ stage = "built"
      /\ stage' = stage /\ at' = at /\ cached' = cached /\ DOMAIN byCs' = {}
  BY Zenon DEF FilterInv, Registered, AddDirective
<1>1. Registered'
  BY <1>0, Zenon DEF Registered
<1>2. d \in Known /\ \A i \in DOMAIN given : Done(i)
  BY <1>0, Zenon DEF Known, Done
<1>3. Tables' /\ given' \in Seq(Known) /\ Len(given') = Len(given) + 1
  BY <1>0, <1>2, AddStep, Zenon DEF AddDirective
<1>4. parsed' <= Len(given')
  BY <1>0, <1>3, SMT DEF Types
<1>5. hasDynamics' \in BOOLEAN
  BY <1>0, Zenon DEF Types, AddDirective, AddToTables
<1>6. QED
  BY <1>0, <1>1, <1>3, <1>4, <1>5, Zenon DEF Types, FilterInv

\* What is asked of the filter depends on its tables alone.
LEMMA AskedSame ==
  ASSUME UNCHANGED tables
  PROVE  /\ \A m : Matcher(m)' = Matcher(m) /\ RegisterCallsite(m)' = RegisterCallsite(m)
         /\ Cared' = Cared
<1>1. statics' = statics /\ dynamics' = dynamics /\ hasDynamics' = hasDynamics
  BY Zenon DEF tables
<1>2. \A m : Matcher(m)' = Matcher(m) /\ RegisterCallsite(m)' = RegisterCallsite(m)
  BY <1>1, Zenon DEF Matcher, RegisterCallsite, StaticsEnabled
<1>3. \A m : m \in Cared' <=> m \in Cared
  BY <1>1, <1>2, SMT DEF Cared
<1>4. Cared' = Cared
  BY <1>3, SMT
<1>5. QED
  BY <1>2, <1>4, Zenon

LEMMA AttachStep ==
  ASSUME FilterInv, Attach
  PROVE  FilterInv'
<1>0. /\ Types /\ Tables /\ UNCHANGED <<tables, stage, at, given, parsed>> /\ attached' = TRUE
      /\ stage = "built"
  BY Zenon DEF FilterInv, Attach
<1>1. Tables'
  BY <1>0, Zenon DEF Tables, FiledStatic, FiledDynamic, Done, OnSpans, tables
<1>2. \A m : RegisterCallsite(m) \in Interests
  BY Zenon DEF RegisterCallsite, Interests
<1>3. Types'
  BY <1>0, <1>2, Zenon DEF Types, Attach, tables
<1>4. Cared' = Cared
  BY <1>0, AskedSame, Zenon
<1>5. Registered'
  BY <1>0, <1>4, AskedSame, Zenon DEF Registered, Attach, Cared
<1>6. QED
  BY <1>1, <1>3, <1>5, Zenon DEF FilterInv

LEMMA FilterSame ==
  ASSUME FilterInv, UNCHANGED filterVars
  PROVE  FilterInv'
<1>0. /\ UNCHANGED <<tables, stage, at, given, parsed>> /\ attached' = attached
      /\ byCs' = byCs /\ cached' = cached
  BY Zenon DEF filterVars
<1>1. Tables'
  BY <1>0, Zenon DEF FilterInv, Tables, FiledStatic, FiledDynamic, Done, OnSpans, tables
<1>2. Types'
  BY <1>0, Zenon DEF FilterInv, Types, tables
<1>3. Cared' = Cared
  BY <1>0, AskedSame, Zenon
<1>4. Registered'
  BY <1>0, <1>3, AskedSame, Zenon DEF FilterInv, Registered
<1>5. QED
  BY <1>1, <1>2, <1>4, Zenon DEF FilterInv

-----------------------------------------------------------------------------
(* Spans                                                                   *)

Wanted(d) == FieldMatcher(d).want

\* The fields of which one of the pairs is a value that matches.
Hit(f, pairs) == \E p \in pairs : p[1] = f.name /\ ValueMatches(f.value, p[2])

\* The matcher of directive d for a span of which the pairs were recorded, ...
Recorded(d, pairs) ==
  [want |-> Wanted(d), got |-> {f \in Wanted(d) : Hit(f, pairs)}, level |-> d.level]

\* ... and those of a span of callsite m.
Caring(m) == {d \in Members(dynamics.directives) : DynamicCares(d, m)}
Matched(m, pairs) == {Recorded(d, pairs) : d \in Caring(m)}

SpanInv ==
  /\ live \in [Ids -> Sites \cup {NoSpan}] /\ DOMAIN recorded = Ids
  /\ ~attached => \A s \in Ids : live[s] = NoSpan
  /\ \A s \in Ids : live[s] # NoSpan => live[s].kind = "span"
  /\ DOMAIN byId = {s \in Ids : live[s] \in DOMAIN byCs}
  /\ \A s \in DOMAIN byId : byId[s] = Matched(live[s], recorded[s])

Updated(x, pairs) ==
  [x EXCEPT !.got = @ \cup
     {f \in x.want : \E p \in pairs : p[1] = f.name /\ ValueMatches(f.value, p[2])}]

LEMMA RecordedMore ==
  ASSUME NEW d, NEW A, NEW B
  PROVE  Updated(Recorded(d, A), B) = Recorded(d, A \cup B)
<1> DEFINE x == Recorded(d, A)
           W == Wanted(d)
           more == {f \in W : Hit(f, B)}
<1>1. x = [want |-> W, got |-> {f \in W : Hit(f, A)}, level |-> d.level]
  BY Zenon DEF Recorded
<1>2. x.want = W
  BY <1>1, SMT
<1>3. {f \in W : \E p \in B : p[1] = f.name /\ ValueMatches(f.value, p[2])} = more
  BY Zenon DEF Hit
<1>4. {f \in W : Hit(f, A)} \cup more = {f \in W : Hit(f, A \cup B)}
  BY Zenon DEF Hit
<1>5. Recorded(d, A \cup B) = [want |-> W, got |-> {f \in W : Hit(f, A)} \cup more, level |-> d.level]
  BY <1>4, Zenon DEF Recorded
<1> HIDE DEF W, more, x
<1>6. [x EXCEPT !.got = @ \cup more]
        = [want |-> W, got |-> {f \in W : Hit(f, A)} \cup more, level |-> d.level]
  BY <1>1, SMT
<1>7. Updated(x, B) = [x EXCEPT !.got = @ \cup more]
  BY <1>2, <1>3, Zenon DEF Updated
<1>8. QED
  BY <1>5, <1>6, <1>7, Zenon DEF x

\* on_record of a span.
LEMMA MatchedMore ==
  ASSUME NEW m, NEW A, NEW B
  PROVE  RecordUpdate(Matched(m, A), B) = Matched(m, A \cup B)
<1>1. RecordUpdate(Matched(m, A), B) = {Updated(x, B) : x \in Matched(m, A)}
  BY Zenon DEF RecordUpdate, Updated
<1>2. \A d : Updated(Recorded(d, A), B) = Recorded(d, A \cup B)
  BY RecordedMore, Zenon
<1>3. QED
  BY <1>1, <1>2, Zenon DEF Matched

Cleared(x) == [x EXCEPT !.got = {}]

LEMMA RecordedNone ==
  ASSUME NEW d
  PROVE  [FieldMatcher(d) EXCEPT !.got = {}] = Recorded(d, {})
<1> DEFINE w == {[name |-> d.fields[i].name, value |-> d.fields[i].value] :
                   i \in {i \in DOMAIN d.fields : HasValue(d.fields[i])}}
<1>1. FieldMatcher(d) = [want |-> w, got |-> {}, level |-> d.level]
  BY Zenon DEF FieldMatcher
<1> HIDE DEF w
<1>2. Wanted(d) = w
  BY <1>1, SMT DEF Wanted
<1>3. {f \in Wanted(d) : Hit(f, {})} = {}
  BY Zenon DEF Hit
<1>4. Recorded(d, {}) = [want |-> w, got |-> {}, level |-> d.level]
  BY <1>2, <1>3, Zenon DEF Recorded
<1>5. QED
  BY <1>1, <1>4, SMT

\* on_new_span.
LEMMA MatchedNew ==
  ASSUME NEW m, NEW B
  PROVE  ToSpanMatch(Matcher(m), B) = Matched(m, B)
<1> DEFINE cleared == {Cleared(x) : x \in Matcher(m)}
<1>1. \A e : e \in Matcher(m) <=> \E d \in Caring(m) : e = FieldMatcher(d)
  BY Zenon DEF Matcher, Caring, Members
<1>2. \A d : [FieldMatcher(d) EXCEPT !.got = {}] = Recorded(d, {})
  BY RecordedNone, Zenon
<1>3. \A e : e \in cleared <=> \E d \in Caring(m) : e = Recorded(d, {})
  <2>1. \A e : e \in cleared <=> \E x \in Matcher(m) : e = Cleared(x)
    BY Zenon
  <2>2. \A d : Cleared(FieldMatcher(d)) = Recorded(d, {})
    BY <1>2, Zenon DEF Cleared
  <2> HIDE DEF cleared
  <2>3. ASSUME NEW x \in Matcher(m) PROVE \E d \in Caring(m) : Cleared(x) = Recorded(d, {})
    BY <1>1, <2>2, Zenon
  <2>4. ASSUME NEW d \in Caring(m) PROVE Recorded(d, {}) \in cleared
    <3>1. FieldMatcher(d) \in Matcher(m)
      BY <1>1, Zenon
    <3>2. QED
      BY <2>1, <2>2, <3>1, Zenon
  <2>5. QED
    BY <2>1, <2>3, <2>4, Zenon
<1>4. ToSpanMatch(Matcher(m), B) = RecordUpdate(cleared, B)
  BY Zenon DEF ToSpanMatch, Cleared
<1> HIDE DEF cleared
<1>5. cleared = Matched(m, {})
  BY <1>3, Zenon DEF Matched
<1>6. {} \cup B = B
  BY Zenon
<1>7. RecordUpdate(Matched(m, {}), B) = Matched(m, {} \cup B)
  BY MatchedMore, Zenon
<1>8. QED
  BY <1>4, <1>5, <1>6, <1>7, Zenon

\* A callsite has a matcher if a dynamic directive cares about it.
LEMMA MatcherEmpty ==
  ASSUME NEW m
  PROVE  Matcher(m) = {} <=> Caring(m) = {}
BY Zenon DEF Matcher, Caring, Members

\* The levels of the directives that are matched by a span of callsite m of which
\* the pairs were recorded.
AllHit(d, pairs) == \A f \in Wanted(d) : Hit(f, pairs)
Reached(m, pairs) == {d.level : d \in {d \in Caring(m) : AllHit(d, pairs)}}
HighestOf(S) == IF S = {} THEN 0 ELSE Highest(S)

LEMMA LevelOfMatched ==
  ASSUME NEW m, NEW pairs
  PROVE  LevelOf(Matched(m, pairs)) = HighestOf(Reached(m, pairs))
<1> DEFINE matched == {x \in Matched(m, pairs) : x.got = x.want}
           levels == {x.level : x \in matched}
<1>1. ASSUME NEW d
      PROVE  /\ Recorded(d, pairs).level = d.level
             /\ Recorded(d, pairs).got = Recorded(d, pairs).want <=> AllHit(d, pairs)
  <2>1. Recorded(d, pairs).level = d.level /\ Recorded(d, pairs).want = Wanted(d)
    BY SMT DEF Recorded
  <2>2. Recorded(d, pairs).got = {f \in Wanted(d) : Hit(f, pairs)}
    BY SMT DEF Recorded
  <2>3. QED
    BY <2>1, <2>2, Zenon DEF AllHit
<1>2. \A x : x \in Matched(m, pairs) <=> \E d \in Caring(m) : x = Recorded(d, pairs)
  BY Zenon DEF Matched
<1>3. ASSUME NEW x \in matched PROVE x.level \in Reached(m, pairs)
  <2>1. PICK d \in Caring(m) : x = Recorded(d, pairs)
    BY <1>2, Zenon
  <2>2. AllHit(d, pairs) /\ x.level = d.level
    BY <1>1, <2>1, Zenon
  <2>3. QED
    BY <2>1, <2>2, Zenon DEF Reached
<1>4. ASSUME NEW d \in Caring(m), AllHit(d, pairs)
      PROVE  Recorded(d, pairs) \in matched /\ Recorded(d, pairs).level = d.level
  BY <1>1, <1>2, <1>4, Zenon
<1>5. LevelOf(Matched(m, pairs)) = IF matched = {} THEN 0 ELSE Highest(levels)
  BY Zenon DEF LevelOf
<1>6. levels = Reached(m, pairs)
  <2>1. \A l \in levels : l \in Reached(m, pairs)
    BY <1>3, Zenon
  <2>2. ASSUME NEW d \in Caring(m), AllHit(d, pairs) PROVE d.level \in levels
    BY <1>4, <2>2, Zenon
  <2>3. QED
    BY <2>1, <2>2, Zenon DEF Reached
<1>7. matched = {} <=> levels = {}
  BY Zenon
<1> HIDE DEF matched, levels
<1>8. QED
  BY <1>5, <1>6, <1>7, Zenon DEF HighestOf

\* When the tables are built, the dynamic one has the directives on spans, but for
\* those that later ones replaced.
LEMMA DynamicHeld ==
  ASSUME FilterInv, stage = "built"
  PROVE  \A e : e \in Members(dynamics.directives) <=>
                  \E i \in DOMAIN given : LatestOnSpans(i) /\ given[i] = e
<1>1. FiledDynamic = {i \in DOMAIN given : OnSpans(i)}
  BY Zenon DEF FiledDynamic, Done
<1>2. \A i, j \in DOMAIN given : Same("dynamic", given[j], given[i])
                                   <=> DynamicKey(given[j]) = DynamicKey(given[i])
  BY Zenon DEF Same, KeyIn
<1>3. \A i, j \in DOMAIN given : j > i <=> j \in i + 1 .. Len(given)
  BY SMT DEF FilterInv, Types
<1>4. \A i \in DOMAIN given : \A j \in i + 1 .. Len(given) : j \in DOMAIN given
  BY SMT DEF FilterInv, Types
<1>5. \A i \in DOMAIN given :
        LatestOnSpans(i) <=>
          i \in FiledDynamic
            /\ \A j \in FiledDynamic : j > i => ~Same("dynamic", given[j], given[i])
  BY <1>1, <1>2, <1>3, <1>4, Zenon DEF LatestOnSpans
<1>6. Holding("dynamic", dynamics.directives, given, FiledDynamic)
  BY Zenon DEF FilterInv, Tables, TableOK
<1>7. \A i \in FiledDynamic : i \in DOMAIN given
  BY <1>1, Zenon
<1>8. QED
  BY <1>5, <1>6, <1>7, Zenon DEF Holding

LEMMA FieldsHit ==
  ASSUME NEW d, NEW pairs
  PROVE  AllHit(d, pairs) <=>
           \A i \in DOMAIN d.fields : HasValue(d.fields[i]) =>
             \E x \in pairs : x[1] = d.fields[i].name /\ ValueMatches(d.fields[i].value, x[2])
<1> DEFINE F(i) == [name |-> d.fields[i].name, value |-> d.fields[i].value]
           w == {F(i) : i \in {i \in DOMAIN d.fields : HasValue(d.fields[i])}}
<1>1. FieldMatcher(d) = [want |-> w, got |-> {}, level |-> d.level]
  BY Zenon DEF FieldMatcher
<1>2. \A i : F(i).name = d.fields[i].name /\ F(i).value = d.fields[i].value
  BY Zenon
<1>3. \A f : f \in w <=> \E i \in DOMAIN d.fields : HasValue(d.fields[i]) /\ f = F(i)
  BY Zenon
<1> HIDE DEF w, F
<1>4. Wanted(d) = w
  BY <1>1, SMT DEF Wanted
<1>5. \A i : Hit(F(i), pairs) <=>
             \E x \in pairs : x[1] = d.fields[i].name /\ ValueMatches(d.fields[i].value, x[2])
  BY <1>2, Zenon DEF Hit
<1>6. QED
  BY <1>3, <1>4, <1>5, Zenon DEF AllHit

\* What the reference says of a span.
LEMMA MatchedLevelMeans ==
  ASSUME FilterInv, stage = "built", NEW s
  PROVE  MatchedLevel(s) = HighestOf(Reached(live[s], recorded[s]))
<1> DEFINE All(d) == \A i \in DOMAIN d.fields : HasValue(d.fields[i]) =>
                       \E x \in recorded[s] :
                         x[1] = d.fields[i].name /\ ValueMatches(d.fields[i].value, x[2])
           levels == {given[i].level : i \in {i \in DOMAIN given :
                        LatestOnSpans(i) /\ DynamicCares(given[i], live[s]) /\ All(given[i])}}
<1>1. MatchedLevel(s) = HighestOf(levels)
  BY Zenon DEF MatchedLevel, HighestOf
<1>2. \A d : All(d) <=> AllHit(d, recorded[s])
  BY FieldsHit, Zenon
<1> HIDE DEF All
<1>3. ASSUME NEW l \in levels PROVE l \in Reached(live[s], recorded[s])
  <2>1. PICK i \in DOMAIN given : /\ LatestOnSpans(i) /\ DynamicCares(given[i], live[s])
                                  /\ All(given[i]) /\ l = given[i].level
    BY Zenon
  <2>2. given[i] \in Caring(live[s]) /\ AllHit(given[i], recorded[s])
    BY <1>2, <2>1, DynamicHeld, Zenon DEF Caring
  <2>3. QED
    BY <2>1, <2>2, Zenon DEF Reached
<1>4. ASSUME NEW l \in Reached(live[s], recorded[s]) PROVE l \in levels
  <2>1. PICK d \in Caring(live[s]) : AllHit(d, recorded[s]) /\ l = d.level
    BY Zenon DEF Reached
  <2>2. PICK i \in DOMAIN given : LatestOnSpans(i) /\ given[i] = d
    BY <2>1, DynamicHeld, Zenon DEF Caring
  <2>3. DynamicCares(given[i], live[s]) /\ All(given[i])
    BY <1>2, <2>1, <2>2, Zenon DEF Caring
  <2>4. QED
    BY <2>1, <2>2, <2>3, Zenon
<1> HIDE DEF levels
<1>5. levels = Reached(live[s], recorded[s])
  BY <1>3, <1>4, Zenon
<1>6. QED
  BY <1>1, <1>5, Zenon

LEMMA ReachedBounds ==
  ASSUME FilterInv, NEW m, NEW pairs
  PROVE  /\ HighestOf(Reached(m, pairs)) \in 0 .. Trace
         /\ HighestOf(Reached(m, pairs)) <= dynamics.max
         /\ Caring(m) = {} => HighestOf(Reached(m, pairs)) = 0
<1> DEFINE S == Reached(m, pairs)
<1>1. dynamics.max \in 0 .. Trace /\ dynamics.directives \in Seq(Known)
  BY Zenon DEF FilterInv, Tables, TableOK
<1>2. \A d \in Members(dynamics.directives) : d \in Known /\ d.level <= dynamics.max
  <2>1. \A d \in Members(dynamics.directives) : d \in Known
    BY <1>1, SMT DEF Members
  <2>2. QED
    BY <2>1, Zenon DEF FilterInv, Tables, TableOK
<1>3. \A l \in S : l \in 0 .. Trace /\ l <= dynamics.max
  BY <1>2, KnownMeans, Zenon DEF Reached, Caring
<1>4. Caring(m) = {} => S = {}
  BY Zenon DEF Reached
<1> HIDE DEF S
<1>5. CASE S = {}
  <2>1. HighestOf(S) = 0
    BY <1>5, Zenon DEF HighestOf
  <2>2. QED
    BY <1>1, <2>1, EnvAssumption, SMT DEF S
<1>6. CASE S # {}
  <2>1. S \in SUBSET (0 .. Trace) /\ Trace \in Nat
    BY <1>3, EnvAssumption, Zenon
  <2>2. Highest(S) \in S
    BY <1>6, <2>1, HighestIn, Zenon
  <2>3. HighestOf(S) \in S
    BY <1>6, <2>2, Zenon DEF HighestOf
  <2>4. QED
    BY <1>3, <1>4, <1>6, <2>3, Zenon DEF S
<1>7. QED
  BY <1>5, <1>6, Zenon

\* The level that on_enter pushes is the one that the directives given say.
LEMMA EnteredLevel ==
  ASSUME FilterInv, SpanInv, NEW s \in Ids, live[s] # NoSpan
  PROVE  /\ MatchedLevel(s) \in 0 .. Trace /\ MatchedLevel(s) <= dynamics.max
         /\ s \in DOMAIN byId => LevelOf(byId[s]) = MatchedLevel(s)
         /\ s \notin DOMAIN byId => MatchedLevel(s) = 0
<1>1. attached /\ stage = "built" /\ live[s] \in Sites /\ live[s].kind = "span"
  BY Zenon DEF FilterInv, Types, SpanInv
<1>2. MatchedLevel(s) = HighestOf(Reached(live[s], recorded[s]))
  BY <1>1, MatchedLevelMeans, Zenon
<1>3. MatchedLevel(s) \in 0 .. Trace /\ MatchedLevel(s) <= dynamics.max
  BY <1>2, ReachedBounds, Zenon
<1>4. ASSUME s \in DOMAIN byId PROVE LevelOf(byId[s]) = MatchedLevel(s)
  BY <1>2, <1>4, LevelOfMatched, Zenon DEF SpanInv
<1>5. ASSUME s \notin DOMAIN byId PROVE MatchedLevel(s) = 0
  <2>1. live[s] \notin Cared
    BY <1>1, <1>5, Zenon DEF SpanInv, FilterInv, Registered
  <2>2. ~hasDynamics \/ Matcher(live[s]) = {}
    BY <1>1, <2>1, Zenon DEF Cared
  <2>3. ~hasDynamics => Members(dynamics.directives) = {}
    <3>1. ASSUME ~hasDynamics PROVE dynamics.directives = <<>>
      BY <3>1, Zenon DEF FilterInv, Tables
    <3>2. QED
      BY <3>1, SMT DEF Members
  <2>4. Caring(live[s]) = {}
    BY <2>2, <2>3, MatcherEmpty, Zenon DEF Caring
  <2>5. QED
    BY <1>2, <2>4, ReachedBounds, Zenon
<1>6. QED
  BY <1>3, <1>4, <1>5, Zenon

LEMMA SpanInit ==
  ASSUME Init
  PROVE  SpanInv
<1>1. DOMAIN byId = {} /\ DOMAIN byCs = {}
  BY SMT DEF Init
<1>2. live \in [Ids -> Sites \cup {NoSpan}] /\ DOMAIN recorded = Ids
  BY SMT DEF Init
<1>3. \A s \in Ids : live[s] = NoSpan
  BY SMT DEF Init
<1>4. QED
  BY <1>1, <1>2, <1>3, Zenon DEF SpanInv

\* While the filter is being set up there are no spans.
LEMMA SpanSetup ==
  ASSUME FilterInv, FilterInv', SpanInv, ~attached, UNCHANGED spanVars
  PROVE  SpanInv'
<1>1. byId' = byId /\ live' = live /\ recorded' = recorded
  BY Zenon DEF spanVars
<1>2. (\A s \in Ids : live[s] = NoSpan) /\ DOMAIN byId = {}
  BY Zenon DEF SpanInv, FilterInv, Registered
<1>3. NoSpan \notin DOMAIN byCs'
  <2>1. NoSpan \notin Cared'
    BY EnvAssumption, Zenon DEF Cared
  <2>2. CASE attached'
    BY <2>1, <2>2, Zenon DEF FilterInv, Registered
  <2>3. CASE ~attached'
    BY <2>3, Zenon DEF FilterInv, Registered
  <2>4. QED
    BY <2>2, <2>3, Zenon
<1>4. QED
  BY <1>1, <1>2, <1>3, Zenon DEF SpanInv

LEMMA MatchedSame ==
  ASSUME UNCHANGED filterVars
  PROVE  /\ \A m, pairs : Matched(m, pairs)' = Matched(m, pairs)
         /\ byCs' = byCs /\ attached' = attached
<1>1. dynamics' = dynamics /\ byCs' = byCs /\ attached' = attached
  BY Zenon DEF filterVars, tables
<1>2. QED
  BY <1>1, Zenon DEF Matched, Caring

LEMMA SpanSame ==
  ASSUME SpanInv, UNCHANGED <<filterVars, spanVars>>
  PROVE  SpanInv'
<1>1. byId' = byId /\ live' = live /\ recorded' = recorded
  BY Zenon DEF spanVars
<1>2. \A m, pairs : Matched(m, pairs)' = Matched(m, pairs)
  BY MatchedSame, Zenon
<1>3. byCs' = byCs /\ attached' = attached
  BY MatchedSame, Zenon
<1>4. \A s \in DOMAIN byId : Matched(live[s], recorded[s])' = Matched(live[s], recorded[s])
  BY <1>1, <1>3, Zenon DEF Matched, Caring, filterVars, tables
<1>5. QED
  BY <1>1, <1>3, <1>4, Zenon DEF SpanInv

LEMMA SpanStep ==
  ASSUME SpanInv, UNCHANGED filterVars, attached,
         live' \in [Ids -> Sites \cup {NoSpan}], DOMAIN recorded' = Ids,
         \A s \in Ids : live'[s] # NoSpan => live'[s].kind = "span",
         DOMAIN byId' = {s \in Ids : live'[s] \in DOMAIN byCs},
         \A s \in DOMAIN byId' : byId'[s] = Matched(live'[s], recorded'[s])
  PROVE  SpanInv'
<1>1. dynamics' = dynamics /\ byCs' = byCs /\ attached' = attached
  BY Zenon DEF filterVars, tables
<1>2. \A s : Matched(live[s], recorded[s])' = Matched(live'[s], recorded'[s])
  BY <1>1, Zenon DEF Matched, Caring
<1>3. QED
  BY <1>1, <1>2, Zenon DEF SpanInv

LEMMA NewSpanStep ==
  ASSUME FilterInv, SpanInv, NEW t \in Threads, NEW m \in Sites, NEW s \in Ids, NEW pairs,
         OnNewSpan(t, m, s, pairs)
  PROVE  SpanInv'
<1>1. /\ attached /\ m.kind = "span" /\ live[s] = NoSpan /\ UNCHANGED filterVars
      /\ live' = [live EXCEPT ![s] = m] /\ recorded' = [recorded EXCEPT ![s] = pairs]
  BY Zenon DEF OnNewSpan
<1>2. live \in [Ids -> Sites \cup {NoSpan}] /\ DOMAIN recorded = Ids
  BY Zenon DEF SpanInv
<1>3. /\ live'[s] = m /\ recorded'[s] = pairs
      /\ \A x \in Ids : x # s => live'[x] = live[x] /\ recorded'[x] = recorded[x]
      /\ live' \in [Ids -> Sites \cup {NoSpan}] /\ DOMAIN recorded' = Ids
  BY <1>1, <1>2, SMT
<1>4. s \notin DOMAIN byId
  <2>1. NoSpan \notin DOMAIN byCs
    BY <1>1, EnvAssumption, Zenon DEF FilterInv, Registered, Cared
  <2>2. QED
    BY <1>1, <2>1, Zenon DEF SpanInv
<1>5. \A x \in Ids : live'[x] # NoSpan => live'[x].kind = "span"
  BY <1>1, <1>3, Zenon DEF SpanInv
<1>6. CASE m \in DOMAIN byCs
  <2>1. byId' = [x \in DOMAIN byId \cup {s} |->
                   IF x = s THEN ToSpanMatch(byCs[m], pairs) ELSE byId[x]]
    BY <1>6, Zenon DEF OnNewSpan
  <2>2. DOMAIN byId' = DOMAIN byId \cup {s}
    BY <2>1, Zenon
  <2>3. byCs[m] = Matcher(m)
    BY <1>1, <1>6, Zenon DEF FilterInv, Registered
  <2>4. byId'[s] = Matched(m, pairs)
    BY <2>1, <2>3, MatchedNew, Zenon
  <2>5. \A x \in DOMAIN byId : byId'[x] = byId[x]
    BY <1>4, <2>1, Zenon
  <2>6. DOMAIN byId' = {x \in Ids : live'[x] \in DOMAIN byCs}
    BY <1>3, <1>4, <1>6, <2>2, Zenon DEF SpanInv
  <2>7. \A x \in DOMAIN byId' : byId'[x] = Matched(live'[x], recorded'[x])
    BY <1>3, <1>4, <2>2, <2>4, <2>5, Zenon DEF SpanInv
  <2>8. QED
    BY <1>1, <1>3, <1>5, <2>6, <2>7, SpanStep, Zenon
<1>7. CASE m \notin DOMAIN byCs
  <2>1. byId' = byId
    BY <1>7, Zenon DEF OnNewSpan
  <2>2. DOMAIN byId' = {x \in Ids : live'[x] \in DOMAIN byCs}
    BY <1>3, <1>4, <1>7, <2>1, Zenon DEF SpanInv
  <2>3. \A x \in DOMAIN byId' : byId'[x] = Matched(live'[x], recorded'[x])
    BY <1>3, <1>4, <2>1, Zenon DEF SpanInv
  <2>4. QED
    BY <1>1, <1>3, <1>5, <2>2, <2>3, SpanStep, Zenon
<1>8. QED
  BY <1>6, <1>7, Zenon

LEMMA RecordStep ==
  ASSUME FilterInv, SpanInv, NEW s \in Ids, NEW pair, OnRecord(s, pair)
  PROVE  SpanInv'
<1>1. /\ live[s] # NoSpan /\ live' = live /\ UNCHANGED filterVars
      /\ recorded' = [recorded EXCEPT ![s] = @ \cup {pair}]
  BY Zenon DEF OnRecord
<1>2. attached /\ live \in [Ids -> Sites \cup {NoSpan}] /\ DOMAIN recorded = Ids
  BY <1>1, Zenon DEF SpanInv
<1>3. /\ recorded'[s] = recorded[s] \cup {pair} /\ DOMAIN recorded' = Ids
      /\ \A x \in Ids : x # s => recorded'[x] = recorded[x]
  BY <1>1, <1>2, SMT
<1>4. DOMAIN byId' = DOMAIN byId /\ \A x \in DOMAIN byId : x # s => byId'[x] = byId[x]
  <2>1. CASE s \in DOMAIN byId
    <3>1. byId' = [byId EXCEPT ![s] = RecordUpdate(@, {pair})]
      BY <2>1, Zenon DEF OnRecord
    <3>2. QED
      BY <3>1, SMT
  <2>2. CASE s \notin DOMAIN byId
    BY <2>2, Zenon DEF OnRecord
  <2>3. QED
    BY <2>1, <2>2, Zenon
<1>5. s \in DOMAIN byId => byId'[s] = Matched(live[s], recorded'[s])
  <2> SUFFICES ASSUME s \in DOMAIN byId PROVE byId'[s] = Matched(live[s], recorded'[s])
    BY Zenon
  <2>1. byId' = [byId EXCEPT ![s] = RecordUpdate(@, {pair})]
    BY Zenon DEF OnRecord
  <2>2. byId'[s] = RecordUpdate(byId[s], {pair})
    BY <2>1, SMT
  <2>3. byId[s] = Matched(live[s], recorded[s])
    BY Zenon DEF SpanInv
  <2>4. RecordUpdate(Matched(live[s], recorded[s]), {pair})
          = Matched(live[s], recorded[s] \cup {pair})
    BY MatchedMore, Zenon
  <2>5. QED
    BY <1>3, <2>2, <2>3, <2>4, Zenon
<1>6. DOMAIN byId' = {x \in Ids : live'[x] \in DOMAIN byCs}
  BY <1>1, <1>4, Zenon DEF SpanInv
<1>7. \A x \in DOMAIN byId' : byId'[x] = Matched(live'[x], recorded'[x])
  <2>1. \A x \in DOMAIN byId : x \in Ids
    BY Zenon DEF SpanInv
  <2>2. QED
    BY <1>1, <1>3, <1>4, <1>5, <2>1, Zenon DEF SpanInv
<1>8. QED
  BY <1>1, <1>2, <1>3, <1>6, <1>7, SpanStep, Zenon DEF SpanInv

LEMMA CloseStep ==
  ASSUME FilterInv, SpanInv, NEW s \in Ids, OnClose(s)
  PROVE  SpanInv'
<1>1. /\ live[s] # NoSpan /\ UNCHANGED filterVars
      /\ live' = [live EXCEPT ![s] = NoSpan] /\ recorded' = [recorded EXCEPT ![s] = {}]
      /\ byId' = [x \in DOMAIN byId \ {s} |-> byId[x]]
  BY Zenon DEF OnClose
<1>2. attached /\ live \in [Ids -> Sites \cup {NoSpan}] /\ DOMAIN recorded = Ids
  BY <1>1, Zenon DEF SpanInv
<1>3. /\ live'[s] = NoSpan /\ DOMAIN recorded' = Ids
      /\ \A x \in Ids : x # s => live'[x] = live[x] /\ recorded'[x] = recorded[x]
      /\ live' \in [Ids -> Sites \cup {NoSpan}]
  BY <1>1, <1>2, SMT
<1>4. NoSpan \notin DOMAIN byCs
  BY <1>2, EnvAssumption, Zenon DEF FilterInv, Registered, Cared
<1>5. DOMAIN byId' = DOMAIN byId \ {s} /\ \A x \in DOMAIN byId \ {s} : byId'[x] = byId[x]
  BY <1>1, Zenon
<1>6. DOMAIN byId' = {x \in Ids : live'[x] \in DOMAIN byCs}
  BY <1>3, <1>4, <1>5, Zenon DEF SpanInv
<1>7. \A x \in DOMAIN byId' : byId'[x] = Matched(live'[x], recorded'[x])
  BY <1>3, <1>5, Zenon DEF SpanInv
<1>8. \A x \in Ids : live'[x] # NoSpan => live'[x].kind = "span"
  BY <1>3, Zenon DEF SpanInv
<1>9. QED
  BY <1>1, <1>2, <1>3, <1>6, <1>7, <1>8, SpanStep, Zenon

-----------------------------------------------------------------------------
(* Threads                                                                 *)

EntryRecs == [span : Ids, level : 0 .. Trace]

\* The entries of spans in B, how many of them there are up to one, ...
Marked(e, B) == {i \in DOMAIN e : e[i].span \in B}
Upto(C, i) == Cardinality({j \in C : j <= i})

\* ... and that a scope has the levels of such entries in their order.
Aligned(e, sc, C) ==
  /\ \A i \in C : Upto(C, i) \in DOMAIN sc /\ sc[Upto(C, i)] = e[i].level
  /\ \A k \in DOMAIN sc : \E i \in C : Upto(C, i) = k

ThreadOK(e, sc, o, B, max) ==
  /\ Len(sc) = Cardinality(Marked(e, B))
  /\ \A i \in DOMAIN e : e[i].level <= max /\ (e[i].span \notin B => e[i].level = 0)
  /\ o => Aligned(e, sc, Marked(e, B))

LEMMA MarkedFinite ==
  ASSUME NEW e \in Seq(EntryRecs), NEW B
  PROVE  /\ Marked(e, B) \in SUBSET (1 .. Len(e)) /\ IsFiniteSet(Marked(e, B))
         /\ Cardinality(Marked(e, B)) \in Nat
<1>1. DOMAIN e = 1 .. Len(e) /\ Len(e) \in Int /\ 1 \in Int
  BY SMT
<1>2. Marked(e, B) \in SUBSET (1 .. Len(e))
  BY <1>1, Zenon DEF Marked
<1>3. IsFiniteSet(1 .. Len(e))
  BY <1>1, FS_Interval, Zenon
<1>4. IsFiniteSet(Marked(e, B))
  BY <1>2, <1>3, FS_Subset, Zenon
<1>5. QED
  BY <1>2, <1>4, FS_CardinalityType, Zenon

\* A thread that enters a span.
LEMMA PushOK ==
  ASSUME NEW e \in Seq(EntryRecs), NEW sc \in Seq(0 .. Trace), NEW o, NEW B, NEW max,
         ThreadOK(e, sc, o, B, max), NEW x \in EntryRecs, x.level <= max,
         x.span \notin B => x.level = 0,
         NEW sc2, sc2 = IF x.span \in B THEN Append(sc, x.level) ELSE sc
  PROVE  ThreadOK(Append(e, x), sc2, o, B, max)
<1> DEFINE f == Append(e, x)
           n == Len(e) + 1
           C == Marked(e, B)
<1>1. /\ C \in SUBSET (1 .. Len(e)) /\ IsFiniteSet(C) /\ Cardinality(C) \in Nat
  BY MarkedFinite, Zenon
<1>2. /\ Len(e) \in Nat /\ n \notin DOMAIN e /\ DOMAIN f = DOMAIN e \cup {n} /\ f[n] = x
      /\ DOMAIN e = 1 .. Len(e) /\ \A i \in DOMAIN e : f[i] = e[i]
  BY SMT
<1>3. \A i \in C : i \in DOMAIN e /\ i < n /\ f[i] = e[i]
  BY <1>1, <1>2, SMT
<1>4. Marked(f, B) = IF x.span \in B THEN C \cup {n} ELSE C
  BY <1>2, Zenon DEF Marked
<1>5. n \notin C
  BY <1>2, <1>3, Zenon
<1>6. Len(sc) = Cardinality(C) /\ (o => Aligned(e, sc, C))
  BY Zenon DEF ThreadOK
<1>7. \A i \in DOMAIN f : f[i].level <= max /\ (f[i].span \notin B => f[i].level = 0)
  BY <1>2, Zenon DEF ThreadOK
<1> HIDE DEF f, n, C
<1>8. CASE x.span \notin B
  <2>1. Marked(f, B) = C /\ sc2 = sc
    BY <1>4, <1>8, Zenon
  <2>2. Aligned(e, sc, C) => Aligned(f, sc, C)
    BY <1>3, Zenon DEF Aligned
  <2>3. QED
    BY <1>6, <1>7, <2>1, <2>2, Zenon DEF ThreadOK, f
<1>9. CASE x.span \in B
  <2> DEFINE E == C \cup {n}
  <2>1. Marked(f, B) = E /\ sc2 = Append(sc, x.level)
    BY <1>4, <1>9, Zenon
  <2>2. Cardinality(E) = Cardinality(C) + 1
    BY <1>1, <1>5, FS_AddElement, Zenon
  <2>3. /\ Len(sc2) = Len(sc) + 1 /\ sc2[Len(sc) + 1] = x.level /\ Len(sc) \in Nat
        /\ DOMAIN sc2 = DOMAIN sc \cup {Len(sc) + 1}
        /\ \A k \in DOMAIN sc : sc2[k] = sc[k]
    BY <2>1, SMT DEF EntryRecs
  <2>4. \A i \in C : ~(n <= i) /\ i <= n
    BY <1>1, <1>2, SMT DEF n
  <2>5. \A i \in C : Upto(E, i) = Upto(C, i)
    <3>1. ASSUME NEW i \in C PROVE {j \in E : j <= i} = {j \in C : j <= i}
      BY <2>4, Zenon
    <3>2. QED
      BY <3>1, Zenon DEF Upto
  <2>6. Upto(E, n) = Len(sc) + 1
    <3>1. n <= n
      BY <1>2, SMT DEF n
    <3>2. {j \in E : j <= n} = E
      BY <2>4, <3>1, Zenon
    <3>3. QED
      BY <1>6, <2>2, <3>2, Zenon DEF Upto
  <2> HIDE DEF E
  <2>7. \A i : i \in E <=> i \in C \/ i = n
    BY Zenon DEF E
  <2>8. ASSUME Aligned(e, sc, C) PROVE Aligned(f, sc2, E)
    <3>1. ASSUME NEW i \in E
          PROVE  Upto(E, i) \in DOMAIN sc2 /\ sc2[Upto(E, i)] = f[i].level
      <4>1. CASE i = n
        BY <1>2, <2>3, <2>6, <4>1, Zenon DEF f, n
      <4>2. CASE i \in C
        BY <1>3, <2>3, <2>5, <2>8, <4>2, Zenon DEF Aligned
      <4>3. QED
        BY <2>7, <4>1, <4>2, Zenon
    <3>2. ASSUME NEW k \in DOMAIN sc2 PROVE \E i \in E : Upto(E, i) = k
      <4>1. CASE k = Len(sc) + 1
        BY <2>6, <2>7, <4>1, Zenon
      <4>2. CASE k \in DOMAIN sc
        <5>1. PICK i \in C : Upto(C, i) = k
          BY <2>8, <4>2, Zenon DEF Aligned
        <5>2. QED
          BY <2>5, <2>7, <5>1, Zenon
      <4>3. QED
        BY <2>3, <4>1, <4>2, Zenon
    <3>3. QED
      BY <3>1, <3>2, Zenon DEF Aligned
  <2>9. QED
    BY <1>6, <1>7, <2>1, <2>2, <2>3, <2>8, Zenon DEF ThreadOK, f
<1>10. QED
  BY <1>8, <1>9, Zenon

\* The entries without the one at i.
Dropped(e, i) == [j \in 1 .. Len(e) - 1 |-> e[IF j < i THEN j ELSE j + 1]]

LEMMA DroppedMeans ==
  ASSUME NEW e \in Seq(EntryRecs), NEW i \in DOMAIN e
  PROVE  /\ Dropped(e, i) \in Seq(EntryRecs) /\ Len(Dropped(e, i)) = Len(e) - 1
         /\ DOMAIN Dropped(e, i) = 1 .. Len(e) - 1
         /\ \A j \in 1 .. Len(e) - 1 : Dropped(e, i)[j] = e[IF j < i THEN j ELSE j + 1]
<1>1. \A j \in 1 .. Len(e) - 1 : e[IF j < i THEN j ELSE j + 1] \in EntryRecs
  BY SMT
<1>2. Len(e) - 1 \in Nat
  BY SMT
<1>3. QED
  BY <1>1, <1>2, SMT DEF Dropped

LEMMA MarkedDropped ==
  ASSUME NEW e \in Seq(EntryRecs), NEW i \in DOMAIN e, NEW B
  PROVE  Cardinality(Marked(Dropped(e, i), B)) = Cardinality(Marked(e, B) \ {i})
<1> DEFINE r == Dropped(e, i)
           S == Marked(r, B)
           T == Marked(e, B) \ {i}
           G(j) == IF j < i THEN j ELSE j + 1
           g == [j \in S |-> G(j)]
<1>0. /\ DOMAIN r = 1 .. Len(e) - 1 /\ \A j \in 1 .. Len(e) - 1 : r[j] = e[G(j)]
      /\ r \in Seq(EntryRecs)
  BY DroppedMeans, Zenon
<1> HIDE DEF r
<1>1. DOMAIN e = 1 .. Len(e) /\ Len(e) \in Nat /\ i \in 1 .. Len(e)
  BY SMT
<1>2. IsFiniteSet(S)
  BY <1>0, MarkedFinite, Zenon
<1>3. /\ \A j \in 1 .. Len(e) - 1 : G(j) \in DOMAIN e /\ G(j) # i
      /\ \A j, k \in 1 .. Len(e) - 1 : G(j) = G(k) => j = k
      /\ \A k \in DOMAIN e : k # i => \E j \in 1 .. Len(e) - 1 : G(j) = k
  <2>1. /\ \A j \in 1 .. Len(e) - 1 : G(j) \in DOMAIN e /\ G(j) # i
        /\ \A j, k \in 1 .. Len(e) - 1 : G(j) = G(k) => j = k
    BY <1>1, SMT
  <2>2. ASSUME NEW k \in DOMAIN e, k # i PROVE \E j \in 1 .. Len(e) - 1 : G(j) = k
    <3>1. CASE k < i
      <4>1. k \in 1 .. Len(e) - 1 /\ G(k) = k
        BY <1>1, <3>1, SMT
      <4>2. QED
        BY <4>1, Zenon
    <3>2. CASE ~(k < i)
      <4>1. k - 1 \in 1 .. Len(e) - 1 /\ G(k - 1) = k
        BY <1>1, <2>2, <3>2, SMT
      <4>2. QED
        BY <4>1, Zenon
    <3>3. QED
      BY <3>1, <3>2, Zenon
  <2>3. QED
    BY <2>1, <2>2, Zenon
<1> HIDE DEF G
<1>4. /\ \A j : j \in S <=> j \in 1 .. Len(e) - 1 /\ e[G(j)].span \in B
      /\ \A k : k \in T <=> k \in DOMAIN e /\ k # i /\ e[k].span \in B
  BY <1>0, Zenon DEF Marked
<1> HIDE DEF S, T
<1>5. g \in [S -> T]
  BY <1>3, <1>4, Zenon
<1>6. IsInjective(g)
  BY <1>3, <1>4, Zenon DEF IsInjective
<1>7. ASSUME NEW k \in T PROVE \E j \in S : g[j] = k
  <2>1. PICK j \in 1 .. Len(e) - 1 : G(j) = k
    BY <1>3, <1>4, Zenon
  <2>2. j \in S
    BY <1>4, <2>1, Zenon
  <2>3. QED
    BY <2>1, <2>2, Zenon
<1> HIDE DEF g
<1>8. g \in Bijection(S, T)
  BY <1>5, <1>6, <1>7, Zenon DEF Bijection, Injection, Surjection
<1>9. ExistsBijection(S, T)
  BY <1>8, Zenon DEF ExistsBijection
<1>10. QED
  BY <1>2, <1>9, FS_Bijection, Zenon DEF S, T, r

\* Vec::pop.
Popped(S, sc, top) ==
  /\ Len(top) = Len(sc) - 1 /\ top \in Seq(S) /\ DOMAIN top = 1 .. Len(sc) - 1
  /\ \A k \in DOMAIN top : k \in DOMAIN sc /\ top[k] = sc[k]

LEMMA WithoutLast ==
  ASSUME NEW S, NEW sc \in Seq(S), sc # <<>>
  PROVE  Popped(S, sc, SubSeq(sc, 1, Len(sc) - 1))
<1>1. PICK n \in Nat : n = Len(sc) - 1
  BY SMT
<1> DEFINE top == SubSeq(sc, 1, n)
<1>2. /\ Len(top) = n /\ top \in Seq(S) /\ DOMAIN top = 1 .. n
      /\ \A k \in 1 .. n : k \in DOMAIN sc /\ top[k] = sc[k]
  <2>1. \A k \in 1 .. n : k \in DOMAIN sc /\ sc[k] \in S
    BY <1>1, SMT
  <2>2. top = [k \in 1 .. n |-> sc[k]]
    BY <1>1, SMT
  <2>3. QED
    BY <2>1, <2>2, SMT
<1> HIDE DEF top
<1>3. QED
  BY <1>1, <1>2, Zenon DEF Popped, top

LEMMA BelowLast == \A n \in Nat : \A j \in 1 .. n : j # n => ~(n <= j)
  BY SMT

\* The scope of a thread that leaves the entry at i, and whether it was in order.
PoppedAt(e, i, sc, B) ==
  IF e[i].span \in B /\ sc # <<>> THEN SubSeq(sc, 1, Len(sc) - 1) ELSE sc
OrderAt(e, i, o) == Dropped(e, i) = <<>> \/ (o /\ i = Len(e))

ScopeOK(e, sc, o, B, max) == ThreadOK(e, sc, o, B, max) /\ sc \in Seq(0 .. Trace)

\* A thread that exits a span.
LEMMA PopOK ==
  ASSUME NEW e \in Seq(EntryRecs), NEW sc \in Seq(0 .. Trace), NEW o, NEW B, NEW max,
         ThreadOK(e, sc, o, B, max), NEW i \in DOMAIN e
  PROVE  ScopeOK(Dropped(e, i), PoppedAt(e, i, sc, B), OrderAt(e, i, o), B, max)
<1>0. PICK sc2, o2 : sc2 = PoppedAt(e, i, sc, B) /\ o2 = OrderAt(e, i, o)
  BY Zenon
<1> DEFINE r == Dropped(e, i)
           C == Marked(e, B)
           E == Marked(r, B)
<1>1. /\ C \in SUBSET (1 .. Len(e)) /\ IsFiniteSet(C) /\ Cardinality(C) \in Nat
  BY MarkedFinite, Zenon
<1>2. /\ r \in Seq(EntryRecs) /\ Len(r) = Len(e) - 1 /\ DOMAIN r = 1 .. Len(e) - 1
      /\ \A j \in 1 .. Len(e) - 1 : r[j] = e[IF j < i THEN j ELSE j + 1]
  BY DroppedMeans, Zenon
<1>3. /\ DOMAIN e = 1 .. Len(e) /\ Len(e) \in Nat /\ i \in 1 .. Len(e)
      /\ \A j \in 1 .. Len(e) - 1 : (IF j < i THEN j ELSE j + 1) \in DOMAIN e
  BY SMT
<1>4. Len(sc) = Cardinality(C) /\ (o => Aligned(e, sc, C))
  BY Zenon DEF ThreadOK
<1>5. Cardinality(E) = IF e[i].span \in B THEN Cardinality(C) - 1 ELSE Cardinality(C)
  <2>1. i \in C <=> e[i].span \in B
    BY Zenon DEF Marked
  <2>2. Cardinality(E) = Cardinality(C \ {i})
    BY MarkedDropped, Zenon
  <2>3. QED
    BY <1>1, <2>1, <2>2, FS_RemoveElement, Zenon
<1>6. \A j \in DOMAIN r : r[j].level <= max /\ (r[j].span \notin B => r[j].level = 0)
  BY <1>2, <1>3, Zenon DEF ThreadOK
<1>7. i \in C <=> e[i].span \in B
  BY Zenon DEF Marked
<1>8. IsFiniteSet(E) /\ Cardinality(E) \in Nat
  BY <1>2, MarkedFinite, Zenon
<1> HIDE DEF r
<1>9. i = Len(e) => E = C \ {i} /\ \A j \in E : r[j] = e[j]
  <2> SUFFICES ASSUME i = Len(e) PROVE E = C \ {i} /\ \A j \in E : r[j] = e[j]
    BY Zenon
  <2>1. /\ \A j \in DOMAIN r : r[j] = e[j]
        /\ \A j : j \in DOMAIN r <=> j \in DOMAIN e /\ j # i
    BY <1>2, <1>3, SMT
  <2>2. /\ \A j : j \in E <=> j \in DOMAIN r /\ r[j].span \in B
        /\ \A j : j \in C <=> j \in DOMAIN e /\ e[j].span \in B
    BY Zenon DEF Marked
  <2> HIDE DEF C, E
  <2>3. \A j : j \in E <=> j \in C /\ j # i
    BY <2>1, <2>2, Zenon
  <2>4. E = C \ {i}
    BY <2>3, Zenon
  <2>5. QED
    BY <2>1, <2>2, <2>4, Zenon
<1> HIDE DEF C, E
<1>10. /\ Len(sc2) = Cardinality(E) /\ sc2 \in Seq(0 .. Trace)
       /\ \A k \in DOMAIN sc2 : k \in DOMAIN sc /\ sc2[k] = sc[k]
       /\ DOMAIN sc2 = 1 .. Cardinality(E)
  <2>1. CASE e[i].span \in B
    <3>1. Cardinality(C) # 0
      BY <1>5, <1>8, <2>1, SMT
    <3>2. sc # <<>>
      BY <1>4, <3>1, SMT
    <3>3. sc2 = SubSeq(sc, 1, Len(sc) - 1)
      BY <1>0, <2>1, <3>2, Zenon DEF PoppedAt
    <3>4. Len(sc) - 1 \in Nat /\ Cardinality(E) = Len(sc) - 1
      BY <1>4, <1>5, <2>1, <3>2, SMT
    <3>5. Popped(0 .. Trace, sc, sc2)
      BY <3>2, <3>3, WithoutLast, Zenon
    <3>6. QED
      BY <3>4, <3>5, Zenon DEF Popped
  <2>2. CASE e[i].span \notin B
    <3>1. sc2 = sc
      BY <1>0, <2>2, Zenon DEF PoppedAt
    <3>2. QED
      BY <1>4, <1>5, <2>2, <3>1, SMT
  <2>3. QED
    BY <2>1, <2>2, Zenon
<1>11. ASSUME o2 PROVE Aligned(r, sc2, E)
  <2>1. CASE r = <<>>
    <3>1. E = {}
      BY <2>1, SMT DEF E, Marked
    <3>2. DOMAIN sc2 = {}
      <4>1. Cardinality(E) = 0
        BY <3>1, FS_EmptySet, Zenon
      <4>2. QED
        BY <1>10, <4>1, SMT
    <3>3. QED
      BY <3>1, <3>2, Zenon DEF Aligned
  <2>2. CASE o /\ i = Len(e)
    <3>1. E = C \ {i} /\ (\A j \in E : r[j] = e[j]) /\ Aligned(e, sc, C)
      BY <1>4, <1>9, <2>2, Zenon
    <3>2. \A j \in E : j \in C /\ ~(i <= j)
      <4>1. \A j \in E : j \in C /\ j # i /\ j \in 1 .. Len(e)
        BY <1>1, <3>1, Zenon
      <4>2. \A j \in 1 .. Len(e) : j # i => ~(i <= j)
        BY <1>3, <2>2, BelowLast, Zenon
      <4>3. QED
        BY <4>1, <4>2, Zenon
    <3>3. ASSUME NEW j \in E PROVE Upto(E, j) = Upto(C, j)
      <4>1. {k \in E : k <= j} = {k \in C : k <= j}
        BY <3>1, <3>2, Zenon
      <4>2. QED
        BY <4>1, Zenon DEF Upto
    <3>4. ASSUME NEW j \in E
          PROVE  Upto(E, j) \in DOMAIN sc2 /\ sc2[Upto(E, j)] = r[j].level
      <4>1. Upto(E, j) \in DOMAIN sc /\ sc[Upto(E, j)] = e[j].level
        BY <3>1, <3>2, <3>3, Zenon DEF Aligned
      <4>2. Upto(E, j) <= Cardinality(E)
        <5>1. {k \in E : k <= j} \in SUBSET E
          BY Zenon
        <5>2. QED
          BY <1>8, <5>1, FS_Subset, Zenon DEF Upto
      <4>3. Upto(E, j) \in DOMAIN sc2
        BY <1>8, <1>10, <4>1, <4>2, SMT
      <4>4. QED
        BY <1>10, <3>1, <4>1, <4>3, Zenon
    <3>5. ASSUME NEW k \in DOMAIN sc2 PROVE \E j \in E : Upto(E, j) = k
      <4>1. k \in DOMAIN sc /\ k <= Cardinality(E)
        BY <1>8, <1>10, SMT
      <4>2. PICK j \in C : Upto(C, j) = k
        BY <3>1, <4>1, Zenon DEF Aligned
      <4>3. j # i
        <5>1. SUFFICES ASSUME j = i PROVE FALSE
          BY Zenon
        <5>2. \A l \in C : l <= i
          BY <1>1, <1>3, <2>2, SMT
        <5>3. {l \in C : l <= i} = C
          BY <5>2, Zenon
        <5>4. k = Cardinality(C) /\ i \in C
          BY <4>2, <5>1, <5>3, Zenon DEF Upto
        <5>5. Cardinality(E) = Cardinality(C) - 1
          BY <1>5, <1>7, <5>4, Zenon
        <5>6. QED
          BY <1>1, <4>1, <5>4, <5>5, SMT
      <4>4. j \in E
        BY <3>1, <4>2, <4>3, Zenon
      <4>5. QED
        BY <3>3, <4>2, <4>4, Zenon
    <3>6. QED
      BY <3>4, <3>5, Zenon DEF Aligned
  <2>3. QED
    BY <1>0, <1>11, <2>1, <2>2, Zenon DEF r, OrderAt
<1>12. QED
  BY <1>0, <1>6, <1>10, <1>11, Zenon DEF ScopeOK, ThreadOK, E, r

ThreadInv ==
  /\ scope \in [Threads -> Seq(0 .. Trace)] /\ entries \in [Threads -> Seq(EntryRecs)]
  /\ inOrder \in [Threads -> BOOLEAN]
  /\ \A t \in Threads :
       /\ \A i \in DOMAIN entries[t] : live[entries[t][i].span] # NoSpan
       /\ ThreadOK(entries[t], scope[t], inOrder[t], DOMAIN byId, dynamics.max)

\* A thread without entries.
LEMMA OutsideOK ==
  ASSUME NEW o, NEW B, NEW max
  PROVE  ThreadOK(<<>>, <<>>, o, B, max)
<1> DEFINE e == << >>
<1>1. DOMAIN e = {} /\ Len(e) = 0
  BY SMT
<1> HIDE DEF e
<1>2. Marked(e, B) = {}
  BY <1>1, Zenon DEF Marked
<1>3. Cardinality({}) = 0
  BY FS_EmptySet, Zenon
<1>4. Aligned(e, e, {})
  BY <1>1, Zenon DEF Aligned
<1>5. ThreadOK(e, e, o, B, max)
  BY <1>1, <1>2, <1>3, <1>4, Zenon DEF ThreadOK
<1>6. QED
  BY <1>5, Zenon DEF e

LEMMA ThreadInit ==
  ASSUME Init
  PROVE  ThreadInv
<1>1. /\ scope = [t \in Threads |-> <<>>] /\ entries = [t \in Threads |-> <<>>]
      /\ inOrder = [t \in Threads |-> TRUE]
  BY Zenon DEF Init
<1>2. /\ scope \in [Threads -> Seq(0 .. Trace)] /\ entries \in [Threads -> Seq(EntryRecs)]
  BY <1>1, SMT
<1>3. inOrder \in [Threads -> BOOLEAN]
  BY <1>1, Zenon
<1>4. \A t \in Threads : scope[t] = <<>> /\ entries[t] = <<>>
  BY <1>1, Zenon
<1>5. \A t \in Threads : DOMAIN entries[t] = {}
  BY <1>4, SMT
<1>6. \A t \in Threads :
        ThreadOK(entries[t], scope[t], inOrder[t], DOMAIN byId, dynamics.max)
  BY <1>4, OutsideOK, Zenon
<1>7. QED
  BY <1>2, <1>3, <1>5, <1>6, Zenon DEF ThreadInv

LEMMA EntrySpans ==
  ASSUME ThreadInv, NEW t \in Threads, NEW i \in DOMAIN entries[t]
  PROVE  entries[t][i].span \in Ids /\ live[entries[t][i].span] # NoSpan
<1>1. entries[t] \in Seq(EntryRecs)
  BY Zenon DEF ThreadInv
<1>2. entries[t][i] \in EntryRecs
  BY <1>1, SMT
<1>3. entries[t][i].span \in Ids
  BY <1>2, Zenon DEF EntryRecs
<1>4. QED
  BY <1>3, Zenon DEF ThreadInv

\* While the filter is being set up no thread is in a span.
LEMMA ThreadSetup ==
  ASSUME SpanInv, ThreadInv, ~attached, UNCHANGED <<spanVars, threadVars>>
  PROVE  ThreadInv'
<1>1. /\ byId' = byId /\ live' = live
      /\ scope' = scope /\ entries' = entries /\ inOrder' = inOrder
  BY Zenon DEF spanVars, threadVars
<1>2. ASSUME NEW t \in Threads
      PROVE  ThreadOK(entries[t], scope[t], inOrder[t], DOMAIN byId, dynamics'.max)
  <2>1. \A i \in DOMAIN entries[t] : FALSE
    BY EntrySpans, Zenon DEF SpanInv
  <2>2. ThreadOK(entries[t], scope[t], inOrder[t], DOMAIN byId, dynamics.max)
    BY Zenon DEF ThreadInv
  <2>3. QED
    BY <2>1, <2>2, Zenon DEF ThreadOK
<1>3. \A t \in Threads :
        ThreadOK(entries[t], scope[t], inOrder[t], DOMAIN byId, dynamics.max)'
  BY <1>1, <1>2, Zenon
<1>4. QED
  BY <1>1, <1>3, Zenon DEF ThreadInv

\* A span that no thread is in gets a matcher, or loses it.
LEMMA ThreadAside ==
  ASSUME ThreadInv, UNCHANGED <<filterVars, threadVars>>,
         \A t \in Threads : \A i \in DOMAIN entries[t] :
           LET s == entries[t][i].span
           IN  live'[s] # NoSpan /\ (s \in DOMAIN byId' <=> s \in DOMAIN byId)
  PROVE  ThreadInv'
<1>1. scope' = scope /\ entries' = entries /\ inOrder' = inOrder /\ dynamics' = dynamics
  BY Zenon DEF filterVars, tables, threadVars
<1>2. ASSUME NEW t \in Threads
      PROVE  ThreadOK(entries[t], scope[t], inOrder[t], DOMAIN byId', dynamics.max)
  <2>1. \A i \in DOMAIN entries[t] :
          entries[t][i].span \in DOMAIN byId' <=> entries[t][i].span \in DOMAIN byId
    BY Zenon
  <2>2. Marked(entries[t], DOMAIN byId') = Marked(entries[t], DOMAIN byId)
    BY <2>1, Zenon DEF Marked
  <2>3. ThreadOK(entries[t], scope[t], inOrder[t], DOMAIN byId, dynamics.max)
    BY Zenon DEF ThreadInv
  <2>4. QED
    BY <2>1, <2>2, <2>3, Zenon DEF ThreadOK
<1>3. \A t \in Threads :
        ThreadOK(entries[t], scope[t], inOrder[t], DOMAIN byId, dynamics.max)'
  BY <1>1, <1>2, Zenon
<1>4. QED
  BY <1>1, <1>3, Zenon DEF ThreadInv

LEMMA NewSpanAside ==
  ASSUME FilterInv, SpanInv, SpanInv', ThreadInv, NEW t \in Threads, NEW m \in Sites,
         NEW s \in Ids, NEW pairs, OnNewSpan(t, m, s, pairs)
  PROVE  ThreadInv'
<1>1. /\ live[s] = NoSpan /\ UNCHANGED <<filterVars, threadVars>>
      /\ live' = [live EXCEPT ![s] = m] /\ byCs' = byCs
  BY Zenon DEF OnNewSpan, filterVars
<1>2. live \in [Ids -> Sites \cup {NoSpan}]
  BY Zenon DEF SpanInv
<1>3. \A x \in Ids : x # s => live'[x] = live[x]
  BY <1>1, <1>2, SMT
<1>4. \A x \in Ids : x # s => (x \in DOMAIN byId' <=> x \in DOMAIN byId)
  BY <1>1, <1>3, Zenon DEF SpanInv
<1>5. ASSUME NEW u \in Threads, NEW i \in DOMAIN entries[u]
      PROVE  LET x == entries[u][i].span
             IN  live'[x] # NoSpan /\ (x \in DOMAIN byId' <=> x \in DOMAIN byId)
  <2>1. PICK x \in Ids : x = entries[u][i].span /\ live[x] # NoSpan
    BY EntrySpans, Zenon
  <2>2. x # s
    BY <1>1, <2>1, Zenon
  <2>3. live'[x] = live[x] /\ (x \in DOMAIN byId' <=> x \in DOMAIN byId)
    BY <1>3, <1>4, <2>2, Zenon
  <2>4. QED
    BY <2>1, <2>3, Zenon
<1>6. QED
  BY <1>1, <1>5, ThreadAside, Zenon

LEMMA RecordAside ==
  ASSUME SpanInv, SpanInv', ThreadInv, NEW s \in Ids, NEW pair, OnRecord(s, pair)
  PROVE  ThreadInv'
<1>1. live' = live /\ byCs' = byCs /\ UNCHANGED <<filterVars, threadVars>>
  BY Zenon DEF OnRecord, filterVars
<1>2. DOMAIN byId' = DOMAIN byId
  BY <1>1, Zenon DEF SpanInv
<1>3. QED
  BY <1>1, <1>2, EntrySpans, ThreadAside, Zenon

LEMMA CloseAside ==
  ASSUME SpanInv, SpanInv', ThreadInv, NEW s \in Ids, OnClose(s)
  PROVE  ThreadInv'
<1>1. /\ UNCHANGED <<filterVars, threadVars>> /\ byCs' = byCs
      /\ live' = [live EXCEPT ![s] = NoSpan]
      /\ \A t \in Threads : \A i \in DOMAIN entries[t] : entries[t][i].span # s
  BY Zenon DEF OnClose, filterVars
<1>2. live \in [Ids -> Sites \cup {NoSpan}]
  BY Zenon DEF SpanInv
<1>3. \A x \in Ids : x # s => live'[x] = live[x]
  BY <1>1, <1>2, SMT
<1>4. \A x \in Ids : x # s => (x \in DOMAIN byId' <=> x \in DOMAIN byId)
  BY <1>1, <1>3, Zenon DEF SpanInv
<1>5. ASSUME NEW u \in Threads, NEW i \in DOMAIN entries[u]
      PROVE  LET x == entries[u][i].span
             IN  live'[x] # NoSpan /\ (x \in DOMAIN byId' <=> x \in DOMAIN byId)
  <2>1. PICK x \in Ids : x = entries[u][i].span /\ live[x] # NoSpan
    BY EntrySpans, Zenon
  <2>2. x # s
    BY <1>1, <2>1, Zenon
  <2>3. live'[x] = live[x] /\ (x \in DOMAIN byId' <=> x \in DOMAIN byId)
    BY <1>3, <1>4, <2>2, Zenon
  <2>4. QED
    BY <2>1, <2>3, Zenon
<1>6. QED
  BY <1>1, <1>5, ThreadAside, Zenon

\* A thread of which the entries and the scope change; the others are left alone.
Only(f, g, t, x) == \E v : v = x /\ g = [f EXCEPT ![t] = v]

OnlyAt(S, f, g, t, x) ==
  g \in [Threads -> S] /\ g[t] = x /\ \A u \in Threads : u # t => g[u] = f[u]

LEMMA OnlyMeans ==
  ASSUME NEW S, NEW f \in [Threads -> S], NEW t \in Threads, NEW x \in S, NEW g, Only(f, g, t, x)
  PROVE  OnlyAt(S, f, g, t, x)
<1>1. g = [f EXCEPT ![t] = x]
  BY Zenon DEF Only
<1>2. g \in [Threads -> S] /\ g[t] = x /\ \A u \in Threads : u # t => g[u] = f[u]
  BY <1>1, SMT
<1>3. QED
  BY <1>2, Zenon DEF OnlyAt

LEMMA ThreadMoves ==
  ASSUME ThreadInv, UNCHANGED <<filterVars, spanVars>>, NEW t \in Threads,
         NEW e \in Seq(EntryRecs), NEW sc \in Seq(0 .. Trace), NEW o \in BOOLEAN,
         Only(entries, entries', t, e), Only(scope, scope', t, sc),
         Only(inOrder, inOrder', t, o),
         \A i \in DOMAIN e : live[e[i].span] # NoSpan,
         ThreadOK(e, sc, o, DOMAIN byId, dynamics.max)
  PROVE  ThreadInv'
<1>1. live' = live /\ byId' = byId /\ dynamics' = dynamics
  BY Zenon DEF filterVars, spanVars, tables
<1>2. OnlyAt(Seq(EntryRecs), entries, entries', t, e)
  BY OnlyMeans, Zenon DEF ThreadInv
<1>3. OnlyAt(Seq(0 .. Trace), scope, scope', t, sc)
  BY OnlyMeans, Zenon DEF ThreadInv
<1>4. OnlyAt(BOOLEAN, inOrder, inOrder', t, o)
  BY OnlyMeans, Zenon DEF ThreadInv
<1>5. ASSUME NEW u \in Threads
      PROVE  /\ \A i \in DOMAIN entries'[u] : live'[entries'[u][i].span] # NoSpan
             /\ ThreadOK(entries'[u], scope'[u], inOrder'[u], DOMAIN byId', dynamics'.max)
  <2>1. CASE u = t
    <3>1. entries'[u] = e /\ scope'[u] = sc /\ inOrder'[u] = o
      BY <1>2, <1>3, <1>4, <2>1, Zenon DEF OnlyAt
    <3>2. QED
      BY <1>1, <3>1, Zenon
  <2>2. CASE u # t
    <3>1. entries'[u] = entries[u] /\ scope'[u] = scope[u] /\ inOrder'[u] = inOrder[u]
      BY <1>2, <1>3, <1>4, <2>2, Zenon DEF OnlyAt
    <3>2. QED
      BY <1>1, <3>1, Zenon DEF ThreadInv
  <2>3. QED
    BY <2>1, <2>2, Zenon
<1>6. QED
  BY <1>2, <1>3, <1>4, <1>5, Zenon DEF ThreadInv, OnlyAt

LEMMA OnlySame ==
  ASSUME NEW S, NEW f \in [Threads -> S], NEW t \in Threads
  PROVE  Only(f, f, t, f[t])
<1>1. f = [f EXCEPT ![t] = f[t]]
  BY SMT
<1>2. QED
  BY <1>1, Zenon DEF Only

LEMMA EnterStep ==
  ASSUME FilterInv, SpanInv, ThreadInv, NEW t \in Threads, NEW s \in Ids, OnEnter(t, s)
  PROVE  ThreadInv'
<1> DEFINE x == [span |-> s, level |-> MatchedLevel(s)]
           e == Append(entries[t], x)
           sc == IF s \in DOMAIN byId THEN Append(scope[t], x.level) ELSE scope[t]
<1>1. /\ live[s] # NoSpan /\ UNCHANGED <<filterVars, spanVars>> /\ inOrder' = inOrder
      /\ entries' = [entries EXCEPT ![t] = e]
      /\ scope' = IF s \in DOMAIN byId
                  THEN [scope EXCEPT ![t] = Append(@, LevelOf(byId[s]))] ELSE scope
  BY Zenon DEF OnEnter
<1>2. /\ entries[t] \in Seq(EntryRecs) /\ scope[t] \in Seq(0 .. Trace) /\ inOrder[t] \in BOOLEAN
      /\ ThreadOK(entries[t], scope[t], inOrder[t], DOMAIN byId, dynamics.max)
  BY Zenon DEF ThreadInv
<1>3. /\ MatchedLevel(s) \in 0 .. Trace /\ MatchedLevel(s) <= dynamics.max
      /\ s \in DOMAIN byId => LevelOf(byId[s]) = MatchedLevel(s)
      /\ s \notin DOMAIN byId => MatchedLevel(s) = 0
  BY <1>1, EnteredLevel, Zenon
<1>4. x \in EntryRecs /\ x.span = s /\ x.level = MatchedLevel(s)
  BY <1>3, Zenon DEF EntryRecs
<1> HIDE DEF x
<1>5. ThreadOK(e, sc, inOrder[t], DOMAIN byId, dynamics.max)
  BY <1>2, <1>3, <1>4, PushOK, Zenon
<1>6. e \in Seq(EntryRecs) /\ sc \in Seq(0 .. Trace)
  <2>1. x.level \in 0 .. Trace
    BY <1>3, <1>4, Zenon
  <2>2. \A S : \A a \in Seq(S), y \in S : Append(a, y) \in Seq(S)
    BY SMT
  <2>3. QED
    BY <1>2, <1>4, <2>1, <2>2, Zenon
<1>7. \A i \in DOMAIN e : live[e[i].span] # NoSpan
  <2>1. \A i \in DOMAIN e : e[i] = x \/ (i \in DOMAIN entries[t] /\ e[i] = entries[t][i])
    BY <1>2, SMT
  <2>2. QED
    BY <1>1, <1>4, <2>1, EntrySpans, Zenon
<1>8. Only(scope, scope', t, sc)
  <2>1. CASE s \in DOMAIN byId
    <3>1. scope' = [scope EXCEPT ![t] = Append(scope[t], x.level)]
      BY <1>1, <1>3, <1>4, <2>1, Zenon
    <3>2. QED
      BY <2>1, <3>1, Zenon DEF Only
  <2>2. CASE s \notin DOMAIN byId
    BY <1>1, <2>2, OnlySame, Zenon DEF ThreadInv
  <2>3. QED
    BY <2>1, <2>2, Zenon
<1>9. Only(inOrder, inOrder', t, inOrder[t])
  BY <1>1, OnlySame, Zenon DEF ThreadInv
<1>10. Only(entries, entries', t, e)
  BY <1>1, Zenon DEF Only
<1> HIDE DEF e, sc
<1>11. QED
  BY <1>1, <1>2, <1>5, <1>6, <1>7, <1>8, <1>9, <1>10, ThreadMoves, Zenon

LEMMA ExitStep ==
  ASSUME FilterInv, SpanInv, ThreadInv, NEW t \in Threads, NEW s \in Ids, OnExit(t, s)
  PROVE  ThreadInv'
<1> DEFINE e == entries[t]
           P == {i \in DOMAIN e : e[i].span = s}
<1>1. /\ UNCHANGED <<filterVars, spanVars>> /\ P # {}
      /\ scope' = IF s \in DOMAIN byId /\ scope[t] # <<>>
                  THEN [scope EXCEPT ![t] = SubSeq(@, 1, Len(@) - 1)] ELSE scope
  BY Zenon DEF OnExit
<1>2. /\ e \in Seq(EntryRecs) /\ scope[t] \in Seq(0 .. Trace) /\ inOrder[t] \in BOOLEAN
      /\ ThreadOK(e, scope[t], inOrder[t], DOMAIN byId, dynamics.max)
  BY Zenon DEF ThreadInv
<1>3. PICK i : i = Highest(P)
  BY Zenon
<1>4. i \in DOMAIN e /\ e[i].span = s
  <2>1. Len(e) \in Nat /\ DOMAIN e = 1 .. Len(e) /\ \A k \in 1 .. Len(e) : k \in 0 .. Len(e)
    BY <1>2, SMT
  <2>2. P \in SUBSET (0 .. Len(e))
    BY <2>1, Zenon
  <2>3. i \in P
    BY <1>1, <1>3, <2>1, <2>2, HighestIn, Zenon
  <2>4. QED
    BY <2>3, Zenon
<1> DEFINE r == Dropped(e, i)
           o == OrderAt(e, i, inOrder[t])
           sc == PoppedAt(e, i, scope[t], DOMAIN byId)
<1>5. entries' = [entries EXCEPT ![t] = r]
  BY <1>3, Zenon DEF OnExit, LeaveEntry, Dropped
<1>6. inOrder' = [inOrder EXCEPT ![t] = o]
  BY <1>3, Zenon DEF OnExit, LeaveEntry, Dropped, OrderAt
<1> HIDE DEF P, e
<1>7. ScopeOK(r, sc, o, DOMAIN byId, dynamics.max)
  BY <1>2, <1>4, PopOK, Zenon
<1>8. /\ r \in Seq(EntryRecs) /\ DOMAIN r = 1 .. Len(e) - 1
      /\ \A j \in 1 .. Len(e) - 1 : r[j] = e[IF j < i THEN j ELSE j + 1]
  BY <1>2, <1>4, DroppedMeans, Zenon
<1>9. \A j \in 1 .. Len(e) - 1 : (IF j < i THEN j ELSE j + 1) \in DOMAIN e
  BY <1>2, <1>4, SMT
<1>10. ASSUME NEW j \in DOMAIN r PROVE live[r[j].span] # NoSpan
  <2>1. PICK k : k \in DOMAIN e /\ r[j] = e[k]
    BY <1>8, <1>9, Zenon
  <2>2. live[e[k].span] # NoSpan
    BY <2>1, EntrySpans, Zenon DEF e
  <2>3. QED
    BY <2>1, <2>2, Zenon
<1>11. o \in BOOLEAN
  BY Zenon DEF OrderAt
<1>12. Only(scope, scope', t, sc)
  <2>1. CASE s \in DOMAIN byId /\ scope[t] # <<>>
    <3>1. scope' = [scope EXCEPT ![t] = SubSeq(scope[t], 1, Len(scope[t]) - 1)]
      BY <1>1, <2>1, Zenon
    <3>2. QED
      BY <1>4, <2>1, <3>1, Zenon DEF Only, PoppedAt
  <2>2. CASE ~(s \in DOMAIN byId /\ scope[t] # <<>>)
    <3>1. sc = scope[t] /\ scope' = scope
      BY <1>1, <1>4, <2>2, Zenon DEF PoppedAt
    <3>2. QED
      BY <3>1, OnlySame, Zenon DEF ThreadInv
  <2>3. QED
    BY <2>1, <2>2, Zenon
<1>13. Only(entries, entries', t, r) /\ Only(inOrder, inOrder', t, o)
  BY <1>5, <1>6, Zenon DEF Only
<1> HIDE DEF r, o, sc
<1>14. QED
  BY <1>1, <1>7, <1>8, <1>10, <1>11, <1>12, <1>13, ThreadMoves, Zenon DEF ScopeOK

-----------------------------------------------------------------------------
(* The inductive invariant                                                 *)

Inv == FilterInv /\ SpanInv /\ ThreadInv

LEMMA InvSetup ==
  ASSUME Inv, FilterInv', ~attached, UNCHANGED <<spanVars, threadVars>>
  PROVE  Inv'
<1>1. SpanInv'
  BY SpanSetup, Zenon DEF Inv
<1>2. ThreadInv'
  BY ThreadSetup, Zenon DEF Inv
<1>3. QED
  BY <1>1, <1>2, Zenon DEF Inv

LEMMA InvSame ==
  ASSUME Inv, UNCHANGED vars
  PROVE  Inv'
<1>1. UNCHANGED filterVars /\ UNCHANGED spanVars /\ UNCHANGED threadVars
  BY Zenon DEF vars
<1>2. FilterInv'
  BY <1>1, FilterSame, Zenon DEF Inv
<1>3. SpanInv'
  BY <1>1, SpanSame, Zenon DEF Inv
<1>4. live' = live /\ byId' = byId
  BY <1>1, Zenon DEF spanVars
<1>5. \A t \in Threads : \A i \in DOMAIN entries[t] :
        LET s == entries[t][i].span
        IN  live'[s] # NoSpan /\ (s \in DOMAIN byId' <=> s \in DOMAIN byId)
  BY <1>4, Zenon DEF Inv, ThreadInv
<1>6. ThreadInv'
  BY <1>1, <1>5, ThreadAside, Zenon DEF Inv
<1>7. QED
  BY <1>2, <1>3, <1>6, Zenon DEF Inv

\* The tables hold the directives given, each but for those that replaced it, in
\* the order in which they decide; each open span's matcher says which of the
\* values that its directives want were recorded; and each thread's scope has the
\* levels of the spans it is in, in their order while it exits in order.
THEOREM Invariance == Spec => []Inv
<1>1. Init => Inv
  BY FilterInit, SpanInit, ThreadInit, Zenon DEF Inv
<1>2. Inv /\ [Next]_vars => Inv'
  <2> SUFFICES ASSUME Inv, [Next]_vars PROVE Inv'
    BY Zenon
  <2>0. FilterInv /\ SpanInv /\ ThreadInv
    BY Zenon DEF Inv
  <2>1. CASE Build
    <3>1. ~attached /\ UNCHANGED <<spanVars, threadVars>>
      BY <2>0, <2>1, Zenon DEF Build, FilterInv, Types
    <3>2. FilterInv'
      BY <2>0, <2>1, BuildStep, Zenon
    <3>3. QED
      BY <3>1, <3>2, InvSetup, Zenon
  <2>2. CASE Attach
    <3>1. ~attached /\ UNCHANGED <<spanVars, threadVars>>
      BY <2>2, Zenon DEF Attach
    <3>2. FilterInv'
      BY <2>0, <2>2, AttachStep, Zenon
    <3>3. QED
      BY <3>1, <3>2, InvSetup, Zenon
  <2>3. ASSUME NEW d \in Added, AddDirective(d) PROVE Inv'
    <3>1. ~attached /\ UNCHANGED <<spanVars, threadVars>>
      BY <2>3, Zenon DEF AddDirective
    <3>2. FilterInv'
      BY <2>0, <2>3, AddDirectiveStep, Zenon
    <3>3. QED
      BY <3>1, <3>2, InvSetup, Zenon
  <2>4. ASSUME NEW t \in Threads, NEW m \in Sites, NEW s \in Ids, NEW pairs,
               OnNewSpan(t, m, s, pairs)
        PROVE  Inv'
    <3>1. FilterInv'
      BY <2>0, <2>4, FilterSame, Zenon DEF OnNewSpan
    <3>2. SpanInv'
      BY <2>0, <2>4, NewSpanStep, Zenon
    <3>3. ThreadInv'
      BY <2>0, <2>4, <3>2, NewSpanAside, Zenon
    <3>4. QED
      BY <3>1, <3>2, <3>3, Zenon DEF Inv
  <2>5. ASSUME NEW s \in Ids, NEW pair, OnRecord(s, pair) PROVE Inv'
    <3>1. FilterInv'
      BY <2>0, <2>5, FilterSame, Zenon DEF OnRecord
    <3>2. SpanInv'
      BY <2>0, <2>5, RecordStep, Zenon
    <3>3. ThreadInv'
      BY <2>0, <2>5, <3>2, RecordAside, Zenon
    <3>4. QED
      BY <3>1, <3>2, <3>3, Zenon DEF Inv
  <2>6. ASSUME NEW s \in Ids, OnClose(s) PROVE Inv'
    <3>1. FilterInv'
      BY <2>0, <2>6, FilterSame, Zenon DEF OnClose
    <3>2. SpanInv'
      BY <2>0, <2>6, CloseStep, Zenon
    <3>3. ThreadInv'
      BY <2>0, <2>6, <3>2, CloseAside, Zenon
    <3>4. QED
      BY <3>1, <3>2, <3>3, Zenon DEF Inv
  <2>7. ASSUME NEW s \in Ids, NEW t \in Threads, OnEnter(t, s) \/ OnExit(t, s) PROVE Inv'
    <3>1. UNCHANGED filterVars /\ UNCHANGED spanVars
      BY <2>7, Zenon DEF OnEnter, OnExit
    <3>2. FilterInv'
      BY <2>0, <3>1, FilterSame, Zenon
    <3>3. SpanInv'
      BY <2>0, <3>1, SpanSame, Zenon
    <3>4. ThreadInv'
      BY <2>0, <2>7, EnterStep, ExitStep, Zenon
    <3>5. QED
      BY <3>2, <3>3, <3>4, Zenon DEF Inv
  <2>8. CASE UNCHANGED vars
    BY <2>8, InvSame, Zenon
  <2>9. QED
    BY <2>1, <2>2, <2>3, <2>4, <2>5, <2>6, <2>7, <2>8, Zenon DEF Next
<1>3. QED
  BY <1>1, <1>2, PTL DEF Spec

-----------------------------------------------------------------------------
(* What the invariant says of the decisions                                *)

\* Directives that the static table cannot tell apart care about the same.
LEMMA SameCares ==
  ASSUME NEW d \in Known, NEW e \in Known, Same("static", d, e), NEW m
  PROVE  StaticCares(d, m) <=> StaticCares(e, m)
<1>1. IsDirective(d) /\ IsDirective(e)
  BY KnownMeans, Zenon
<1>2. StaticKey(d) = StaticKey(e)
  BY Zenon DEF Same, KeyIn
<1>3. <<TargetLen(d), Len(d.fields)>> = <<TargetLen(e), Len(e.fields)>>
      /\ TargetText(d) = TargetText(e)
  BY <1>1, <1>2, StaticKeyType, Zenon
<1>4. TargetLen(d) = TargetLen(e) /\ Len(d.fields) = Len(e.fields)
  BY <1>3, SMT
<1>5. DOMAIN d.fields = DOMAIN e.fields
  BY <1>1, <1>4, SMT DEF IsDirective
<1>6. \A i \in DOMAIN d.fields : d.fields[i].name = e.fields[i].name
  BY <1>1, <1>2, <1>5, StaticKeyType, Zenon
<1>7. FieldNames(d) = FieldNames(e)
  BY <1>5, <1>6, Zenon DEF FieldNames
<1>8. d.target = e.target
  <2>1. \A x \in Seq(Nat) : Len(x) # -1
    BY SMT
  <2>2. d.target \in Seq(Nat) \cup {NoTarget} /\ e.target \in Seq(Nat) \cup {NoTarget}
    BY <1>1, Zenon DEF IsDirective
  <2>3. d.target = NoTarget <=> e.target = NoTarget
    BY <1>4, <2>1, <2>2, Zenon DEF TargetLen
  <2>4. QED
    BY <1>3, <2>3, Zenon DEF TargetText
<1>9. QED
  BY <1>7, <1>8, Zenon DEF StaticCares, TargetMatches

\* Those that the dynamic one cannot tell apart have values for the same fields.
LEMMA SameValues ==
  ASSUME NEW d \in Known, NEW e \in Known, DynamicKey(d) = DynamicKey(e), HasValues(d)
  PROVE  HasValues(e)
<1>1. IsDirective(d) /\ IsDirective(e)
  BY KnownMeans, Zenon
<1>2. Len(d.fields) = Len(e.fields)
  <2>1. Len(DynamicKey(d)) = 3 + Len(d.fields) /\ Len(DynamicKey(e)) = 3 + Len(e.fields)
    BY <1>1, DynamicKeyType, Zenon
  <2>2. Len(d.fields) \in Nat /\ Len(e.fields) \in Nat
    BY <1>1, SMT DEF IsDirective
  <2>3. QED
    BY <2>1, <2>2, SMT
<1>3. DOMAIN d.fields = DOMAIN e.fields
  BY <1>1, <1>2, SMT DEF IsDirective
<1>4. PICK i \in DOMAIN d.fields : HasValue(d.fields[i])
  BY Zenon DEF HasValues
<1>5. FieldKey(d.fields[i]) = FieldKey(e.fields[i])
  BY <1>1, <1>3, DynamicKeyType, Zenon
<1>6. FieldKey(d.fields[i])[1] = 1
  BY <1>1, <1>4, FieldKeyType, Zenon DEF IsDirective
<1>7. FieldKey(e.fields[i])[1] = IF HasValue(e.fields[i]) THEN 1 ELSE 0
  BY <1>1, <1>3, FieldKeyType, Zenon DEF IsDirective
<1>8. HasValue(e.fields[i])
  BY <1>5, <1>6, <1>7, SMT
<1>9. QED
  BY <1>3, <1>8, Zenon DEF HasValues

\* A directive that was given, or the latest of those like it, is in the table.
LatestOf(table, g, F, b) == b \in F /\ \A k \in F : k > b => ~Same(table, g[k], g[b])

LEMMA HasLatest ==
  ASSUME NEW table, NEW g \in Seq(Known), NEW F \in SUBSET DOMAIN g, NEW j \in F
  PROVE  \E b \in F : j <= b /\ Same(table, g[b], g[j]) /\ LatestOf(table, g, F, b)
<1> DEFINE S == {b \in F : Same(table, g[b], g[j])}
<1>1. Len(g) \in Nat /\ \A k \in DOMAIN g : k \in 0 .. Len(g)
  BY SMT
<1>2. S \in SUBSET (0 .. Len(g)) /\ j \in S
  BY <1>1, Zenon DEF Same
<1>3. PICK b : b = Highest(S)
  BY Zenon
<1> HIDE DEF S
<1>4. b \in S /\ \A k \in S : k <= b
  BY <1>1, <1>2, <1>3, HighestIn, Zenon
<1>5. \A k \in S : k \in Int
  BY <1>2, SMT
<1>6. ASSUME NEW k \in F, k > b PROVE ~Same(table, g[k], g[b])
  <2>1. k \in S => FALSE
    BY <1>4, <1>5, <1>6, SMT
  <2>2. QED
    BY <1>4, <2>1, Zenon DEF S, Same
<1>7. QED
  BY <1>2, <1>4, <1>6, Zenon DEF S, LatestOf

\* When the tables are built, the static one has the static directives, but for
\* those that later ones replaced.
LEMMA StaticHeld ==
  ASSUME FilterInv, stage = "built"
  PROVE  /\ FiledStatic = {i \in DOMAIN given : IsStatic(given[i])}
         /\ \A e : e \in Members(statics.directives) <=>
                     \E i \in FiledStatic : LatestOf("static", given, FiledStatic, i) /\ given[i] = e
<1>1. FiledStatic = {i \in DOMAIN given : IsStatic(given[i])}
  BY Zenon DEF FiledStatic, Done
<1>2. Holding("static", statics.directives, given, FiledStatic)
  BY Zenon DEF FilterInv, Tables, TableOK
<1>3. QED
  BY <1>1, <1>2, Zenon DEF Holding, LatestOf

\* given[a] is more specific than given[b], or as specific and later.
LEMMA LessSpecificMeans ==
  ASSUME NEW a, NEW b
  PROVE  LessSpecific(b, a) <=> \/ Before("static", given[a], given[b])
                                \/ Same("static", given[b], given[a]) /\ b < a
BY Zenon DEF LessSpecific, Before, Same, KeyIn

\* The first directive of the static table that cares about a callsite is the most
\* specific, latest one given that does.
LEMMA StaticDecides ==
  ASSUME FilterInv, stage = "built", NEW m
  PROVE  StaticsEnabled(m) <=> StaticallyWanted(m)
<1> DEFINE dirs == statics.directives
           F == FiledStatic
           for == {i \in DOMAIN given : IsStatic(given[i]) /\ StaticCares(given[i], m)}
<1>1. /\ given \in Seq(Known) /\ dirs \in Seq(Known) /\ Sorted("static", dirs)
  BY Zenon DEF FilterInv, Types, Tables, TableOK
<1>2. \A i \in DOMAIN given : given[i] \in Known
  BY <1>1, SMT
<1>3. /\ F \in SUBSET DOMAIN given /\ \A i : i \in for <=> i \in F /\ StaticCares(given[i], m)
  BY StaticHeld, Zenon
<1>4. \A e : e \in Members(dirs) <=>
               \E i \in F : LatestOf("static", given, F, i) /\ given[i] = e
  BY StaticHeld, Zenon
<1>5. /\ \A d, e \in Known : ~(Same("static", d, e) /\ Before("static", d, e))
      /\ \A d, e, f \in Known : Before("static", d, e) /\ Before("static", e, f)
                                  => Before("static", d, f)
  BY KnownMeans, DirectiveOrder, Zenon
<1>6. /\ DOMAIN dirs = 1 .. Len(dirs) /\ Len(dirs) \in Nat
      /\ \A i, j \in DOMAIN dirs : i < j \/ i = j \/ j < i
      /\ \A i \in DOMAIN dirs : \A j \in 1 .. i - 1 : j \in DOMAIN dirs /\ j < i
      /\ \A i, j \in DOMAIN dirs : j < i => j \in 1 .. i - 1
  BY <1>1, SMT
<1>7. \A i, j \in DOMAIN given : i <= j /\ i # j => i < j
  BY <1>1, SMT
<1>8. \A i, j \in DOMAIN given : i < j \/ i = j \/ j < i
  BY <1>1, SMT
<1>9. \A i, j \in DOMAIN given : i > j <=> j < i
  BY <1>1, SMT
<1>10. \A i \in DOMAIN dirs : dirs[i] \in Members(dirs)
  BY Zenon DEF Members
<1>11. \A i, j \in DOMAIN given : ~(i < j /\ j < i)
  BY <1>1, SMT
<1> HIDE DEF dirs, F, for
<1>12. ASSUME StaticsEnabled(m) PROVE StaticallyWanted(m)
  <2>1. PICK p \in DOMAIN dirs : /\ StaticCares(dirs[p], m) /\ dirs[p].level >= m.level
                                 /\ \A q \in 1 .. p - 1 : ~StaticCares(dirs[q], m)
    BY <1>12, Zenon DEF StaticsEnabled, dirs
  <2>2. PICK a \in F : LatestOf("static", given, F, a) /\ given[a] = dirs[p]
    BY <1>4, <1>10, Zenon
  <2>3. a \in for
    BY <1>3, <2>1, <2>2, Zenon
  <2>4. ASSUME NEW j \in for \ {a} PROVE LessSpecific(j, a)
    <3>1. j \in F /\ StaticCares(given[j], m) /\ j # a
      BY <1>3, Zenon
    <3>2. PICK b \in F : /\ j <= b /\ Same("static", given[b], given[j])
                         /\ LatestOf("static", given, F, b)
      BY <1>1, <1>3, <3>1, HasLatest, Zenon
    <3>3. given[b] \in Members(dirs)
      BY <1>4, <3>2, Zenon
    <3>4. PICK q \in DOMAIN dirs : dirs[q] = given[b]
      BY <3>3, Zenon DEF Members
    <3>5. /\ a \in DOMAIN given /\ b \in DOMAIN given /\ j \in DOMAIN given
      BY <1>3, <3>1, Zenon
    <3>6. StaticCares(dirs[q], m)
      BY <1>2, <3>1, <3>2, <3>4, <3>5, SameCares, Zenon
    <3>7. q = p \/ p < q
      BY <1>6, <2>1, <3>6, Zenon
    <3>8. CASE q = p
      <4>1. Same("static", given[a], given[b]) /\ Same("static", given[b], given[a])
        BY <2>2, <3>4, <3>8, Zenon DEF Same
      <4>2. a = b
        BY <1>8, <1>9, <2>2, <3>2, <3>5, <4>1, Zenon DEF LatestOf
      <4>3. Same("static", given[j], given[a]) /\ j < a
        BY <1>7, <3>1, <3>2, <3>5, <4>2, Zenon DEF Same
      <4>4. QED
        BY <4>3, LessSpecificMeans, Zenon
    <3>9. CASE p < q
      <4>1. Before("static", given[a], given[b])
        BY <1>1, <2>2, <3>4, <3>9, Zenon DEF Sorted
      <4>2. Before("static", given[a], given[j])
        BY <3>2, <4>1, Zenon DEF Before, Same
      <4>3. QED
        BY <4>2, LessSpecificMeans, Zenon
    <3>10. QED
      BY <3>7, <3>8, <3>9, Zenon
  <2>5. QED
    BY <2>1, <2>2, <2>3, <2>4, Zenon DEF StaticallyWanted, for
<1>13. ASSUME StaticallyWanted(m) PROVE StaticsEnabled(m)
  <2>1. PICK a \in for : (\A j \in for \ {a} : LessSpecific(j, a)) /\ given[a].level >= m.level
    BY <1>13, Zenon DEF StaticallyWanted, for
  <2>2. /\ \A j \in for : j \in F /\ j \in DOMAIN given /\ StaticCares(given[j], m)
        /\ \A j \in F : j \in DOMAIN given /\ given[j] \in Known
    BY <1>2, <1>3, Zenon
  <2>3. \A j \in for \ {a} : \/ Before("static", given[a], given[j])
                             \/ Same("static", given[j], given[a]) /\ j < a
    BY <2>1, LessSpecificMeans, Zenon
  <2>4. LatestOf("static", given, F, a)
    <3>1. ASSUME NEW k \in F, k > a, Same("static", given[k], given[a]) PROVE FALSE
      <4>1. a < k
        BY <1>9, <2>1, <2>2, <3>1, Zenon
      <4>2. k \in for \ {a}
        <5>1. StaticCares(given[k], m)
          BY <2>1, <2>2, <3>1, SameCares, Zenon
        <5>2. k # a
          BY <1>11, <2>2, <4>1, Zenon
        <5>3. QED
          BY <1>3, <5>1, <5>2, Zenon
      <4>3. Before("static", given[a], given[k])
        BY <1>11, <2>1, <2>2, <2>3, <4>1, <4>2, Zenon
      <4>4. Same("static", given[a], given[k])
        BY <3>1, Zenon DEF Same
      <4>5. QED
        BY <1>5, <2>1, <2>2, <4>3, <4>4, Zenon
    <3>2. QED
      BY <2>1, <2>2, <3>1, Zenon DEF LatestOf
  <2>5. PICK p \in DOMAIN dirs : dirs[p] = given[a]
    <3>1. given[a] \in Members(dirs)
      BY <1>4, <2>1, <2>2, <2>4, Zenon
    <3>2. QED
      BY <3>1, Zenon DEF Members
  <2>6. ASSUME NEW q \in 1 .. p - 1, StaticCares(dirs[q], m) PROVE FALSE
    <3>1. q \in DOMAIN dirs /\ q < p
      BY <1>6, Zenon
    <3>2. PICK b \in F : given[b] = dirs[q]
      BY <1>4, <1>10, <3>1, Zenon
    <3>3. Before("static", given[b], given[a])
      BY <1>1, <2>5, <3>1, <3>2, Zenon DEF Sorted
    <3>4. b \in for
      BY <1>3, <2>6, <3>2, Zenon
    <3>5. given[a] \in Known /\ given[b] \in Known
      BY <2>1, <2>2, Zenon
    <3>6. b # a
      BY <1>5, <3>3, <3>5, Zenon DEF Same
    <3>7. CASE Before("static", given[a], given[b])
      <4>1. Before("static", given[a], given[a])
        BY <1>5, <3>3, <3>5, <3>7, Zenon
      <4>2. QED
        BY <1>5, <3>5, <4>1, Zenon DEF Same
    <3>8. CASE Same("static", given[b], given[a])
      BY <1>5, <3>3, <3>5, <3>8, Zenon
    <3>9. QED
      BY <2>3, <3>4, <3>6, <3>7, <3>8, Zenon
  <2>7. QED
    BY <2>1, <2>2, <2>5, <2>6, Zenon DEF StaticsEnabled, dirs
<1>14. QED
  BY <1>12, <1>13, Zenon

\* What the filter's maxima are worth.
LEMMA LevelBounds ==
  ASSUME FilterInv
  PROVE  /\ statics.max \in 0 .. Trace /\ dynamics.max \in 0 .. Trace
         /\ \A m : StaticsEnabled(m) => \E l \in 0 .. Trace : l >= m.level /\ statics.max >= l
         /\ \A d \in Members(dynamics.directives) :
              d \in Known /\ d.level \in 0 .. Trace /\ d.level <= dynamics.max
<1>1. /\ statics.max \in 0 .. Trace /\ dynamics.max \in 0 .. Trace
      /\ statics.directives \in Seq(Known) /\ dynamics.directives \in Seq(Known)
      /\ \A e \in Members(statics.directives) : e.level <= statics.max
      /\ \A e \in Members(dynamics.directives) : e.level <= dynamics.max
  BY Zenon DEF FilterInv, Tables, TableOK
<1>2. /\ \A e \in Members(statics.directives) : e \in Known
      /\ \A e \in Members(dynamics.directives) : e \in Known
  BY <1>1, SMT DEF Members
<1>3. ASSUME NEW m, StaticsEnabled(m)
      PROVE  \E l \in 0 .. Trace : l >= m.level /\ statics.max >= l
  <2>1. PICK i \in DOMAIN statics.directives : statics.directives[i].level >= m.level
    BY <1>3, Zenon DEF StaticsEnabled
  <2>2. PICK l : l = statics.directives[i].level
    BY Zenon
  <2>3. l \in 0 .. Trace /\ l <= statics.max
    BY <1>1, <1>2, <2>2, KnownMeans, Zenon DEF Members
  <2>4. statics.max >= l
    BY <1>1, <2>3, SMT
  <2>5. QED
    BY <2>1, <2>2, <2>3, <2>4, Zenon
<1>4. QED
  BY <1>1, <1>2, <1>3, KnownMeans, Zenon

\* A callsite that the static directives enable has a level that is let through.
LEMMA StaticLevel ==
  ASSUME FilterInv, NEW m \in Sites, StaticsEnabled(m)
  PROVE  statics.max >= m.level
<1>1. PICK l \in 0 .. Trace : l >= m.level /\ statics.max >= l
  BY LevelBounds, Zenon
<1>2. m.level \in 1 .. Trace /\ statics.max \in 0 .. Trace
  BY EnvAssumption, LevelBounds, Zenon
<1>3. QED
  BY <1>1, <1>2, SMT

LEMMA HintBounds ==
  ASSUME FilterInv, NEW m \in Sites, statics.max >= m.level \/ dynamics.max >= m.level
  PROVE  m.level <= MaxLevelHint
<1>1. /\ m.level \in 1 .. Trace /\ Trace \in Nat
      /\ statics.max \in 0 .. Trace /\ dynamics.max \in 0 .. Trace
  BY EnvAssumption, LevelBounds, Zenon
<1>2. m.level <= Trace /\ m.level <= HigherOf(statics.max, dynamics.max)
  BY <1>1, SMT DEF HigherOf
<1>3. QED
  BY <1>2, Zenon DEF MaxLevelHint

\* The types of the variables; only spans that are open have matchers.
THEOREM TypeCorrect == Spec => []TypeOK
<1>1. Inv => TypeOK
  <2> SUFFICES ASSUME Inv PROVE TypeOK
    BY Zenon
  <2>0. FilterInv /\ SpanInv /\ ThreadInv
    BY Zenon DEF Inv
  <2>1. /\ statics.max \in 0 .. Trace /\ dynamics.max \in 0 .. Trace /\ attached \in BOOLEAN
        /\ cached \in [Sites -> {"never", "sometimes", "always"}]
        /\ given \in Seq(Known)
    BY <2>0, LevelBounds, Zenon DEF FilterInv, Types, Interests
  <2>2. hasDynamics = (dynamics.directives # <<>>)
    BY <2>0, Zenon DEF FilterInv, Types, Tables
  <2>3. DOMAIN byCs \subseteq Sites
    BY <2>0, Zenon DEF FilterInv, Registered, Cared
  <2>4. DOMAIN byId \subseteq {s \in Ids : live[s] # NoSpan}
    BY <2>0, <2>3, EnvAssumption, Zenon DEF SpanInv
  <2>5. ASSUME NEW s \in DOMAIN byId, NEW x \in byId[s] PROVE x \in Matchers
    <3>1. live[s] # NoSpan /\ s \in Ids
      BY <2>4, Zenon
    <3>2. stage = "built"
      BY <2>0, <3>1, Zenon DEF SpanInv, FilterInv, Types
    <3>3. x \in Matched(live[s], recorded[s])
      BY <2>0, <2>5, Zenon DEF SpanInv
    <3>4. PICK d \in Caring(live[s]) : x = Recorded(d, recorded[s])
      BY <3>3, Zenon DEF Matched
    <3>5. PICK i \in DOMAIN given : given[i] = d
      BY <2>0, <3>2, <3>4, DynamicHeld, Zenon DEF Caring
    <3>6. d.level \in 0 .. Trace
      BY <2>0, <3>4, LevelBounds, Zenon DEF Caring
    <3> DEFINE U == UNION {FieldMatcher(given[j]).want : j \in DOMAIN given}
               got == {f \in Wanted(d) : Hit(f, recorded[s])}
    <3>7. Wanted(d) \in SUBSET U
      BY <3>5, Zenon DEF Wanted
    <3>8. got \in SUBSET U
      BY <3>7, Zenon
    <3>9. x = [want |-> Wanted(d), got |-> got, level |-> d.level]
      BY <3>4, Zenon DEF Recorded
    <3> HIDE DEF U, got
    <3>10. x \in [want : SUBSET U, got : SUBSET U, level : 0 .. Trace]
      BY <3>6, <3>7, <3>8, <3>9, Zenon
    <3>11. QED
      BY <3>10, Zenon DEF Matchers, U
  <2>6. \A t \in Threads : scope[t] \in Seq(0 .. Trace)
    BY <2>0, Zenon DEF ThreadInv
  <2>7. QED
    BY <2>1, <2>2, <2>3, <2>4, <2>5, <2>6, Zenon DEF TypeOK
<1>2. QED
  BY <1>1, Invariance, PTL

\* In whatever order a thread exits its spans, on_exit leaves its scope with one
\* level for each entered span that the filter cares about.
THEOREM ScopesBalanced == Spec => []ScopeBalanced
<1>1. Inv => ScopeBalanced
  <2> SUFFICES ASSUME Inv, NEW t \in Threads
               PROVE  Len(scope[t]) = Cardinality({i \in DOMAIN entries[t] :
                                        live[entries[t][i].span] \in DOMAIN byCs})
    BY Zenon DEF ScopeBalanced
  <2>1. FilterInv /\ SpanInv /\ ThreadInv
    BY Zenon DEF Inv
  <2>2. \A i \in DOMAIN entries[t] : entries[t][i].span \in DOMAIN byId
                                       <=> live[entries[t][i].span] \in DOMAIN byCs
    BY <2>1, EntrySpans, Zenon DEF SpanInv
  <2>3. Marked(entries[t], DOMAIN byId)
          = {i \in DOMAIN entries[t] : live[entries[t][i].span] \in DOMAIN byCs}
    BY <2>2, Zenon DEF Marked
  <2>4. Len(scope[t]) = Cardinality(Marked(entries[t], DOMAIN byId))
    BY <2>1, Zenon DEF ThreadInv, ThreadOK
  <2>5. QED
    BY <2>3, <2>4, Zenon
<1>2. QED
  BY <1>1, Invariance, PTL

LEMMA LevelOrder ==
  ASSUME FilterInv, NEW m \in Sites
  PROVE  /\ m.level <= dynamics.max <=> dynamics.max >= m.level
         /\ m.level \in 1 .. Trace /\ dynamics.max \in 0 .. Trace
<1>1. m.level \in 1 .. Trace /\ dynamics.max \in 0 .. Trace
  BY EnvAssumption, LevelBounds, Zenon
<1>2. QED
  BY <1>1, SMT

\* An interest of always or never that register_callsite returns, and the callsite
\* caches, is what enabled would answer on any thread and in any scope, but for the
\* spans more verbose than every dynamic directive.
THEOREM InterestsAgree == Spec => []InterestAgrees
<1>1. Inv => InterestAgrees
  <2> SUFFICES ASSUME Inv, attached, NEW t \in Threads, NEW m \in Sites
               PROVE  /\ cached[m] = "always" /\ (m.kind = "span" => m.level <= dynamics.max)
                           => Enabled(t, m)
                      /\ cached[m] = "never" => ~Enabled(t, m)
    BY Zenon DEF InterestAgrees
  <2>1. FilterInv
    BY Zenon DEF Inv
  <2>2. cached[m] = RegisterCallsite(m) /\ DOMAIN byCs = Cared
    BY <2>1, Zenon DEF FilterInv, Registered
  <2>3. StaticsEnabled(m) => statics.max >= m.level
    BY <2>1, StaticLevel, Zenon
  <2>4. m.level <= dynamics.max <=> dynamics.max >= m.level
    BY <2>1, LevelOrder, Zenon
  <2>5. ASSUME cached[m] = "always", m.kind = "span" => m.level <= dynamics.max
        PROVE  Enabled(t, m)
    <3>1. m \in Cared \/ StaticsEnabled(m)
      BY <2>2, <2>5, SMT DEF RegisterCallsite, Cared
    <3>2. QED
      BY <2>2, <2>3, <2>4, <2>5, <3>1, Zenon DEF Enabled, Cared
  <2>6. ASSUME cached[m] = "never" PROVE ~Enabled(t, m)
    <3>1. ~hasDynamics /\ ~StaticsEnabled(m)
      BY <2>2, <2>6, SMT DEF RegisterCallsite
    <3>2. QED
      BY <3>1, Zenon DEF Enabled
  <2>7. QED
    BY <2>5, <2>6, Zenon
<1>2. QED
  BY <1>1, Invariance, PTL

\* What a callsite caches, of each kind.
LEMMA CachedMeans ==
  ASSUME FilterInv, attached, NEW m \in Sites
  PROVE  /\ cached[m] = "always" <=> m \in Cared \/ StaticsEnabled(m)
         /\ m \notin Cared /\ ~StaticsEnabled(m) => (cached[m] = "sometimes" <=> hasDynamics)
         /\ DOMAIN byCs = Cared
<1>1. cached[m] = RegisterCallsite(m) /\ DOMAIN byCs = Cared
  BY Zenon DEF FilterInv, Registered
<1>2. "always" # "sometimes" /\ "always" # "never" /\ "sometimes" # "never"
  BY Zenon
<1>3. m \in Cared <=> hasDynamics /\ m.kind = "span" /\ Matcher(m) # {}
  BY Zenon DEF Cared
<1>4. QED
  BY <1>1, <1>2, <1>3, Zenon DEF RegisterCallsite

\* The levels in the scope of a thread that exits in order are those of the spans
\* it is in.
LEMMA ScopeMeans ==
  ASSUME Inv, attached, NEW t \in Threads, inOrder[t], NEW m \in Sites
  PROVE  /\ (\E k \in DOMAIN scope[t] : scope[t][k] >= m.level) <=> WantedInside(t, m)
         /\ WantedInside(t, m) => hasDynamics /\ dynamics.max >= m.level
<1> DEFINE e == entries[t]
           sc == scope[t]
           C == Marked(e, DOMAIN byId)
<1>0. FilterInv /\ SpanInv /\ ThreadInv
  BY Zenon DEF Inv
<1>1. /\ e \in Seq(EntryRecs) /\ Aligned(e, sc, C)
      /\ \A i \in DOMAIN e : e[i].level <= dynamics.max
                               /\ (e[i].span \notin DOMAIN byId => e[i].level = 0)
  BY <1>0, Zenon DEF ThreadInv, ThreadOK
<1>2. m.level \in 1 .. Trace /\ dynamics.max \in 0 .. Trace
  BY <1>0, LevelOrder, Zenon
<1>3. ASSUME NEW k \in DOMAIN sc, sc[k] >= m.level PROVE WantedInside(t, m)
  <2>1. PICK i \in C : Upto(C, i) = k
    BY <1>1, Zenon DEF Aligned
  <2>2. sc[k] = e[i].level /\ i \in DOMAIN e
    BY <1>1, <2>1, Zenon DEF Aligned, Marked
  <2>3. QED
    BY <1>3, <2>2, Zenon DEF WantedInside
<1>4. ASSUME WantedInside(t, m)
      PROVE  /\ \E k \in DOMAIN sc : sc[k] >= m.level
             /\ hasDynamics /\ dynamics.max >= m.level
  <2>1. PICK i \in DOMAIN e : e[i].level >= m.level
    BY <1>4, Zenon DEF WantedInside
  <2>2. PICK l : l = e[i].level
    BY Zenon
  <2>3. l \in 0 .. Trace
    <3>1. e[i] \in EntryRecs
      BY <1>1, SMT
    <3>2. QED
      BY <2>2, <3>1, Zenon DEF EntryRecs
  <2>4. l # 0 /\ dynamics.max >= m.level
    <3>1. l >= m.level /\ l <= dynamics.max
      BY <1>1, <2>1, <2>2, Zenon
    <3>2. QED
      BY <1>2, <2>3, <3>1, SMT
  <2>5. i \in C
    BY <1>1, <2>2, <2>4, Zenon DEF Marked
  <2>6. Upto(C, i) \in DOMAIN sc /\ sc[Upto(C, i)] >= m.level
    BY <1>1, <2>1, <2>5, Zenon DEF Aligned
  <2>7. hasDynamics
    <3>1. e[i].span \in DOMAIN byId
      BY <2>5, Zenon DEF Marked
    <3>2. live[e[i].span] \in Cared
      BY <1>0, <3>1, Zenon DEF SpanInv, FilterInv, Registered
    <3>3. QED
      BY <3>2, Zenon DEF Cared
  <2>8. QED
    BY <2>4, <2>6, <2>7, Zenon
<1>5. QED
  BY <1>3, <1>4, Zenon

\* A callsite has a matcher if a directive on spans that names it was given.
LEMMA NamedMeans ==
  ASSUME FilterInv, stage = "built", NEW m \in Sites, m.kind = "span"
  PROVE  /\ m \in Cared <=> NamedAt(m, 0)
         /\ NamedAt(m, m.level) => m \in Cared /\ dynamics.max >= m.level
<1>1. \A e : e \in Members(dynamics.directives) <=>
               \E i \in DOMAIN given : LatestOnSpans(i) /\ given[i] = e
  BY DynamicHeld, Zenon
<1>2. \A d \in Members(dynamics.directives) :
        d.level \in 0 .. Trace /\ d.level <= dynamics.max
  BY LevelBounds, Zenon
<1>3. m \in Cared <=> hasDynamics /\ Caring(m) # {}
  BY MatcherEmpty, Zenon DEF Cared
<1>4. Caring(m) # {} => hasDynamics
  <2>1. dynamics.directives = <<>> => Members(dynamics.directives) = {}
    BY SMT DEF Members
  <2>2. QED
    BY <2>1, Zenon DEF Caring, FilterInv, Tables
<1>5. \A l \in 0 .. Trace : l >= 0
  BY EnvAssumption, SMT
<1>6. ASSUME Caring(m) # {} PROVE NamedAt(m, 0)
  <2>1. PICK d \in Members(dynamics.directives) : DynamicCares(d, m)
    BY <1>6, Zenon DEF Caring
  <2>2. PICK i \in DOMAIN given : LatestOnSpans(i) /\ given[i] = d
    BY <1>1, Zenon
  <2>3. given[i].level >= 0
    BY <1>2, <1>5, <2>2, Zenon
  <2>4. QED
    BY <2>1, <2>2, <2>3, Zenon DEF NamedAt
<1>7. \A l : NamedAt(m, l) => \E d \in Caring(m) : d.level >= l
  BY <1>1, Zenon DEF Caring, NamedAt
<1>8. ASSUME NamedAt(m, m.level) PROVE dynamics.max >= m.level
  <2>1. PICK d \in Caring(m) : d.level >= m.level
    BY <1>7, <1>8, Zenon
  <2>2. d.level \in 0 .. Trace /\ d.level <= dynamics.max
    BY <1>2, <2>1, Zenon DEF Caring
  <2>3. m.level \in 1 .. Trace /\ dynamics.max \in 0 .. Trace
    BY LevelOrder, Zenon
  <2>4. QED
    BY <2>1, <2>2, <2>3, SMT
<1>9. QED
  BY <1>3, <1>4, <1>6, <1>7, <1>8, Zenon

\* If any directive given has values, so has one in the dynamic table.
LEMMA ValuesHeld ==
  ASSUME FilterInv, stage = "built", NEW i \in DOMAIN given, HasValues(given[i])
  PROVE  MaxLevelHint = Trace
<1>1. given \in Seq(Known) /\ \A j \in DOMAIN given : given[j] \in Known
  <2>1. given \in Seq(Known)
    BY Zenon DEF FilterInv, Types
  <2>2. QED
    BY <2>1, SMT
<1>2. ~IsStatic(given[i])
  BY Zenon DEF IsStatic
<1>3. OnSpans(i)
  BY <1>2, StaticOrDynamic, Zenon DEF OnSpans
<1>4. i \in FiledDynamic /\ FiledDynamic \in SUBSET DOMAIN given
  BY <1>3, Zenon DEF FiledDynamic, Done
<1>5. PICK b \in FiledDynamic : /\ Same("dynamic", given[b], given[i])
                                /\ LatestOf("dynamic", given, FiledDynamic, b)
  BY <1>1, <1>4, HasLatest, Zenon
<1>6. DynamicKey(given[i]) = DynamicKey(given[b])
  BY <1>5, SMT DEF Same, KeyIn
<1>7. HasValues(given[b])
  BY <1>1, <1>4, <1>5, <1>6, SameValues, Zenon
<1>8. given[b] \in Members(dynamics.directives)
  <2>1. Holding("dynamic", dynamics.directives, given, FiledDynamic)
    BY Zenon DEF FilterInv, Tables, TableOK
  <2>2. QED
    BY <1>5, <2>1, Zenon DEF Holding, LatestOf
<1>9. PICK k \in DOMAIN dynamics.directives : dynamics.directives[k] = given[b]
  BY <1>8, Zenon DEF Members
<1>10. QED
  BY <1>7, <1>9, Zenon DEF MaxLevelHint

\* What lets a span or an event through.
LEMMA LetThrough ==
  ASSUME Inv, attached, NEW t \in Threads, inOrder[t], NEW m \in Sites,
         StaticallyWanted(m) \/ WantedInside(t, m)
  PROVE  MacroEnabled(t, m)
<1>0. FilterInv /\ stage = "built"
  BY Zenon DEF Inv, FilterInv, Types
<1>1. CASE StaticallyWanted(m)
  <2>1. StaticsEnabled(m)
    BY <1>0, <1>1, StaticDecides, Zenon
  <2>2. cached[m] = "always"
    BY <1>0, <2>1, CachedMeans, Zenon
  <2>3. m.level <= MaxLevelHint
    BY <1>0, <2>1, StaticLevel, HintBounds, Zenon
  <2>4. QED
    BY <2>2, <2>3, Zenon DEF MacroEnabled
<1>2. CASE WantedInside(t, m)
  <2>1. /\ \E k \in DOMAIN scope[t] : scope[t][k] >= m.level
        /\ hasDynamics /\ dynamics.max >= m.level
    BY <1>2, ScopeMeans, Zenon
  <2>2. Enabled(t, m)
    BY <2>1, Zenon DEF Enabled
  <2>3. cached[m] = "always" \/ cached[m] = "sometimes"
    BY <1>0, <2>1, CachedMeans, Zenon
  <2>4. m.level <= MaxLevelHint
    BY <1>0, <2>1, HintBounds, Zenon
  <2>5. QED
    BY <2>2, <2>3, <2>4, Zenon DEF MacroEnabled
<1>3. QED
  BY <1>1, <1>2, Zenon

LEMMA OnlyThrough ==
  ASSUME Inv, attached, NEW t \in Threads, inOrder[t], NEW m \in Sites, MacroEnabled(t, m)
  PROVE  StaticallyWanted(m) \/ WantedInside(t, m) \/ m \in Cared
<1>0. FilterInv /\ stage = "built"
  BY Zenon DEF Inv, FilterInv, Types
<1>1. StaticsEnabled(m) => StaticallyWanted(m)
  BY <1>0, StaticDecides, Zenon
<1>2. CASE cached[m] = "always"
  BY <1>0, <1>1, <1>2, CachedMeans, Zenon
<1>3. CASE Enabled(t, m)
  <2>1. DOMAIN byCs = Cared
    BY <1>0, CachedMeans, Zenon
  <2>2. m \in DOMAIN byCs \/ (\E k \in DOMAIN scope[t] : scope[t][k] >= m.level)
          \/ StaticsEnabled(m)
    BY <1>3, Zenon DEF Enabled
  <2>3. QED
    BY <1>1, <2>1, <2>2, ScopeMeans, Zenon
<1>4. QED
  BY <1>2, <1>3, Zenon DEF MacroEnabled

\* On a thread that exits spans in order, the macros' test, which is the cached
\* interest and then enabled, lets an event through if and only if the most
\* specific, latest static directive says so or the thread is in a span that a
\* dynamic directive matched when it was entered; and a span also if a dynamic
\* directive is on it.
THEOREM DecidesExactly == Spec => []DecisionsExact
<1>1. Inv => DecisionsExact
  <2> SUFFICES ASSUME Inv PROVE DecisionsExact
    BY Zenon
  <2>0. FilterInv
    BY Zenon DEF Inv
  <2>1. EventsExact
    <3> SUFFICES ASSUME attached, NEW t \in Threads, NEW m \in Sites,
                        m.kind = "event", inOrder[t]
                 PROVE  MacroEnabled(t, m) <=> StaticallyWanted(m) \/ WantedInside(t, m)
      BY Zenon DEF EventsExact
    <3>1. m \notin Cared
      BY SMT DEF Cared
    <3>2. QED
      BY <3>1, LetThrough, OnlyThrough, Zenon
  <2>2. SpansExact
    <3> SUFFICES ASSUME attached, NEW t \in Threads, NEW m \in Sites,
                        m.kind = "span", inOrder[t]
                 PROVE  /\ \/ StaticallyWanted(m) \/ WantedInside(t, m) \/ NamedAt(m, m.level)
                           \/ NamedAt(m, 0) /\ \E i \in DOMAIN given : HasValues(given[i])
                           => MacroEnabled(t, m)
                        /\ MacroEnabled(t, m)
                             => StaticallyWanted(m) \/ WantedInside(t, m) \/ NamedAt(m, 0)
      BY Zenon DEF SpansExact
    <3>0. stage = "built"
      BY <2>0, Zenon DEF FilterInv, Types
    <3>1. /\ m \in Cared <=> NamedAt(m, 0)
          /\ NamedAt(m, m.level) => m \in Cared /\ dynamics.max >= m.level
      BY <2>0, <3>0, NamedMeans, Zenon
    <3>2. m \in Cared => cached[m] = "always"
      BY <2>0, CachedMeans, Zenon
    <3>3. ASSUME NamedAt(m, m.level) PROVE MacroEnabled(t, m)
      <4>1. m.level <= MaxLevelHint
        BY <2>0, <3>1, <3>3, HintBounds, Zenon
      <4>2. QED
        BY <3>1, <3>2, <3>3, <4>1, Zenon DEF MacroEnabled
    <3>4. ASSUME NamedAt(m, 0), NEW i \in DOMAIN given, HasValues(given[i])
          PROVE  MacroEnabled(t, m)
      <4>1. MaxLevelHint = Trace
        BY <2>0, <3>0, <3>4, ValuesHeld, Zenon
      <4>2. m.level <= Trace
        <5>1. m.level \in 1 .. Trace /\ Trace \in Nat
          BY EnvAssumption, Zenon
        <5>2. QED
          BY <5>1, SMT
      <4>3. QED
        BY <3>1, <3>2, <3>4, <4>1, <4>2, Zenon DEF MacroEnabled
    <3>5. QED
      BY <3>1, <3>3, <3>4, LetThrough, OnlyThrough, Zenon
  <2>3. QED
    BY <2>1, <2>2, Zenon DEF DecisionsExact
<1>2. QED
  BY <1>1, Invariance, PTL
=============================================================================
