--------------------------- MODULE RegistryProofs ---------------------------
(***************************************************************************)
(* Proofs about Registry, for any threads, spans and layers, for layers    *)
(* whose on_close closes other spans, and for threads without a default.   *)
(*                                                                         *)
(* The count of a span covers its handles, its children and the threads    *)
(* that are about to decrement it; a span with a count is open and closed  *)
(* by no one, and one that is being closed is closed by one call only.     *)
(* CLOSE_COUNT of a thread is the number of CloseGuards of its calls.      *)
(***************************************************************************)
EXTENDS Registry, TLAPS

\* The threads that have dropped a reference and not decremented the count yet.
Trying(s) == {t \in Threads : At(t, "try") /\ Top(t).id = s}

\* The i-th call of t is closing or clearing s.
Closer(t, i, s) ==
  i \in 1..Len(calls[t]) /\ calls[t][i].id = s /\ calls[t][i].phase # "try"

\* S has n elements.
HasSize(S, n) == ExistsBijection(1..n, S)

\* The references of a span.  A thread without a default forgets to release.
Counted(s) ==
  \E c, d \in Nat :
    /\ HasSize(Children(s), c) /\ HasSize(Trying(s), d)
    /\ handles[s] + c + d <= refs[s]
    /\ OwnDefault = Threads => refs[s] = handles[s] + c + d

Alive(s) ==
  refs[s] > 0 => /\ status[s] = "open" /\ \A k \in 1..Layers : closed[s][k] = 0
                 /\ \A t \in Threads : \A i \in 1..Len(calls[t]) : ~Closer(t, i, s)

Untouched(s) ==
  status[s] = "unused" =>
    /\ parent[s] = NoSpan /\ \A k \in 1..Layers : closed[s][k] = 0
    /\ \A t \in Threads : \A i \in 1..Len(calls[t]) : ~Closer(t, i, s)

\* The first n layers got on_close.
ClosedTo(s, n) == \A k \in 1..Layers : closed[s][k] = IF k <= n THEN 1 ELSE 0

\* What the phase of a call says about its span.
Phased(fr) ==
  /\ fr.phase = "try" => fr.layer = 1
  /\ fr.phase = "closing" => status[fr.id] = "open" /\ ClosedTo(fr.id, fr.layer - 1)
  /\ fr.phase = "clear" => status[fr.id] = "open" /\ ClosedTo(fr.id, Layers)
  /\ fr.phase \in {"release", "free"} =>
       status[fr.id] = "marked" /\ \A u \in Threads : looked[u] # fr.id

OneCloser ==
  \A t, u \in Threads : \A i \in 1..Len(calls[t]), j \in 1..Len(calls[u]) :
    \A s \in Spans : Closer(t, i, s) /\ Closer(u, j, s) => t = u /\ i = j

Below(t) ==
  \A i \in 1..Len(calls[t]) - 1 :
    calls[t][i].phase = "free" \/ (Reentrant /\ calls[t][i].phase = "closing")

\* The CloseGuards of a call.
Weight(fr) ==
  IF fr.phase = "try" THEN Layers
  ELSE IF fr.phase = "closing" THEN Layers - fr.layer + 1 ELSE 0

\* f has the CloseGuards of the calls up to each.
Sums(f, c) ==
  /\ f \in [0..Len(c) -> Nat] /\ f[0] = 0
  /\ \A i \in 1..Len(c) : f[i] = f[i - 1] + Weight(c[i])
  /\ ~Reentrant => \A i \in 0..Len(c) - 1 : f[i] = 0

Guarded(t) == \E f \in [0..Len(calls[t]) -> Nat] :
                Sums(f, calls[t]) /\ closeCount[t] = f[Len(calls[t])]

HandlesKept == \A s \in Spans : Entered(s) => handles[s] > 0

Marked(s) ==
  /\ status[s] \in {"marked", "cleared"} => ClosedTo(s, Layers)
  /\ status[s] = "marked" => \/ \E u \in Threads : looked[u] = s
                             \/ \E t \in Threads : \E i \in 1..Len(calls[t]) : Closer(t, i, s)
  /\ status[s] = "open" /\ ~Reentrant =>
       \/ refs[s] > 0
       \/ \E t \in Threads : \E i \in 1..Len(calls[t]) : Closer(t, i, s)

Inv ==
  /\ TypeOK /\ HandlesKept /\ OneCloser
  /\ \A s \in Spans : /\ Counted(s) /\ Alive(s) /\ Untouched(s) /\ Marked(s)
                      /\ \E n \in 0..Layers : ClosedTo(s, n)
  /\ \A t \in Threads : /\ Below(t) /\ Guarded(t)
                        /\ \A i \in 1..Len(calls[t]) : Phased(calls[t][i])
-----------------------------------------------------------------------------
(* Sets and calls                                                          *)

\* What it takes to have n elements: to be numbered from 1 to n.
LEMMA Numbering ==
  ASSUME NEW S, NEW n \in Nat
  PROVE  HasSize(S, n) <=>
           \E e \in [1..n -> S] : /\ \A i, j \in 1..n : e[i] = e[j] => i = j
                                  /\ \A x \in S : \E i \in 1..n : e[i] = x
BY Zenon DEF HasSize, ExistsBijection, Bijection, Injection, Surjection, IsInjective

\* The empty set, and only it, has 0 elements.
LEMMA SizeOfNone ==
  ASSUME NEW S, NEW n \in Nat
  PROVE  /\ HasSize({}, 0) /\ (S = {} /\ HasSize(S, n) => n = 0)
         /\ (HasSize(S, 0) => S = {})
<1>1. HasSize({}, 0)
  <2> DEFINE e == [i \in 1..0 |-> 0]
  <2>1. /\ e \in [1..0 -> {}] /\ \A i, j \in 1..0 : e[i] = e[j] => i = j
        /\ \A x \in {} : \E i \in 1..0 : e[i] = x
    OBVIOUS
  <2> HIDE DEF e
  <2> QED BY Zenon, <2>1, Numbering
<1>2. S = {} /\ HasSize(S, n) => n = 0
  <2> SUFFICES ASSUME S = {}, HasSize(S, n), n # 0 PROVE FALSE BY Zenon
  <2>1. PICK e : e \in [1..n -> S] BY Zenon, Numbering
  <2>2. e[1] \in S BY <2>1
  <2> QED BY Zenon, <2>2
<1>3. HasSize(S, 0) => S = {}
  <2>1. HasSize(S, 0) => \E e \in [1..0 -> S] : \A x \in S : \E i \in 1..0 : e[i] = x
    BY Numbering
  <2> QED BY <2>1
<1> QED BY Zenon, <1>1, <1>2, <1>3

\* Adding one element.
LEMMA AddOne ==
  ASSUME NEW S, NEW x, x \notin S, NEW n \in Nat, HasSize(S, n)
  PROVE  HasSize(S \cup {x}, n + 1)
<1>1. PICK e \in [1..n -> S] : /\ \A i, j \in 1..n : e[i] = e[j] => i = j
                               /\ \A y \in S : \E i \in 1..n : e[i] = y
  BY Numbering
<1> DEFINE g == [i \in 1..n + 1 |-> IF i = n + 1 THEN x ELSE e[i]]
<1>2. g \in [1..n + 1 -> S \cup {x}] OBVIOUS
<1>3. g[n + 1] = x /\ \A i \in 1..n : g[i] = e[i] /\ e[i] \in S OBVIOUS
<1> HIDE DEF g
<1>4. \A i \in 1..n + 1 : i \in 1..n \/ i = n + 1 OBVIOUS
<1>5. \A i, j \in 1..n + 1 : g[i] = g[j] => i = j BY Zenon, <1>1, <1>3, <1>4
<1>6. ASSUME NEW y \in S \cup {x} PROVE \E i \in 1..n + 1 : g[i] = y
  <2>1. CASE y = x BY <2>1, <1>3
  <2>2. CASE y \in S BY <2>2, <1>1, <1>3
  <2> QED BY Zenon, <2>1, <2>2
<1>7. PICK m \in Nat : m = n + 1 OBVIOUS
<1>8. /\ g \in [1..m -> S \cup {x}] /\ \A i, j \in 1..m : g[i] = g[j] => i = j
      /\ \A y \in S \cup {x} : \E i \in 1..m : g[i] = y
  BY <1>2, <1>5, <1>6, <1>7, Zenon
<1>9. HasSize(S \cup {x}, m) BY Zenon, <1>8, Numbering
<1> QED BY Zenon, <1>7, <1>9

\* Removing one element: the last one takes its number.
LEMMA RemoveOne ==
  ASSUME NEW S, NEW x \in S, NEW n \in Nat, HasSize(S, n)
  PROVE  n > 0 /\ HasSize(S \ {x}, n - 1)
<1>1. PICK e \in [1..n -> S] : /\ \A i, j \in 1..n : e[i] = e[j] => i = j
                               /\ \A y \in S : \E i \in 1..n : e[i] = y
  BY Numbering
<1>2. PICK k \in 1..n : e[k] = x BY Zenon, <1>1
<1> DEFINE g == [i \in 1..n - 1 |-> IF i = k THEN e[n] ELSE e[i]]
<1>3. \A i \in 1..n - 1 : /\ i \in 1..n /\ i # n
                          /\ g[i] = IF i = k THEN e[n] ELSE e[i]
  OBVIOUS
<1>4. n \in 1..n /\ n - 1 \in Nat OBVIOUS
<1>5. g \in [1..n - 1 -> S \ {x}]
  <2>1. \A i \in 1..n - 1 : g[i] \in S \ {x} BY Zenon, <1>1, <1>2, <1>3, <1>4
  <2> QED BY Zenon, <2>1
<1> HIDE DEF g
<1>6. \A i, j \in 1..n - 1 : g[i] = g[j] => i = j BY Zenon, <1>1, <1>2, <1>3, <1>4
<1>7. ASSUME NEW y \in S \ {x} PROVE \E i \in 1..n - 1 : g[i] = y
  <2>1. PICK i \in 1..n : e[i] = y BY Zenon, <1>1
  <2>2. i # k BY Zenon, <2>1, <1>2
  <2>3. CASE i = n BY <2>1, <2>2, <2>3, <1>3
  <2>4. CASE i # n
    <3>1. i \in 1..n - 1 BY <2>4
    <3> QED BY Zenon, <2>1, <2>2, <3>1, <1>3
  <2> QED BY Zenon, <2>3, <2>4
<1>8. PICK m \in Nat : m = n - 1 BY Zenon, <1>4
<1>9. /\ g \in [1..m -> S \ {x}] /\ \A i, j \in 1..m : g[i] = g[j] => i = j
      /\ \A y \in S \ {x} : \E i \in 1..m : g[i] = y
  BY <1>5, <1>6, <1>7, <1>8, Zenon
<1>10. HasSize(S \ {x}, m) BY Zenon, <1>9, Numbering
<1> QED BY <1>4, <1>8, <1>10

\* Two sets that differ at most in x, which neither has.
LEMMA SameWithout ==
  ASSUME NEW A, NEW B, NEW x, A \ {x} = B \ {x}, x \notin A, x \notin B
  PROVE  A = B
<1>1. \A y : y \in A <=> y \in B
  <2> SUFFICES ASSUME NEW y PROVE y \in A <=> y \in B BY Zenon
  <2>1. y # x => (y \in A <=> y \in A \ {x}) /\ (y \in B <=> y \in B \ {x}) BY Zenon
  <2> QED BY Zenon, <2>1
<1> QED BY Zenon, <1>1

\* Taking out what is not there.
LEMMA Without ==
  ASSUME NEW A, NEW x, x \notin A
  PROVE  A \ {x} = A
BY Zenon

\* A sequence that is not empty has a last element.
LEMMA EmptySeq ==
  ASSUME NEW S, NEW seq \in Seq(S)
  PROVE  Len(<<>>) = 0 /\ (seq # <<>> => Len(seq) \in Nat \ {0})
OBVIOUS

\* Replacing an element keeps the others.
LEMMA ExceptSeq ==
  ASSUME NEW S, NEW seq \in Seq(S), NEW i \in 1..Len(seq), NEW e \in S
  PROVE  /\ [seq EXCEPT ![i] = e] \in Seq(S)
         /\ Len([seq EXCEPT ![i] = e]) = Len(seq)
         /\ \A j \in 1..Len(seq) : [seq EXCEPT ![i] = e][j] = IF j = i THEN e ELSE seq[j]
OBVIOUS

\* Append puts its element last.
LEMMA AppendSeq ==
  ASSUME NEW S, NEW seq \in Seq(S), NEW e \in S
  PROVE  /\ Append(seq, e) \in Seq(S) /\ Append(seq, e) # <<>>
         /\ Len(Append(seq, e)) = Len(seq) + 1
         /\ \A i \in 1..Len(seq) : Append(seq, e)[i] = seq[i]
         /\ Append(seq, e)[Len(seq) + 1] = e
OBVIOUS

\* The calls after a call returned, after its phase changed, and after a new one.
LEMMA PopCalls ==
  ASSUME TypeOK, NEW t \in Threads, ~Idle(t)
  PROVE  /\ Pop(t) \in [Threads -> Seq(Frame)]
         /\ \A u \in Threads : u # t => Pop(t)[u] = calls[u]
         /\ Len(Pop(t)[t]) = Len(calls[t]) - 1 /\ Len(calls[t]) \in Nat \ {0}
         /\ \A i \in 1..Len(calls[t]) - 1 : Pop(t)[t][i] = calls[t][i]
<1>1. calls[t] \in Seq(Frame) /\ calls[t] # <<>> BY Zenon DEF TypeOK, Idle
<1>2. Len(calls[t]) \in Nat \ {0} BY <1>1
<1>3. /\ SubSeq(calls[t], 1, Len(calls[t]) - 1) \in Seq(Frame)
      /\ Len(SubSeq(calls[t], 1, Len(calls[t]) - 1)) = Len(calls[t]) - 1
      /\ \A i \in 1..Len(calls[t]) - 1 :
           SubSeq(calls[t], 1, Len(calls[t]) - 1)[i] = calls[t][i]
  BY <1>1, <1>2
<1> QED BY Zenon, <1>2, <1>3 DEF Pop, TypeOK

\* The calls after the phase of the innermost one changed.
LEMMA SetTopCalls ==
  ASSUME TypeOK, NEW t \in Threads, ~Idle(t), NEW fr \in Frame
  PROVE  /\ SetTop(t, fr) \in [Threads -> Seq(Frame)]
         /\ \A u \in Threads : u # t => SetTop(t, fr)[u] = calls[u]
         /\ Len(SetTop(t, fr)[t]) = Len(calls[t]) /\ Len(calls[t]) \in Nat \ {0}
         /\ \A i \in 1..Len(calls[t]) - 1 : SetTop(t, fr)[t][i] = calls[t][i]
         /\ SetTop(t, fr)[t][Len(calls[t])] = fr
<1>1. calls[t] \in Seq(Frame) /\ calls[t] # <<>> BY Zenon DEF TypeOK, Idle
<1>2. Len(calls[t]) \in Nat \ {0} BY <1>1
<1> DEFINE new == [calls[t] EXCEPT ![Len(calls[t])] = fr]
<1>3. /\ new \in Seq(Frame) /\ Len(new) = Len(calls[t])
      /\ \A i \in 1..Len(calls[t]) - 1 : new[i] = calls[t][i]
      /\ new[Len(calls[t])] = fr
  BY <1>1, <1>2, ExceptSeq
<1>4. SetTop(t, fr) = [calls EXCEPT ![t] = new] BY Zenon DEF SetTop
<1>5. calls \in [Threads -> Seq(Frame)] BY Zenon DEF TypeOK
<1> HIDE DEF new
<1> QED BY Zenon, <1>2, <1>3, <1>4, <1>5

\* The innermost call of a thread that is not idle.
LEMMA TopCall ==
  ASSUME TypeOK, NEW t \in Threads, ~Idle(t)
  PROVE  /\ Top(t) \in Frame /\ Top(t).id \in Spans /\ Top(t).phase \in Phases
         /\ Top(t).layer \in 1..Layers
         /\ Len(calls[t]) \in Nat \ {0} /\ Top(t) = calls[t][Len(calls[t])]
<1>1. calls[t] \in Seq(Frame) /\ calls[t] # <<>> BY Zenon DEF TypeOK, Idle
<1>2. Top(t) \in Frame /\ Len(calls[t]) \in Nat \ {0} BY <1>1 DEF Top
<1>3. Top(t).id \in Spans /\ Top(t).phase \in Phases /\ Top(t).layer \in 1..Layers
  BY Zenon, <1>2 DEF Frame
<1> QED BY Zenon, <1>2, <1>3 DEF Top
-----------------------------------------------------------------------------
(* What the invariant says of a state                                      *)

\* Handles and references are counted from 0.
LEMMA Numbers ==
  ASSUME Inv, NEW s \in Spans
  PROVE  handles[s] \in Nat /\ refs[s] \in Nat
BY Zenon DEF Inv, TypeOK

\* Who needs a span keeps its count above 0, so that it is open.
LEMMA Needed ==
  ASSUME Inv, NEW s \in Spans
  PROVE  /\ handles[s] > 0 \/ Children(s) # {} \/ Trying(s) # {} \/ Entered(s) => refs[s] > 0
         /\ refs[s] > 0 => status[s] = "open" /\ \A k \in 1..Layers : closed[s][k] = 0
         /\ \A t \in Threads : \A i \in 1..Len(calls[t]) : Closer(t, i, s) => refs[s] = 0
<1>0. PICK c, d \in Nat : /\ HasSize(Children(s), c) /\ HasSize(Trying(s), d)
                          /\ handles[s] + c + d <= refs[s]
  BY Zenon DEF Inv, Counted
<1>1. handles[s] > 0 => refs[s] > 0 BY <1>0, Numbers
<1>2. Children(s) # {} => refs[s] > 0
  <2>1. c = 0 => Children(s) = {} BY Zenon, <1>0, SizeOfNone
  <2> QED BY <2>1, <1>0, Numbers
<1>3. Trying(s) # {} => refs[s] > 0
  <2>1. d = 0 => Trying(s) = {} BY Zenon, <1>0, SizeOfNone
  <2> QED BY <2>1, <1>0, Numbers
<1>4. Entered(s) => handles[s] > 0 BY Zenon DEF Inv, HandlesKept
<1>5. /\ refs[s] > 0 => status[s] = "open" /\ \A k \in 1..Layers : closed[s][k] = 0
      /\ \A t \in Threads : \A i \in 1..Len(calls[t]) : Closer(t, i, s) => ~(refs[s] > 0)
  BY Zenon DEF Inv, Alive
<1>6. refs[s] \in Nat BY Zenon, Numbers
<1>7. \A t \in Threads : \A i \in 1..Len(calls[t]) : Closer(t, i, s) => refs[s] = 0
  BY <1>5, <1>6
<1> QED BY Zenon, <1>1, <1>2, <1>3, <1>4, <1>5, <1>7, Numbers

\* A new span's parent is in use.
LEMMA ParentInUse ==
  ASSUME Inv, NEW t \in Threads, NEW p \in Parents(t), p # NoSpan
  PROVE  p \in Spans /\ refs[p] > 0
<1>1. CASE p \in Spans /\ handles[p] > 0 BY Zenon, <1>1, Needed
<1>2. CASE p = Context!Current(stack[t])
  <2>1. p \in Spans /\ Context!IsCurrent(stack[t], p) BY Zenon, <1>2 DEF Context!Current
  <2>2. Entered(p) BY Zenon, <2>1 DEF Entered, Context!At, Context!IsCurrent
  <2> QED BY Zenon, <2>1, <2>2, Needed
<1> QED BY Zenon, <1>1, <1>2 DEF Parents
-----------------------------------------------------------------------------
(* The calls of the program                                                *)

\* What concerns the calls only stays as it is while they do.
LEMMA SameCalls ==
  ASSUME Inv, UNCHANGED <<calls, closeCount>>
  PROVE  /\ OneCloser' /\ \A t \in Threads : Below(t)' /\ Guarded(t)'
         /\ \A s \in Spans : Trying(s)' = Trying(s)
         /\ \A t \in Threads : \A i \in 1..Len(calls[t]) : \A s \in Spans :
              Closer(t, i, s)' <=> Closer(t, i, s)
<1>1. OneCloser' BY DEF Inv, OneCloser, Closer
<1>2. \A t \in Threads : Below(t)' BY Zenon DEF Inv, Below
<1>3. \A t \in Threads : Guarded(t)' BY Zenon DEF Inv, Guarded, Sums, Weight
<1>4. \A s \in Spans : Trying(s)' = Trying(s) BY Zenon DEF Trying, At, Idle, Top
<1>5. \A t \in Threads : \A i \in 1..Len(calls[t]) : \A s \in Spans :
        Closer(t, i, s)' <=> Closer(t, i, s)
  BY Zenon DEF Closer
<1> QED BY Zenon, <1>1, <1>2, <1>3, <1>4, <1>5

\* Registry::new_span keeps the invariant: the parent gets a reference.
LEMMA NewSpanStep ==
  ASSUME Inv, NEW t \in Threads, NEW s \in Spans, NEW p \in Parents(t), NewSpan(t, s, p)
  PROVE  Inv'
<1> USE RegistryAssumption
<1>1. /\ status[s] = "unused" /\ UNCHANGED <<stack, closeCount, calls, looked, closed>>
      /\ status' = [status EXCEPT ![s] = "open"] /\ parent' = [parent EXCEPT ![s] = p]
      /\ refs' = [r \in Spans |-> IF r = s THEN 1 ELSE IF r = p THEN refs[r] + 1 ELSE refs[r]]
      /\ handles' = [handles EXCEPT ![s] = 1]
  BY Zenon DEF NewSpan
<1>2. p = NoSpan \/ (p \in Spans /\ refs[p] > 0) BY Zenon, ParentInUse
<1>3. /\ refs[s] = 0 /\ parent[s] = NoSpan /\ \A k \in 1..Layers : closed[s][k] = 0
      /\ \A u \in Threads : \A i \in 1..Len(calls[u]) : ~Closer(u, i, s)
  <2>1. ~(refs[s] > 0) BY Zenon, <1>1, Needed
  <2>2. refs[s] \in Nat BY Zenon, Numbers
  <2> QED BY <2>1, <2>2, <1>1 DEF Inv, Untouched
<1>4. p # s BY <1>2, <1>3
<1>5. TypeOK'
  <2>1. TypeOK BY Zenon DEF Inv
  <2>2. /\ status' \in [Spans -> {"unused", "open", "marked", "cleared"}]
        /\ handles' \in [Spans -> Nat]
    BY Zenon, <2>1, <1>1 DEF TypeOK
  <2>3. refs' \in [Spans -> Nat] BY <2>1, <1>1 DEF TypeOK
  <2>4. parent' \in [Spans -> Spans \cup {NoSpan}] BY Zenon, <2>1, <1>1, <1>2 DEF TypeOK
  <2> QED BY Zenon, <2>1, <2>2, <2>3, <2>4, <1>1 DEF TypeOK
<1>6. HandlesKept'
  <2>1. \A r \in Spans : Entered(r)' <=> Entered(r) BY Zenon, <1>1 DEF Entered
  <2>2. \A r \in Spans : handles[r] > 0 => handles'[r] > 0 BY <1>1 DEF Inv, TypeOK
  <2> QED BY Zenon, <2>1, <2>2 DEF Inv, HandlesKept
<1>7. ASSUME NEW r \in Spans PROVE Counted(r)'
  <2>1. Trying(r)' = Trying(r) BY Zenon, <1>1, SameCalls
  <2>2. CASE r = p
    <3>1. s \notin Children(r) /\ Children(r)' = Children(r) \cup {s}
      BY <2>2, <1>1, <1>3 DEF Children, Inv, TypeOK
    <3>2. PICK c, d \in Nat : /\ HasSize(Children(r), c) /\ HasSize(Trying(r), d)
                              /\ handles[r] + c + d <= refs[r]
                              /\ OwnDefault = Threads => refs[r] = handles[r] + c + d
      BY Zenon DEF Inv, Counted
    <3>3. refs'[r] = refs[r] + 1 /\ handles'[r] = handles[r]
      BY Zenon, <2>2, <1>1, <1>4 DEF Inv, TypeOK
    <3>4. HasSize(Children(r)', c + 1) /\ HasSize(Trying(r)', d) BY <2>1, <3>1, <3>2, AddOne
    <3>5. /\ c + 1 \in Nat /\ handles'[r] + (c + 1) + d <= refs'[r]
          /\ OwnDefault = Threads => refs'[r] = handles'[r] + (c + 1) + d
      BY <3>2, <3>3, Numbers
    <3> QED BY Zenon, <3>4, <3>5 DEF Counted
  <2>3. CASE r # p
    <3>1. Children(r)' = Children(r) BY Zenon, <2>3, <1>1, <1>3 DEF Children, Inv, TypeOK
    <3>2. CASE r = s
      <4>1. Children(r) = {} /\ Trying(r) = {} BY <3>2, <1>3, Needed
      <4>2. refs'[r] = 1 /\ handles'[r] = 1 BY Zenon, <3>2, <1>1 DEF Inv, TypeOK
      <4>3. HasSize(Children(r)', 0) /\ HasSize(Trying(r)', 0) BY Zenon, <2>1, <3>1, <4>1, SizeOfNone
      <4> QED BY <4>2, <4>3 DEF Counted
    <3>3. CASE r # s
      <4>1. refs'[r] = refs[r] /\ handles'[r] = handles[r] BY Zenon, <3>3, <2>3, <1>1 DEF Inv, TypeOK
      <4> QED BY Zenon, <2>1, <3>1, <4>1 DEF Inv, Counted
    <3> QED BY Zenon, <3>2, <3>3
  <2> QED BY Zenon, <2>2, <2>3
<1>8. ASSUME NEW r \in Spans PROVE Alive(r)' /\ Untouched(r)' /\ Marked(r)'
  <2>1. /\ r = s => status'[r] = "open" /\ refs'[r] = 1
        /\ r # s => status'[r] = status[r] /\ parent'[r] = parent[r]
        /\ r # s /\ refs'[r] > 0 => refs[r] > 0
        /\ refs[r] > 0 => refs'[r] > 0
    BY <1>1, <1>2, <1>3 DEF Inv, TypeOK
  <2>2. \A u \in Threads : \A i \in 1..Len(calls[u]) : Closer(u, i, r)' <=> Closer(u, i, r)
    BY Zenon, <1>1, SameCalls
  <2>3. Alive(r)' BY <2>1, <2>2, <1>1, <1>3 DEF Inv, Alive
  <2>4. Untouched(r)' BY Zenon, <2>1, <2>2, <1>1, <1>3 DEF Inv, Untouched
  <2>5. Marked(r)' BY <2>1, <2>2, <1>1, <1>3 DEF Inv, Marked, ClosedTo
  <2> QED BY Zenon, <2>3, <2>4, <2>5
<1>9. \A r \in Spans : \E n \in 0..Layers : ClosedTo(r, n)' BY Zenon, <1>1 DEF Inv, ClosedTo
<1>10. ASSUME NEW u \in Threads, NEW i \in 1..Len(calls[u]) PROVE Phased(calls[u][i])'
  <2>1. calls[u][i] \in Frame BY DEF Inv, TypeOK
  <2>2. CASE calls[u][i].phase = "try" BY Zenon, <2>2, <1>1 DEF Inv, Phased
  <2>3. CASE calls[u][i].phase # "try"
    <3>1. calls[u][i].id # s BY Zenon, <2>3, <1>3 DEF Closer
    <3>2. status'[calls[u][i].id] = status[calls[u][i].id]
      BY Zenon, <2>1, <3>1, <1>1 DEF Inv, TypeOK, Frame
    <3> QED BY Zenon, <3>2, <1>1 DEF Inv, Phased, ClosedTo
  <2> QED BY Zenon, <2>2, <2>3
<1> QED BY Zenon, <1>1, <1>5, <1>6, <1>7, <1>8, <1>9, <1>10, SameCalls DEF Inv

\* clone_span: one more handle, one more reference.
LEMMA CloneSpanStep ==
  ASSUME Inv, NEW t \in Threads, NEW s \in Spans, CloneSpan(t, s)
  PROVE  Inv'
<1> USE RegistryAssumption
<1>1. /\ handles[s] > 0 /\ UNCHANGED <<status, parent, closed, stack, closeCount, calls, looked>>
      /\ refs' = [refs EXCEPT ![s] = @ + 1] /\ handles' = [handles EXCEPT ![s] = @ + 1]
  BY Zenon DEF CloneSpan
<1>2. refs[s] > 0 BY Zenon, <1>1, Needed
<1>3. /\ refs' \in [Spans -> Nat] /\ handles' \in [Spans -> Nat]
      /\ \A r \in Spans : /\ refs'[r] = IF r = s THEN refs[r] + 1 ELSE refs[r]
                          /\ handles'[r] = IF r = s THEN handles[r] + 1 ELSE handles[r]
                          /\ refs[r] \in Nat /\ handles[r] \in Nat
  <2>1. refs \in [Spans -> Nat] /\ handles \in [Spans -> Nat] BY Zenon DEF Inv, TypeOK
  <2>2. refs[s] + 1 \in Nat /\ handles[s] + 1 \in Nat BY <2>1
  <2> QED BY Zenon, <1>1, <2>1, <2>2
<1>4. \A r \in Spans : (refs'[r] > 0 <=> refs[r] > 0) /\ (handles[r] > 0 => handles'[r] > 0)
  BY <1>2, <1>3
<1>5. TypeOK' BY Zenon, <1>1, <1>3 DEF Inv, TypeOK
<1>6. HandlesKept'
  <2>1. \A r \in Spans : Entered(r)' <=> Entered(r) BY Zenon, <1>1 DEF Entered
  <2> QED BY Zenon, <2>1, <1>4 DEF Inv, HandlesKept
<1>7. ASSUME NEW r \in Spans PROVE Counted(r)'
  <2>1. Trying(r)' = Trying(r) /\ Children(r)' = Children(r) BY Zenon, <1>1, SameCalls DEF Children
  <2>2. PICK c, d \in Nat : /\ HasSize(Children(r), c) /\ HasSize(Trying(r), d)
                            /\ handles[r] + c + d <= refs[r]
                            /\ OwnDefault = Threads => refs[r] = handles[r] + c + d
    BY Zenon DEF Inv, Counted
  <2>3. HasSize(Children(r)', c) /\ HasSize(Trying(r)', d) BY Zenon, <2>1, <2>2
  <2>4. /\ handles'[r] + c + d <= refs'[r]
        /\ OwnDefault = Threads => refs'[r] = handles'[r] + c + d
    BY <2>2, <1>3
  <2> QED BY Zenon, <2>3, <2>4 DEF Counted
<1>8. ASSUME NEW r \in Spans PROVE Alive(r)' /\ Untouched(r)' /\ Marked(r)'
  <2>1. Alive(r) /\ Untouched(r) /\ Marked(r) BY Zenon DEF Inv
  <2>2. Alive(r)' BY Zenon, <2>1, <1>4, <1>1 DEF Alive, Closer
  <2>3. Untouched(r)' BY Zenon, <2>1, <1>4, <1>1 DEF Untouched, Closer
  <2>4. Marked(r)' BY Zenon, <2>1, <1>4, <1>1 DEF Marked, Closer, ClosedTo
  <2> QED BY Zenon, <2>2, <2>3, <2>4
<1>9. \A r \in Spans : \E n \in 0..Layers : ClosedTo(r, n)' BY Zenon, <1>1 DEF Inv, ClosedTo
<1>10. \A u \in Threads : \A i \in 1..Len(calls[u]) : Phased(calls[u][i])'
  BY <1>1 DEF Inv, Phased, ClosedTo
<1> QED BY Zenon, <1>1, <1>5, <1>6, <1>7, <1>8, <1>9, <1>10, SameCalls DEF Inv

\* Neither the entered spans nor a lookup change what is counted.
LEMMA QuietStep ==
  ASSUME Inv, UNCHANGED <<spanVars, handles, closeCount, calls>>, TypeOK', HandlesKept',
         \A u \in Threads : looked'[u] # looked[u] =>
           looked[u] = NoSpan /\ looked'[u] \in Spans /\ status[looked'[u]] = "open"
  PROVE  Inv'
<1> USE RegistryAssumption
<1>1. UNCHANGED <<status, refs, parent, closed>> BY Zenon DEF spanVars
<1>2. ASSUME NEW r \in Spans PROVE Counted(r)' /\ Alive(r)' /\ Untouched(r)'
  <2>1. Trying(r)' = Trying(r) /\ Children(r)' = Children(r) BY Zenon, <1>1, SameCalls DEF Children
  <2>2. Counted(r) /\ Alive(r) /\ Untouched(r) BY Zenon DEF Inv
  <2>3. Counted(r)' BY Zenon, <2>1, <2>2, <1>1 DEF Counted
  <2>4. Alive(r)' BY Zenon, <2>2, <1>1 DEF Alive, Closer
  <2>5. Untouched(r)' BY Zenon, <2>2, <1>1 DEF Untouched, Closer
  <2> QED BY Zenon, <2>3, <2>4, <2>5
<1>3. ASSUME NEW r \in Spans PROVE Marked(r)'
  <2>1. Marked(r) BY Zenon DEF Inv
  <2>2. \A u \in Threads : looked[u] = r => looked'[u] = r BY Zenon
  <2> QED BY Zenon, <2>1, <2>2, <1>1 DEF Marked, Closer, ClosedTo
<1>4. \A r \in Spans : \E n \in 0..Layers : ClosedTo(r, n)' BY Zenon, <1>1 DEF Inv, ClosedTo
<1>5. ASSUME NEW u \in Threads, NEW i \in 1..Len(calls[u]) PROVE Phased(calls[u][i])'
  <2>1. Phased(calls[u][i]) BY Zenon DEF Inv
  <2> QED BY Zenon, <2>1, <1>1 DEF Phased, ClosedTo
<1> QED BY Zenon, <1>2, <1>3, <1>4, <1>5, SameCalls DEF Inv

\* enter, of a span that has a handle.
LEMMA EnterStep ==
  ASSUME Inv, NEW t \in Threads, NEW s \in Spans, Enter(t, s)
  PROVE  Inv'
<1>1. /\ handles[s] > 0 /\ UNCHANGED <<spanVars, handles, closeCount, calls, looked>>
      /\ stack' = [stack EXCEPT ![t] = Context!Push(@, s)]
  BY Zenon DEF Enter
<1> DEFINE e == [id |-> s, duplicate |-> Context!At(stack[t], s) # {}]
<1>2. e \in Context!ContextId /\ e.id = s BY Zenon DEF Context!ContextId
<1>3. stack \in [Threads -> Seq(Context!ContextId)] BY Zenon DEF Inv, TypeOK
<1>4. stack' = [stack EXCEPT ![t] = Append(@, e)] BY Zenon, <1>1 DEF Context!Push
<1> HIDE DEF e
<1>5. /\ stack' \in [Threads -> Seq(Context!ContextId)]
      /\ \A u \in Threads : u # t => stack'[u] = stack[u]
      /\ stack'[t] = Append(stack[t], e)
  BY <1>2, <1>3, <1>4
<1>6. TypeOK' BY Zenon, <1>1, <1>5 DEF Inv, TypeOK, spanVars
<1>7. ASSUME NEW r \in Spans, Entered(r)' PROVE handles[r] > 0
  <2>1. PICK u \in Threads : \E i \in DOMAIN stack'[u] : stack'[u][i].id = r
    BY Zenon, <1>7 DEF Entered, Context!At
  <2>2. PICK i \in DOMAIN stack'[u] : stack'[u][i].id = r BY Zenon, <2>1
  <2>3. CASE u # t
    BY Zenon, <2>2, <2>3, <1>5 DEF Inv, HandlesKept, Entered, Context!At
  <2>4. CASE u = t
    <3>1. (i \in DOMAIN stack[t] /\ stack'[t][i] = stack[t][i]) \/ stack'[t][i] = e
      BY <2>2, <2>4, <1>2, <1>3, <1>5, AppendSeq
    <3>2. CASE stack'[t][i] = e BY Zenon, <3>2, <2>2, <2>4, <1>1, <1>2
    <3>3. CASE i \in DOMAIN stack[t] /\ stack'[t][i] = stack[t][i]
      BY Zenon, <3>3, <2>2, <2>4 DEF Inv, HandlesKept, Entered, Context!At
    <3> QED BY Zenon, <3>1, <3>2, <3>3
  <2> QED BY Zenon, <2>3, <2>4
<1>8. HandlesKept' BY Zenon, <1>1, <1>7 DEF HandlesKept
<1> QED BY Zenon, <1>1, <1>6, <1>8, QuietStep

\* exit removes one entry.
LEMMA ExitStep ==
  ASSUME Inv, NEW t \in Threads, NEW s \in Spans, Exit(t, s)
  PROVE  Inv'
<1>1. UNCHANGED <<spanVars, handles, closeCount, calls, looked>> BY Zenon DEF Exit
<1>2. PICK i \in DOMAIN stack[t] : stack' = [stack EXCEPT ![t] = Context!VecRemove(@, i)]
  BY Zenon DEF Exit
<1>3. stack \in [Threads -> Seq(Context!ContextId)] BY Zenon DEF Inv, TypeOK
<1> DEFINE new == Context!VecRemove(stack[t], i)
<1>4. new = [j \in 1..Len(stack[t]) - 1 |-> IF j < i THEN stack[t][j] ELSE stack[t][j + 1]]
  BY Zenon DEF Context!VecRemove
<1>5. /\ Len(stack[t]) - 1 \in Nat /\ DOMAIN stack[t] = 1..Len(stack[t])
      /\ \A j \in 1..Len(stack[t]) : stack[t][j] \in Context!ContextId
  BY <1>3
<1> HIDE DEF new
<1>6. /\ DOMAIN new = 1..Len(stack[t]) - 1
      /\ \A j \in DOMAIN new : \E k \in DOMAIN stack[t] : new[j] = stack[t][k]
  <2>1. DOMAIN new = 1..Len(stack[t]) - 1 BY Zenon, <1>4
  <2>2. ASSUME NEW j \in DOMAIN new PROVE \E k \in DOMAIN stack[t] : new[j] = stack[t][k]
    <3>1. j \in 1..Len(stack[t]) /\ j + 1 \in 1..Len(stack[t]) BY <2>1, <1>5
    <3>2. new[j] = IF j < i THEN stack[t][j] ELSE stack[t][j + 1] BY Zenon, <2>1, <1>4
    <3> QED BY Zenon, <3>1, <3>2, <1>5
  <2> QED BY Zenon, <2>1, <2>2
<1>7. new \in Seq(Context!ContextId) BY <1>4, <1>5
<1>8. /\ stack' \in [Threads -> Seq(Context!ContextId)]
      /\ \A u \in Threads : u # t => stack'[u] = stack[u]
      /\ stack'[t] = new
  BY Zenon, <1>2, <1>3, <1>7 DEF new
<1>9. TypeOK' BY Zenon, <1>1, <1>8 DEF Inv, TypeOK, spanVars
<1>10. ASSUME NEW r \in Spans, Entered(r)' PROVE Entered(r)
  <2>1. PICK u \in Threads : \E j \in DOMAIN stack'[u] : stack'[u][j].id = r
    BY Zenon, <1>10 DEF Entered, Context!At
  <2>2. \E j \in DOMAIN stack[u] : stack[u][j].id = r BY <2>1, <1>6, <1>8
  <2> QED BY Zenon, <2>2 DEF Entered, Context!At
<1>11. HandlesKept' BY Zenon, <1>1, <1>10 DEF Inv, HandlesKept
<1> QED BY Zenon, <1>1, <1>9, <1>11, QuietStep

\* A lookup finds open spans only.
LEMMA LookStep ==
  ASSUME Inv, NEW t \in Threads, NEW s \in Spans, Look(t, s)
  PROVE  Inv'
<1>1. /\ looked[t] = NoSpan /\ status[s] = "open"
      /\ looked' = [looked EXCEPT ![t] = s]
      /\ UNCHANGED <<spanVars, handles, stack, closeCount, calls>>
  BY Zenon DEF Look
<1>2. TypeOK' BY Zenon, <1>1 DEF Inv, TypeOK, spanVars
<1>3. HandlesKept' BY Zenon, <1>1 DEF Inv, HandlesKept, Entered
<1>4. \A u \in Threads : looked'[u] # looked[u] =>
        looked[u] = NoSpan /\ looked'[u] \in Spans /\ status[looked'[u]] = "open"
  BY Zenon, <1>1 DEF Inv, TypeOK
<1> QED BY Zenon, <1>1, <1>2, <1>3, <1>4, QuietStep

-----------------------------------------------------------------------------
(* How the calls of a thread change                                        *)

\* A call counts for no layers or for all of them.
LEMMA WeightNat == \A fr \in Frame : Weight(fr) \in Nat
  BY RegistryAssumption DEF Weight, Frame, Phases

\* The CloseGuards of the calls after one is added, has gone or has changed.
LEMMA SumsAppend ==
  ASSUME NEW c \in Seq(Frame), NEW f \in [0..Len(c) -> Nat], Sums(f, c), NEW fr \in Frame,
         ~Reentrant => f[Len(c)] = 0
  PROVE  \E g \in [0..Len(Append(c, fr)) -> Nat] :
           Sums(g, Append(c, fr)) /\ g[Len(Append(c, fr))] = f[Len(c)] + Weight(fr)
<1> USE RegistryAssumption
<1> DEFINE d == Append(c, fr)
           g == [i \in 0..Len(c) + 1 |-> IF i <= Len(c) THEN f[i] ELSE f[Len(c)] + Weight(fr)]
<1>1. /\ Len(d) = Len(c) + 1 /\ Len(c) \in Nat /\ d[Len(c) + 1] = fr
      /\ \A i \in 1..Len(c) : d[i] = c[i]
  BY AppendSeq
<1>2. Weight(fr) \in Nat BY Zenon, WeightNat
<1> HIDE DEF d
<1>3. /\ g \in [0..Len(d) -> Nat] /\ g[0] = 0 /\ g[Len(d)] = f[Len(c)] + Weight(fr)
      /\ \A i \in 0..Len(c) : g[i] = f[i]
  BY <1>1, <1>2 DEF Sums
<1> HIDE DEF g
<1>4. ASSUME NEW i \in 1..Len(d) PROVE g[i] = g[i - 1] + Weight(d[i])
  <2>1. CASE i = Len(c) + 1 BY <2>1, <1>1, <1>3
  <2>2. CASE i # Len(c) + 1
    <3>1. i \in 1..Len(c) /\ i \in 0..Len(c) /\ i - 1 \in 0..Len(c) BY <2>2, <1>1
    <3> QED BY Zenon, <3>1, <1>1, <1>3 DEF Sums
  <2> QED BY Zenon, <2>1, <2>2
<1>5. ~Reentrant => \A i \in 0..Len(d) - 1 : g[i] = 0
  <2> SUFFICES ASSUME ~Reentrant, NEW i \in 0..Len(d) - 1 PROVE g[i] = 0 BY Zenon
  <2>1. i = Len(c) \/ i \in 0..Len(c) - 1 BY <1>1
  <2>2. i \in 0..Len(c) BY <1>1
  <2> QED BY Zenon, <2>1, <2>2, <1>3 DEF Sums
<1>6. Sums(g, d) BY Zenon, <1>3, <1>4, <1>5 DEF Sums
<1> QED BY Zenon, <1>3, <1>6 DEF d

\* CLOSE_COUNT after the innermost call returned.
LEMMA SumsShorter ==
  ASSUME NEW c \in Seq(Frame), NEW f \in [0..Len(c) -> Nat], Sums(f, c), c # <<>>,
         NEW d \in Seq(Frame), Len(d) = Len(c) - 1, \A i \in 1..Len(c) - 1 : d[i] = c[i]
  PROVE  \E g \in [0..Len(d) -> Nat] :
           Sums(g, d) /\ g[Len(d)] = f[Len(c)] - Weight(c[Len(c)])
<1> USE RegistryAssumption
<1> DEFINE g == [i \in 0..Len(d) |-> f[i]]
<1>1. Len(c) \in Nat \ {0} /\ Len(d) \in Nat OBVIOUS
<1>2. /\ g \in [0..Len(d) -> Nat] /\ g[0] = 0
      /\ \A i \in 0..Len(d) : g[i] = f[i]
  BY <1>1 DEF Sums
<1> HIDE DEF g
<1>3. f[Len(c)] = f[Len(c) - 1] + Weight(c[Len(c)]) BY <1>1 DEF Sums
<1>4. c[Len(c)] \in Frame BY <1>1
<1>5. Weight(c[Len(c)]) \in Nat BY Zenon, <1>4, WeightNat
<1>6. g[Len(d)] = f[Len(c) - 1] /\ f[Len(c) - 1] \in Nat
  <2>1. Len(d) \in 0..Len(d) /\ Len(c) - 1 \in 0..Len(c) BY <1>1
  <2> QED BY Zenon, <2>1, <1>2
<1>7. \A i \in 1..Len(d) : g[i] = g[i - 1] + Weight(d[i]) BY <1>1, <1>2 DEF Sums
<1>8. ~Reentrant => \A i \in 0..Len(d) - 1 : g[i] = 0 BY <1>1, <1>2 DEF Sums
<1>9. Sums(g, d) BY Zenon, <1>2, <1>7, <1>8 DEF Sums
<1>10. g[Len(d)] = f[Len(c)] - Weight(c[Len(c)]) BY <1>3, <1>5, <1>6
<1> QED BY Zenon, <1>2, <1>9, <1>10

\* CLOSE_COUNT after the phase of the innermost call changed.
LEMMA SumsChanged ==
  ASSUME NEW c \in Seq(Frame), NEW f \in [0..Len(c) -> Nat], Sums(f, c), c # <<>>,
         NEW d \in Seq(Frame), Len(d) = Len(c), \A i \in 1..Len(c) - 1 : d[i] = c[i]
  PROVE  \E g \in [0..Len(d) -> Nat] :
           Sums(g, d) /\ g[Len(d)] = f[Len(c)] - Weight(c[Len(c)]) + Weight(d[Len(d)])
<1> USE RegistryAssumption
<1> DEFINE g == [i \in 0..Len(d) |-> IF i = Len(d) THEN f[i - 1] + Weight(d[i]) ELSE f[i]]
<1>1. Len(c) \in Nat \ {0} OBVIOUS
<1>2. f[Len(c)] = f[Len(c) - 1] + Weight(c[Len(c)]) BY <1>1 DEF Sums
<1>3. c[Len(c)] \in Frame /\ d[Len(d)] \in Frame BY <1>1
<1>4. Weight(c[Len(c)]) \in Nat /\ Weight(d[Len(d)]) \in Nat BY Zenon, <1>3, WeightNat
<1>5. /\ g \in [0..Len(d) -> Nat] /\ g[0] = 0
      /\ \A i \in 0..Len(d) - 1 : g[i] = f[i]
      /\ g[Len(d)] = f[Len(d) - 1] + Weight(d[Len(d)])
  <2>1. /\ 0 \in 0..Len(d) - 1 /\ Len(d) \in 0..Len(d) /\ Len(d) - 1 \in 0..Len(c)
        /\ \A i \in 0..Len(d) - 1 : i \in 0..Len(d) /\ i # Len(d) /\ i \in 0..Len(c)
        /\ \A i \in 0..Len(d) : i # Len(d) => i \in 0..Len(d) - 1
    BY <1>1
  <2>2. f[Len(d) - 1] + Weight(d[Len(d)]) \in Nat
    <3>1. f[Len(d) - 1] \in Nat BY Zenon, <2>1
    <3> QED BY <3>1, <1>4
  <2>3. \A i \in 0..Len(d) - 1 : f[i] \in Nat BY Zenon, <2>1
  <2>4. f[0] = 0 BY Zenon DEF Sums
  <2> QED BY Zenon, <2>1, <2>2, <2>3, <2>4
<1> HIDE DEF g
<1>6. ASSUME NEW i \in 1..Len(d) PROVE g[i] = g[i - 1] + Weight(d[i])
  <2>1. i - 1 \in 0..Len(d) - 1 BY <1>1
  <2>2. CASE i = Len(d) BY Zenon, <2>1, <2>2, <1>1, <1>5
  <2>3. CASE i # Len(d)
    <3>1. i \in 0..Len(d) - 1 /\ i \in 1..Len(c) - 1 BY <2>3, <1>1
    <3> QED BY Zenon, <2>1, <3>1, <1>1, <1>5 DEF Sums
  <2> QED BY Zenon, <2>2, <2>3
<1>7. ~Reentrant => \A i \in 0..Len(d) - 1 : g[i] = 0 BY Zenon, <1>1, <1>5 DEF Sums
<1>8. Sums(g, d) BY Zenon, <1>5, <1>6, <1>7 DEF Sums
<1>9. Len(c) - 1 \in 0..Len(c) BY <1>1
<1>10. f[Len(c) - 1] \in Nat BY Zenon, <1>9
<1>11. g[Len(d)] = f[Len(c)] - Weight(c[Len(c)]) + Weight(d[Len(d)])
  BY <1>2, <1>4, <1>5, <1>10
<1> QED BY Zenon, <1>5, <1>8, <1>11

\* What a thread does to its calls does not concern the calls of the others.
LEMMA OtherCalls ==
  ASSUME Inv, NEW t \in Threads, \A u \in Threads : u # t => calls'[u] = calls[u],
         \A u \in Threads : u # t => closeCount'[u] = closeCount[u]
  PROVE  /\ \A u \in Threads : u # t => Below(u)' /\ Guarded(u)'
         /\ \A r \in Spans : Trying(r)' \ {t} = Trying(r) \ {t}
         /\ \A u \in Threads : u # t =>
              \A r \in Spans : \A i \in Nat : Closer(u, i, r)' <=> Closer(u, i, r)
<1>1. \A u \in Threads : u # t => Below(u)' BY DEF Inv, Below
<1>2. ASSUME NEW u \in Threads, u # t PROVE Guarded(u)'
  <2>1. Guarded(u) /\ calls'[u] = calls[u] /\ closeCount'[u] = closeCount[u] BY Zenon, <1>2 DEF Inv
  <2> QED BY Zenon, <2>1 DEF Guarded, Sums, Weight
<1>3. \A r \in Spans : Trying(r)' \ {t} = Trying(r) \ {t} BY Zenon DEF Trying, At, Idle, Top
<1>4. \A u \in Threads : u # t =>
        \A r \in Spans : \A i \in Nat : Closer(u, i, r)' <=> Closer(u, i, r)
  BY Zenon DEF Closer
<1> QED BY Zenon, <1>1, <1>2, <1>3, <1>4

\* A call returns.  The one below it, if any, is not about to decrement.
LEMMA PopEffect ==
  ASSUME Inv, NEW t \in Threads, ~Idle(t), calls' = Pop(t),
         closeCount' = [closeCount EXCEPT ![t] = @ - Weight(Top(t))]
  PROVE  /\ calls' \in [Threads -> Seq(Frame)] /\ closeCount' \in [Threads -> Nat]
         /\ OneCloser' /\ \A u \in Threads : Below(u)' /\ Guarded(u)'
         /\ \A r \in Spans : Trying(r)' = Trying(r) \ {t}
         /\ \A u \in Threads : \A r \in Spans : \A i \in Nat :
              Closer(u, i, r)' <=> Closer(u, i, r) /\ ~(u = t /\ i = Len(calls[t]))
         /\ \A u \in Threads : \A i \in 1..Len(calls'[u]) :
              /\ i \in 1..Len(calls[u]) /\ calls'[u][i] = calls[u][i]
              /\ ~(u = t /\ i = Len(calls[t]))
<1> USE RegistryAssumption
<1>1. TypeOK BY Zenon DEF Inv
<1>2. /\ calls' \in [Threads -> Seq(Frame)]
      /\ \A u \in Threads : u # t => calls'[u] = calls[u]
      /\ Len(calls'[t]) = Len(calls[t]) - 1 /\ Len(calls[t]) \in Nat \ {0}
      /\ \A i \in 1..Len(calls[t]) - 1 : calls'[t][i] = calls[t][i]
  BY Zenon, <1>1, PopCalls
<1>3. calls[t] \in Seq(Frame) /\ calls[t] # <<>> /\ closeCount \in [Threads -> Nat]
  BY Zenon, <1>1 DEF TypeOK, Idle
<1>4. PICK f \in [0..Len(calls[t]) -> Nat] :
        Sums(f, calls[t]) /\ closeCount[t] = f[Len(calls[t])]
  BY Zenon DEF Inv, Guarded
<1>5. PICK g \in [0..Len(calls'[t]) -> Nat] :
        Sums(g, calls'[t]) /\ g[Len(calls'[t])] = f[Len(calls[t])] - Weight(calls[t][Len(calls[t])])
  <2>1. calls'[t] \in Seq(Frame) BY Zenon, <1>2
  <2> QED BY Zenon, <2>1, <1>2, <1>3, <1>4, SumsShorter
<1>6. closeCount'[t] = g[Len(calls'[t])] BY Zenon, <1>3, <1>4, <1>5 DEF Top
<1>7. \A u \in Threads : u # t => closeCount'[u] = closeCount[u] BY Zenon, <1>3
<1>8. closeCount' \in [Threads -> Nat]
  <2>0. Len(calls'[t]) \in 0..Len(calls'[t]) BY <1>2
  <2>1. g[Len(calls'[t])] \in Nat BY Zenon, <2>0, <1>5
  <2>2. closeCount' = [closeCount EXCEPT ![t] = g[Len(calls'[t])]] BY Zenon, <1>3, <1>6
  <2> HIDE <1>5
  <2> QED BY Zenon, <2>1, <2>2, <1>3
<1>9. Guarded(t)' BY Zenon, <1>5, <1>6 DEF Guarded, Sums, Weight
<1>10. Below(t)'
  <2>1. \A i \in 1..Len(calls'[t]) - 1 : i \in 1..Len(calls[t]) - 1 BY <1>2
  <2> QED BY <2>1, <1>2 DEF Inv, Below
<1>11. \A u \in Threads : Below(u)' /\ Guarded(u)' BY Zenon, <1>2, <1>7, <1>9, <1>10, OtherCalls
<1>12. ASSUME NEW r \in Spans PROVE Trying(r)' = Trying(r) \ {t}
  <2>1. t \notin Trying(r)'
    <3> SUFFICES ASSUME t \in Trying(r)' PROVE FALSE BY Zenon
    <3>1. calls'[t] # <<>> /\ calls'[t][Len(calls'[t])].phase = "try"
      BY Zenon DEF Trying, At, Idle, Top
    <3>2. calls'[t] \in Seq(Frame) BY Zenon, <1>2
    <3>3. Len(calls'[t]) \in 1..Len(calls[t]) - 1
      <4>1. Len(calls'[t]) \in Nat /\ Len(calls'[t]) # 0 BY Zenon, <3>1, <3>2, EmptySeq
      <4>2. Len(calls'[t]) = Len(calls[t]) - 1 BY Zenon, <1>2
      <4>3. Len(calls[t]) \in Nat BY Zenon, <1>2
      <4> QED BY <4>1, <4>2, <4>3
    <3>4. calls[t][Len(calls'[t])].phase = "try" BY Zenon, <3>1, <3>3, <1>2
    <3> QED BY Zenon, <3>3, <3>4 DEF Inv, Below
  <2>2. Trying(r)' \ {t} = Trying(r) \ {t} BY Zenon, <1>2, <1>7, OtherCalls
  <2> QED BY Zenon, <2>1, <2>2
<1>13. \A u \in Threads : \A r \in Spans : \A i \in Nat :
         Closer(u, i, r)' <=> Closer(u, i, r) /\ ~(u = t /\ i = Len(calls[t]))
  <2>1. \A r \in Spans : \A i \in Nat :
          Closer(t, i, r)' <=> Closer(t, i, r) /\ i # Len(calls[t])
    BY <1>2 DEF Closer
  <2>2. \A u \in Threads : u # t =>
          \A r \in Spans : \A i \in Nat : Closer(u, i, r)' <=> Closer(u, i, r)
    BY Zenon, <1>2, <1>7, OtherCalls
  <2> QED BY Zenon, <2>1, <2>2
<1>14. \A u \in Threads : \A i \in 1..Len(calls'[u]) :
         /\ i \in 1..Len(calls[u]) /\ calls'[u][i] = calls[u][i]
         /\ ~(u = t /\ i = Len(calls[t]))
  BY <1>2
<1>15. OneCloser'
  <2> SUFFICES ASSUME NEW u \in Threads, NEW v \in Threads, NEW i \in 1..Len(calls'[u]),
                      NEW j \in 1..Len(calls'[v]), NEW r \in Spans,
                      Closer(u, i, r)', Closer(v, j, r)'
               PROVE  u = v /\ i = j
    BY DEF OneCloser
  <2>1. Closer(u, i, r) /\ Closer(v, j, r) BY <1>13
  <2>2. i \in 1..Len(calls[u]) /\ j \in 1..Len(calls[v]) BY Zenon, <1>14
  <2> QED BY Zenon, <2>1, <2>2 DEF Inv, OneCloser
<1> QED BY Zenon, <1>2, <1>8, <1>11, <1>12, <1>13, <1>14, <1>15

\* A call goes on to a later phase, as the only one that closes its span.
LEMMA TopEffect ==
  ASSUME Inv, NEW t \in Threads, ~Idle(t), NEW fr \in Frame, calls' = SetTop(t, fr),
         closeCount' = [closeCount EXCEPT ![t] = @ - Weight(Top(t)) + Weight(fr)],
         fr.phase # "try", fr.id = Top(t).id,
         \A u \in Threads : \A i \in Nat : Closer(u, i, fr.id) => u = t /\ i = Len(calls[t])
  PROVE  /\ calls' \in [Threads -> Seq(Frame)] /\ closeCount' \in [Threads -> Nat]
         /\ OneCloser' /\ \A u \in Threads : Below(u)' /\ Guarded(u)'
         /\ \A r \in Spans : Trying(r)' = Trying(r) \ {t}
         /\ \A u \in Threads : \A r \in Spans : \A i \in Nat :
              Closer(u, i, r)' <=> \/ Closer(u, i, r)
                                   \/ u = t /\ i = Len(calls[t]) /\ r = fr.id
         /\ \A u \in Threads : \A i \in 1..Len(calls'[u]) :
              /\ i \in 1..Len(calls[u])
              /\ \/ calls'[u][i] = calls[u][i] /\ ~(u = t /\ i = Len(calls[t]))
                 \/ u = t /\ i = Len(calls[t]) /\ calls'[u][i] = fr
<1> USE RegistryAssumption
<1>1. TypeOK BY Zenon DEF Inv
<1>2. /\ calls' \in [Threads -> Seq(Frame)]
      /\ \A u \in Threads : u # t => calls'[u] = calls[u]
      /\ Len(calls'[t]) = Len(calls[t]) /\ Len(calls[t]) \in Nat \ {0}
      /\ \A i \in 1..Len(calls[t]) - 1 : calls'[t][i] = calls[t][i]
      /\ calls'[t][Len(calls[t])] = fr
  <2>1. /\ SetTop(t, fr) \in [Threads -> Seq(Frame)]
        /\ \A u \in Threads : u # t => SetTop(t, fr)[u] = calls[u]
        /\ Len(SetTop(t, fr)[t]) = Len(calls[t]) /\ Len(calls[t]) \in Nat \ {0}
        /\ \A i \in 1..Len(calls[t]) - 1 : SetTop(t, fr)[t][i] = calls[t][i]
        /\ SetTop(t, fr)[t][Len(calls[t])] = fr
    BY Zenon, <1>1, SetTopCalls
  <2> QED BY Zenon, <2>1
<1>3. calls[t] \in Seq(Frame) /\ calls[t] # <<>> /\ closeCount \in [Threads -> Nat]
  BY Zenon, <1>1 DEF TypeOK, Idle
<1>4. PICK f \in [0..Len(calls[t]) -> Nat] :
        Sums(f, calls[t]) /\ closeCount[t] = f[Len(calls[t])]
  BY Zenon DEF Inv, Guarded
<1>5. PICK g \in [0..Len(calls'[t]) -> Nat] :
        Sums(g, calls'[t]) /\ g[Len(calls'[t])]
          = f[Len(calls[t])] - Weight(calls[t][Len(calls[t])]) + Weight(calls'[t][Len(calls'[t])])
  <2>1. calls'[t] \in Seq(Frame) BY Zenon, <1>2
  <2>2. Len(calls'[t]) = Len(calls[t]) /\ \A i \in 1..Len(calls[t]) - 1 : calls'[t][i] = calls[t][i]
    BY Zenon, <1>2
  <2> DEFINE c == calls[t]
             d == calls'[t]
  <2>3. /\ c \in Seq(Frame) /\ f \in [0..Len(c) -> Nat] /\ Sums(f, c) /\ c # <<>>
        /\ d \in Seq(Frame) /\ Len(d) = Len(c) /\ \A i \in 1..Len(c) - 1 : d[i] = c[i]
    BY Zenon, <2>1, <2>2, <1>3, <1>4
  <2> HIDE DEF c, d
  <2>4. \E g \in [0..Len(d) -> Nat] :
          Sums(g, d) /\ g[Len(d)] = f[Len(c)] - Weight(c[Len(c)]) + Weight(d[Len(d)])
    BY Zenon, <2>3, SumsChanged
  <2> QED BY Zenon, <2>4 DEF c, d
<1>6. closeCount'[t] = g[Len(calls'[t])] BY Zenon, <1>2, <1>3, <1>4, <1>5 DEF Top
<1>7. \A u \in Threads : u # t => closeCount'[u] = closeCount[u] BY Zenon, <1>3
<1>8. closeCount' \in [Threads -> Nat]
  <2>0. Len(calls'[t]) \in 0..Len(calls'[t]) BY <1>2
  <2>1. g[Len(calls'[t])] \in Nat BY Zenon, <2>0, <1>5
  <2>2. closeCount' = [closeCount EXCEPT ![t] = g[Len(calls'[t])]] BY Zenon, <1>3, <1>6
  <2> HIDE <1>5
  <2> QED BY Zenon, <2>1, <2>2, <1>3
<1>9. Guarded(t)' BY Zenon, <1>5, <1>6 DEF Guarded, Sums, Weight
<1>10. Below(t)'
  <2>1. Len(calls'[t]) - 1 = Len(calls[t]) - 1 BY Zenon, <1>2
  <2>2. Below(t) BY Zenon DEF Inv
  <2> QED BY Zenon, <2>1, <2>2, <1>2 DEF Below
<1>11. \A u \in Threads : Below(u)' /\ Guarded(u)' BY Zenon, <1>2, <1>7, <1>9, <1>10, OtherCalls
<1>12. ASSUME NEW r \in Spans PROVE Trying(r)' = Trying(r) \ {t}
  <2>1. t \notin Trying(r)' BY Zenon, <1>2 DEF Trying, At, Idle, Top
  <2>2. Trying(r)' \ {t} = Trying(r) \ {t} BY Zenon, <1>2, <1>7, OtherCalls
  <2> QED BY Zenon, <2>1, <2>2
<1>13. \A u \in Threads : \A r \in Spans : \A i \in Nat :
         Closer(u, i, r)' <=> \/ Closer(u, i, r)
                              \/ u = t /\ i = Len(calls[t]) /\ r = fr.id
  <2>1. ASSUME NEW r \in Spans, NEW i \in Nat, i # Len(calls[t])
        PROVE  Closer(t, i, r)' <=> Closer(t, i, r)
    <3>1. i \in 1..Len(calls[t]) => i \in 1..Len(calls[t]) - 1 BY <2>1, <1>2
    <3>2. i \in 1..Len(calls'[t]) <=> i \in 1..Len(calls[t]) BY Zenon, <1>2
    <3> QED BY Zenon, <3>1, <3>2, <1>2 DEF Closer
  <2>2. ASSUME NEW r \in Spans
        PROVE  Closer(t, Len(calls[t]), r)' <=> r = fr.id
    BY <1>2 DEF Closer
  <2>3. \A r \in Spans : Closer(t, Len(calls[t]), r) => r = fr.id BY Zenon DEF Closer, Top
  <2>4. \A u \in Threads : u # t =>
          \A r \in Spans : \A i \in Nat : Closer(u, i, r)' <=> Closer(u, i, r)
    BY Zenon, <1>2, <1>7, OtherCalls
  <2> SUFFICES ASSUME NEW u \in Threads, NEW r \in Spans, NEW i \in Nat
               PROVE  Closer(u, i, r)' <=> \/ Closer(u, i, r)
                                           \/ u = t /\ i = Len(calls[t]) /\ r = fr.id
    BY Zenon
  <2>5. CASE u # t BY Zenon, <2>4, <2>5
  <2>6. CASE u = t /\ i # Len(calls[t]) BY Zenon, <2>1, <2>6
  <2>7. CASE u = t /\ i = Len(calls[t])
    <3>1. Closer(t, Len(calls[t]), r)' <=> r = fr.id BY Zenon, <2>2
    <3>2. Closer(t, Len(calls[t]), r) => r = fr.id BY Zenon, <2>3
    <3>3. Closer(u, i, r)' <=> Closer(t, Len(calls[t]), r)' BY Zenon, <2>7, <1>2 DEF Closer
    <3> QED BY Zenon, <3>1, <3>2, <3>3, <2>7
  <2> QED BY Zenon, <2>5, <2>6, <2>7
<1>14. \A u \in Threads : \A i \in 1..Len(calls'[u]) :
         /\ i \in 1..Len(calls[u])
         /\ \/ calls'[u][i] = calls[u][i] /\ ~(u = t /\ i = Len(calls[t]))
            \/ u = t /\ i = Len(calls[t]) /\ calls'[u][i] = fr
  BY <1>2
<1>15. OneCloser'
  <2> SUFFICES ASSUME NEW u \in Threads, NEW v \in Threads, NEW i \in 1..Len(calls'[u]),
                      NEW j \in 1..Len(calls'[v]), NEW r \in Spans,
                      Closer(u, i, r)', Closer(v, j, r)'
               PROVE  u = v /\ i = j
    BY DEF OneCloser
  <2>1. i \in 1..Len(calls[u]) /\ j \in 1..Len(calls[v]) BY Zenon, <1>14
  <2>2. i \in Nat /\ j \in Nat BY <2>1
  <2>3. CASE r = fr.id
    <3>1. u = t /\ i = Len(calls[t]) BY Zenon, <2>2, <2>3, <1>13
    <3>2. v = t /\ j = Len(calls[t]) BY Zenon, <2>2, <2>3, <1>13
    <3> QED BY Zenon, <3>1, <3>2
  <2>4. CASE r # fr.id
    <3>1. Closer(u, i, r) /\ Closer(v, j, r) BY Zenon, <2>2, <2>4, <1>13
    <3> QED BY Zenon, <3>1, <2>1 DEF Inv, OneCloser
  <2> QED BY Zenon, <2>3, <2>4
<1> QED BY Zenon, <1>2, <1>8, <1>11, <1>12, <1>13, <1>14, <1>15

\* A thread whose calls become `base` can start to close a span.
Pushable(t, base) ==
  /\ base \in Seq(Frame) /\ Len(base) = Len(calls[t])
  /\ \A i \in 1..Len(base) :
       /\ base[i].id = calls[t][i].id /\ calls[t][i].phase # "try"
       /\ Weight(base[i]) = Weight(calls[t][i])
       /\ base[i].phase = "free" \/ (Reentrant /\ base[i].phase = "closing")
  /\ ~Reentrant => closeCount[t] = 0

\* What starting to close s changes.
Pushed(t, base, s) ==
  /\ calls' \in [Threads -> Seq(Frame)] /\ closeCount' \in [Threads -> Nat]
  /\ OneCloser' /\ \A u \in Threads : Below(u)' /\ Guarded(u)'
  /\ t \notin Trying(s) /\ Trying(s)' = Trying(s) \cup {t}
  /\ \A r \in Spans : r # s => Trying(r)' = Trying(r)
  /\ \A u \in Threads : \A r \in Spans : \A i \in Nat :
       Closer(u, i, r)' <=> Closer(u, i, r)
  /\ \A u \in Threads : \A i \in 1..Len(calls'[u]) :
       \/ u = t /\ calls'[u][i].phase = "try" /\ calls'[u][i].layer = 1
       \/ i \in 1..Len(calls[u]) /\ calls'[u][i] = IF u = t THEN base[i] ELSE calls[u][i]

\* A thread starts to close a span, from the program, from on_close, or from the
\* release of a child.
LEMMA PushEffect ==
  ASSUME Inv, NEW t \in Threads, NEW s \in Spans, NEW base,
         Pushable(t, base), StartClose(t, base, s)
  PROVE  Pushed(t, base, s)
<1> SUFFICES ASSUME base \in Seq(Frame), Len(base) = Len(calls[t]),
                    \A i \in 1..Len(base) :
                      /\ base[i].id = calls[t][i].id /\ calls[t][i].phase # "try"
                      /\ Weight(base[i]) = Weight(calls[t][i])
                      /\ base[i].phase = "free" \/ (Reentrant /\ base[i].phase = "closing"),
                    ~Reentrant => closeCount[t] = 0
             PROVE  /\ calls' \in [Threads -> Seq(Frame)] /\ closeCount' \in [Threads -> Nat]
                    /\ OneCloser' /\ \A u \in Threads : Below(u)' /\ Guarded(u)'
                    /\ t \notin Trying(s) /\ Trying(s)' = Trying(s) \cup {t}
                    /\ \A r \in Spans : r # s => Trying(r)' = Trying(r)
                    /\ \A u \in Threads : \A r \in Spans : \A i \in Nat :
                         Closer(u, i, r)' <=> Closer(u, i, r)
                    /\ \A u \in Threads : \A i \in 1..Len(calls'[u]) :
                         \/ u = t /\ calls'[u][i].phase = "try" /\ calls'[u][i].layer = 1
                         \/ i \in 1..Len(calls[u]) /\ calls'[u][i] = IF u = t THEN base[i] ELSE calls[u][i]
  BY Zenon DEF Pushable, Pushed
<1> USE RegistryAssumption
<1> DEFINE fr == [id |-> s, phase |-> "try", layer |-> 1]
<1>1. calls[t] \in Seq(Frame) /\ calls \in [Threads -> Seq(Frame)] /\ closeCount \in [Threads -> Nat]
  BY Zenon DEF Inv, TypeOK
<1>2. fr \in Frame /\ fr.id = s /\ fr.phase = "try" /\ fr.layer = 1 /\ Weight(fr) = Layers
  BY DEF Frame, Phases, Weight
<1>3. calls' = [calls EXCEPT ![t] = Append(base, fr)]
      /\ closeCount' = [closeCount EXCEPT ![t] = @ + Layers]
  BY Zenon DEF StartClose
<1> HIDE DEF fr
<1>4. Append(base, fr) \in Seq(Frame) BY <1>2
<1>5. /\ calls' \in [Threads -> Seq(Frame)] /\ closeCount' \in [Threads -> Nat]
      /\ calls'[t] = Append(base, fr) /\ closeCount'[t] = closeCount[t] + Layers
      /\ \A u \in Threads : u # t => calls'[u] = calls[u]
      /\ \A u \in Threads : u # t => closeCount'[u] = closeCount[u]
  BY <1>1, <1>3, <1>4
<1>6. /\ Len(calls'[t]) = Len(base) + 1 /\ Len(base) \in Nat /\ calls'[t][Len(base) + 1] = fr
      /\ \A i \in 1..Len(base) : calls'[t][i] = base[i]
  BY <1>2, <1>5, AppendSeq
<1>7. Guarded(t)'
  <2>1. PICK f \in [0..Len(calls[t]) -> Nat] :
          Sums(f, calls[t]) /\ closeCount[t] = f[Len(calls[t])]
    BY Zenon DEF Inv, Guarded
  <2>2. f \in [0..Len(base) -> Nat] /\ f[Len(base)] = closeCount[t] BY Zenon, <2>1
  <2>3. Sums(f, base)
    <3>1. /\ f[0] = 0 /\ \A i \in 1..Len(calls[t]) : f[i] = f[i - 1] + Weight(calls[t][i])
          /\ ~Reentrant => \A i \in 0..Len(calls[t]) - 1 : f[i] = 0
      BY Zenon, <2>1 DEF Sums
    <3>2. \A i \in 1..Len(base) : f[i] = f[i - 1] + Weight(base[i]) BY Zenon, <3>1
    <3> QED BY Zenon, <2>2, <3>1, <3>2 DEF Sums
  <2> DEFINE d == calls'[t]
  <2>4. \E g \in [0..Len(Append(base, fr)) -> Nat] :
          /\ Sums(g, Append(base, fr))
          /\ g[Len(Append(base, fr))] = f[Len(base)] + Weight(fr)
    BY Zenon, <2>2, <2>3, <1>2, SumsAppend
  <2>5. PICK g \in [0..Len(calls'[t]) -> Nat] :
          Sums(g, calls'[t]) /\ g[Len(calls'[t])] = closeCount[t] + Layers
    BY Zenon, <2>2, <2>4, <1>2, <1>5
  <2> QED BY Zenon, <2>5, <1>5 DEF Guarded, Sums, Weight
<1>8. Below(t)'
  <2>1. \A i \in 1..Len(calls'[t]) - 1 : i \in 1..Len(base) BY <1>6
  <2> QED BY Zenon, <2>1, <1>6 DEF Below
<1>9. \A u \in Threads : Below(u)' /\ Guarded(u)' BY Zenon, <1>5, <1>7, <1>8, OtherCalls
<1>10. ASSUME NEW r \in Spans
       PROVE  /\ t \notin Trying(r) /\ Trying(s)' = Trying(s) \cup {t}
              /\ r # s => Trying(r)' = Trying(r)
  <2>1. ASSUME NEW q \in Spans PROVE t \notin Trying(q)
    <3> SUFFICES ASSUME t \in Trying(q) PROVE FALSE BY Zenon
    <3>1. calls[t] # <<>> /\ calls[t][Len(calls[t])].phase = "try" BY Zenon DEF Trying, At, Idle, Top
    <3>2. Len(calls[t]) \in 1..Len(base) BY <3>1, <1>1, EmptySeq
    <3> QED BY Zenon, <3>1, <3>2
  <2>2. calls'[t] # <<>> /\ calls'[t][Len(calls'[t])] = fr BY <1>5, <1>6
  <2>3. \A q \in Spans : t \in Trying(q)' <=> q = s BY Zenon, <2>2, <1>2 DEF Trying, At, Idle, Top
  <2>4. \A q \in Spans : Trying(q)' \ {t} = Trying(q) \ {t} BY Zenon, <1>5, OtherCalls
  <2>5. t \in Trying(s)' /\ Trying(s)' \ {t} = Trying(s) \ {t} /\ t \notin Trying(s)
    BY Zenon, <2>1, <2>3, <2>4
  <2>6. r # s => t \notin Trying(r)' BY Zenon, <2>3
  <2>7. Trying(r)' \ {t} = Trying(r) \ {t} /\ t \notin Trying(r) BY Zenon, <2>1, <2>4
  <2>8. Trying(s)' = Trying(s) \cup {t} BY Zenon, <2>5
  <2>9. r # s => Trying(r)' = Trying(r) BY Zenon, <2>6, <2>7, SameWithout
  <2> QED BY Zenon, <2>7, <2>8, <2>9
<1>11. ASSUME NEW u \in Threads, NEW r \in Spans, NEW i \in Nat
       PROVE  Closer(u, i, r)' <=> Closer(u, i, r)
  <2>1. CASE u # t BY Zenon, <2>1, <1>5, OtherCalls
  <2>2. CASE u = t /\ i \in 1..Len(base)
    <3>1. i \in 1..Len(calls'[t]) /\ calls'[t][i] = base[i] /\ i \in 1..Len(calls[t]) BY <2>2, <1>6
    <3>2. base[i].phase # "try" BY Zenon, <2>2
    <3> QED BY Zenon, <2>2, <3>1, <3>2 DEF Closer
  <2>3. CASE u = t /\ i \notin 1..Len(base)
    <3>1. i \in 1..Len(calls'[t]) => calls'[t][i] = fr BY <2>3, <1>6
    <3> QED BY Zenon, <2>3, <3>1, <1>2 DEF Closer
  <2> QED BY Zenon, <2>1, <2>2, <2>3
<1>12. ASSUME NEW u \in Threads, NEW i \in 1..Len(calls'[u])
       PROVE  \/ u = t /\ calls'[u][i].phase = "try" /\ calls'[u][i].layer = 1
              \/ i \in 1..Len(calls[u]) /\ calls'[u][i] = IF u = t THEN base[i] ELSE calls[u][i]
  <2>1. CASE u # t BY Zenon, <2>1, <1>5
  <2>2. CASE u = t BY <2>2, <1>2, <1>6
  <2> QED BY Zenon, <2>1, <2>2
<1>13. OneCloser'
  <2> SUFFICES ASSUME NEW u \in Threads, NEW v \in Threads, NEW i \in 1..Len(calls'[u]),
                      NEW j \in 1..Len(calls'[v]), NEW r \in Spans,
                      Closer(u, i, r)', Closer(v, j, r)'
               PROVE  u = v /\ i = j
    BY Zenon DEF OneCloser
  <2>1. Closer(u, i, r) /\ Closer(v, j, r) BY <1>11
  <2>2. i \in 1..Len(calls[u]) /\ j \in 1..Len(calls[v]) BY Zenon, <2>1 DEF Closer
  <2> QED BY Zenon, <2>1, <2>2 DEF Inv, OneCloser
<1> QED BY Zenon, <1>5, <1>9, <1>10, <1>11, <1>12, <1>13

\* A handle becomes a thread that is about to decrement.
LEMMA DropSpanStep ==
  ASSUME Inv, NEW t \in Threads, NEW s \in Spans, DropSpan(t, s)
  PROVE  Inv'
<1> USE RegistryAssumption
<1>1. /\ Idle(t) \/ (Reentrant /\ At(t, "closing"))
      /\ handles[s] > 1 \/ (handles[s] = 1 /\ ~Entered(s))
      /\ handles' = [handles EXCEPT ![s] = @ - 1] /\ StartClose(t, calls[t], s)
      /\ UNCHANGED <<status, refs, parent, closed, stack, looked>>
  BY Zenon DEF DropSpan, spanVars
<1>2. calls[t] \in Seq(Frame) /\ TypeOK BY Zenon DEF Inv, TypeOK
<1>3. ASSUME NEW i \in 1..Len(calls[t])
      PROVE  /\ calls[t][i].phase # "try"
             /\ calls[t][i].phase = "free" \/ (Reentrant /\ calls[t][i].phase = "closing")
  <2>1. CASE i \in 1..Len(calls[t]) - 1 BY Zenon, <2>1 DEF Inv, Below
  <2>2. CASE i \notin 1..Len(calls[t]) - 1
    <3>1. i = Len(calls[t]) /\ ~Idle(t) BY <2>2, <1>2 DEF Idle
    <3> QED BY Zenon, <3>1, <1>1 DEF At, Top
  <2> QED BY Zenon, <2>1, <2>2
<1>4. ~Reentrant => closeCount[t] = 0
  <2> SUFFICES ASSUME ~Reentrant PROVE closeCount[t] = 0 BY Zenon
  <2>1. calls[t] = <<>> BY Zenon, <1>1 DEF Idle
  <2>2. Len(calls[t]) = 0 BY <2>1
  <2> QED BY Zenon, <2>2 DEF Inv, Guarded, Sums
<1>5. /\ calls' \in [Threads -> Seq(Frame)] /\ closeCount' \in [Threads -> Nat]
      /\ OneCloser' /\ \A u \in Threads : Below(u)' /\ Guarded(u)'
      /\ t \notin Trying(s) /\ Trying(s)' = Trying(s) \cup {t}
      /\ \A r \in Spans : r # s => Trying(r)' = Trying(r)
      /\ \A u \in Threads : \A r \in Spans : \A i \in Nat :
           Closer(u, i, r)' <=> Closer(u, i, r)
      /\ \A u \in Threads : \A i \in 1..Len(calls'[u]) :
           \/ u = t /\ calls'[u][i].phase = "try" /\ calls'[u][i].layer = 1
           \/ i \in 1..Len(calls[u]) /\ calls'[u][i] = calls[u][i]
  <2>1. Pushable(t, calls[t])
    <3>1. Len(calls[t]) = Len(calls[t]) BY Zenon
    <3> QED BY Zenon, <1>2, <1>3, <1>4, <3>1 DEF Pushable
  <2>2. Pushed(t, calls[t], s) BY Zenon, <1>1, <2>1, PushEffect
  <2> QED BY Zenon, <2>2 DEF Pushed
<1>6. /\ handles' \in [Spans -> Nat] /\ handles'[s] = handles[s] - 1
      /\ \A r \in Spans : r # s => handles'[r] = handles[r]
  BY <1>1, <1>2 DEF TypeOK
<1>7. TypeOK' BY Zenon, <1>1, <1>2, <1>5, <1>6 DEF TypeOK
<1>8. HandlesKept'
  <2>1. \A r \in Spans : Entered(r)' <=> Entered(r) BY Zenon, <1>1 DEF Entered
  <2>2. handles[s] \in Nat BY Zenon, <1>2 DEF TypeOK
  <2>3. Entered(s) => handles'[s] > 0 BY <2>2, <1>1, <1>6
  <2> QED BY Zenon, <2>1, <2>3, <1>6 DEF Inv, HandlesKept
<1>9. ASSUME NEW r \in Spans PROVE Counted(r)'
  <2>1. Children(r)' = Children(r) BY Zenon, <1>1 DEF Children
  <2>2. Counted(r) BY Zenon DEF Inv
  <2>3. CASE r = s
    <3>1. PICK c, d \in Nat : /\ HasSize(Children(r), c) /\ HasSize(Trying(r), d)
                              /\ handles[r] + c + d <= refs[r]
                              /\ OwnDefault = Threads => refs[r] = handles[r] + c + d
      BY Zenon DEF Inv, Counted
    <3>2. t \notin Trying(r) /\ Trying(r)' = Trying(r) \cup {t} BY Zenon, <2>3, <1>5
    <3>3. HasSize(Children(r)', c) /\ HasSize(Trying(r)', d + 1) BY <2>1, <3>1, <3>2, AddOne
    <3>4. handles'[r] = handles[r] - 1 /\ refs'[r] = refs[r] BY Zenon, <2>3, <1>1, <1>6
    <3>5. /\ d + 1 \in Nat /\ handles'[r] + c + (d + 1) <= refs'[r]
          /\ OwnDefault = Threads => refs'[r] = handles'[r] + c + (d + 1)
      BY <3>1, <3>4, Numbers
    <3> QED BY Zenon, <3>3, <3>5 DEF Counted
  <2>4. CASE r # s
    <3>1. Trying(r)' = Trying(r) BY Zenon, <2>4, <1>5
    <3> QED BY Zenon, <2>1, <2>2, <2>4, <3>1, <1>1, <1>6 DEF Counted
  <2> QED BY Zenon, <2>3, <2>4
<1>10. ASSUME NEW r \in Spans PROVE Alive(r)' /\ Untouched(r)' /\ Marked(r)'
  <2>1. Alive(r) /\ Untouched(r) /\ Marked(r) BY Zenon DEF Inv
  <2>2. \A u \in Threads : \A i \in Nat : Closer(u, i, r)' <=> Closer(u, i, r) BY Zenon, <1>5
  <2>3. /\ \A u \in Threads : \A i \in Nat : Closer(u, i, r) => i \in 1..Len(calls[u])
        /\ \A u \in Threads : \A i \in Nat : Closer(u, i, r)' => i \in 1..Len(calls'[u])
    BY Zenon DEF Closer
  <2>4. Alive(r)' BY <2>1, <2>2, <2>3, <1>1 DEF Alive
  <2>5. Untouched(r)' BY <2>1, <2>2, <2>3, <1>1 DEF Untouched
  <2>6. Marked(r)' BY <2>1, <2>2, <2>3, <1>1 DEF Marked, ClosedTo
  <2> QED BY Zenon, <2>4, <2>5, <2>6
<1>11. \A r \in Spans : \E n \in 0..Layers : ClosedTo(r, n)' BY Zenon, <1>1 DEF Inv, ClosedTo
<1>12. ASSUME NEW u \in Threads, NEW i \in 1..Len(calls'[u]) PROVE Phased(calls[u][i])'
  <2>1. CASE calls'[u][i].phase = "try" /\ calls'[u][i].layer = 1 BY Zenon, <2>1 DEF Phased
  <2>2. CASE i \in 1..Len(calls[u]) /\ calls'[u][i] = calls[u][i]
    <3>1. Phased(calls[u][i]) BY Zenon, <2>2 DEF Inv
    <3> QED BY Zenon, <2>2, <3>1, <1>1 DEF Phased, ClosedTo
  <2> QED BY Zenon, <2>1, <2>2, <1>5
<1> QED BY Zenon, <1>5, <1>7, <1>8, <1>9, <1>10, <1>11, <1>12 DEF Inv

\* A state that differs in what is looked up, and in that a span without a lookup
\* has a call that clears it.
LEMMA UnlookStep ==
  ASSUME Inv, NEW t \in Threads, Unlook(t)
  PROVE  Inv'
<1> USE RegistryAssumption
<1> DEFINE s == looked[t]
           fr == [id |-> s, phase |-> "release", layer |-> 1]
           last == status[s] = "marked" /\ \A u \in Threads \ {t} : looked[u] # s
<1>1. /\ Idle(t) /\ s # NoSpan /\ looked' = [looked EXCEPT ![t] = NoSpan]
      /\ calls' = IF last THEN [calls EXCEPT ![t] = <<fr>>] ELSE calls
      /\ UNCHANGED <<status, refs, parent, closed, handles, stack, closeCount>>
  BY Zenon DEF Unlook, spanVars
<1>2. TypeOK /\ calls \in [Threads -> Seq(Frame)] /\ looked \in [Threads -> Spans \cup {NoSpan}]
  BY Zenon DEF Inv, TypeOK
<1>3. s \in Spans BY Zenon, <1>1, <1>2
<1>4. fr \in Frame /\ fr.id = s /\ fr.phase = "release" /\ Weight(fr) = 0
  BY <1>3 DEF Frame, Phases, Weight
<1>5. /\ looked' \in [Threads -> Spans \cup {NoSpan}] /\ looked'[t] = NoSpan
      /\ \A u \in Threads : u # t => looked'[u] = looked[u]
  BY Zenon, <1>1, <1>2
<1>6. calls[t] = <<>> /\ Len(calls[t]) = 0 BY Zenon, <1>1 DEF Idle
<1>7. last => \A u \in Threads : \A i \in Nat : ~Closer(u, i, s)
  <2> SUFFICES ASSUME status[s] = "marked", NEW u \in Threads, NEW i \in Nat, Closer(u, i, s)
               PROVE  FALSE
    BY Zenon
  <2>1. i \in 1..Len(calls[u]) /\ calls[u][i].id = s /\ calls[u][i].phase # "try" BY Zenon DEF Closer
  <2>2. calls[u][i] \in Frame BY <2>1, <1>2
  <2>3. calls[u][i].phase \in {"closing", "clear", "release", "free"}
    BY Zenon, <2>1, <2>2 DEF Frame, Phases
  <2>4. Phased(calls[u][i]) BY Zenon, <2>1 DEF Inv
  <2> QED BY Zenon, <2>1, <2>3, <2>4 DEF Phased
<1> HIDE DEF fr, last
<1>8. ASSUME last
      PROVE  /\ calls' \in [Threads -> Seq(Frame)] /\ calls'[t] = <<fr>>
             /\ \A u \in Threads : u # t => calls'[u] = calls[u]
             /\ Len(calls'[t]) = 1 /\ calls'[t][1] = fr
  <2>1. <<fr>> \in Seq(Frame) BY <1>4
  <2>2. calls' = [calls EXCEPT ![t] = <<fr>>] BY Zenon, <1>1, <1>8
  <2> QED BY Zenon, <2>1, <2>2, <1>2
<1>9. calls' \in [Threads -> Seq(Frame)] BY Zenon, <1>1, <1>2, <1>8
<1>10. \A u \in Threads : \A r \in Spans : \A i \in Nat :
         Closer(u, i, r)' <=> Closer(u, i, r) \/ (last /\ u = t /\ i = 1 /\ r = s)
  <2> SUFFICES ASSUME NEW u \in Threads, NEW r \in Spans, NEW i \in Nat
               PROVE  Closer(u, i, r)' <=> Closer(u, i, r) \/ (last /\ u = t /\ i = 1 /\ r = s)
    BY Zenon
  <2>1. CASE ~last BY Zenon, <2>1, <1>1 DEF Closer
  <2>2. CASE last /\ u # t BY Zenon, <2>2, <1>8 DEF Closer
  <2>3. CASE last /\ u = t
    <3>1. ~Closer(u, i, r) BY <2>3, <1>6 DEF Closer
    <3>2. i \in 1..1 <=> i = 1 OBVIOUS
    <3>3. Closer(u, i, r)' <=> i = 1 /\ r = s BY Zenon, <2>3, <3>2, <1>4, <1>8 DEF Closer
    <3> QED BY Zenon, <2>3, <3>1, <3>3
  <2> QED BY Zenon, <2>1, <2>2, <2>3
<1>11. ASSUME NEW u \in Threads PROVE Below(u)' /\ Guarded(u)'
  <2>1. Below(u) /\ Guarded(u) BY Zenon DEF Inv
  <2>2. CASE ~last \/ u # t
    <3>1. calls'[u] = calls[u] /\ closeCount'[u] = closeCount[u] BY Zenon, <2>2, <1>1, <1>8
    <3>2. Below(u)' BY Zenon, <2>1, <3>1 DEF Below
    <3>3. Guarded(u)' BY Zenon, <2>1, <3>1 DEF Guarded, Sums, Weight
    <3> QED BY Zenon, <3>2, <3>3
  <2>3. CASE last /\ u = t
    <3>1. closeCount'[t] = 0
      BY Zenon, <2>1, <2>3, <1>1, <1>6 DEF Guarded, Sums
    <3> DEFINE g == [i \in 0..1 |-> 0]
    <3>2. g \in [0..1 -> Nat] /\ g[0] = 0 /\ g[1] = 0 /\ \A i \in 0..0 : g[i] = 0 OBVIOUS
    <3> HIDE DEF g
    <3>3. Len(calls'[t]) = 1 /\ calls'[t][1] = fr BY Zenon, <2>3, <1>8
    <3>4. \A i \in 1..1 : g[i] = g[i - 1] + Weight(calls'[t][i])
      <4> SUFFICES ASSUME NEW i \in 1..1 PROVE g[i] = g[i - 1] + Weight(calls'[t][i]) BY Zenon
      <4>1. i = 1 /\ i - 1 = 0 OBVIOUS
      <4> QED BY <4>1, <3>2, <3>3, <1>4
    <3>5. Sums(g, calls'[t]) BY <3>2, <3>3, <3>4 DEF Sums
    <3>6. Guarded(t)' BY Zenon, <3>1, <3>2, <3>3, <3>5 DEF Guarded, Sums, Weight
    <3>7. Below(t)' BY <3>3 DEF Below
    <3> QED BY Zenon, <2>3, <3>6, <3>7
  <2> QED BY Zenon, <2>2, <2>3
<1>12. OneCloser'
  <2> SUFFICES ASSUME NEW u \in Threads, NEW v \in Threads, NEW i \in 1..Len(calls'[u]),
                      NEW j \in 1..Len(calls'[v]), NEW r \in Spans,
                      Closer(u, i, r)', Closer(v, j, r)'
               PROVE  u = v /\ i = j
    BY Zenon DEF OneCloser
  <2>1. i \in Nat /\ j \in Nat OBVIOUS
  <2>2. CASE last /\ r = s BY Zenon, <2>1, <2>2, <1>7, <1>10
  <2>3. CASE ~(last /\ r = s)
    <3>1. Closer(u, i, r) /\ Closer(v, j, r) BY Zenon, <2>1, <2>3, <1>10
    <3>2. i \in 1..Len(calls[u]) /\ j \in 1..Len(calls[v]) BY Zenon, <3>1 DEF Closer
    <3> QED BY Zenon, <3>1, <3>2 DEF Inv, OneCloser
  <2> QED BY Zenon, <2>2, <2>3
<1>13. TypeOK' BY Zenon, <1>1, <1>2, <1>5, <1>9 DEF TypeOK
<1>14. HandlesKept' BY Zenon, <1>1 DEF Inv, HandlesKept, Entered
<1>15. ASSUME NEW r \in Spans PROVE Counted(r)'
  <2>1. Children(r)' = Children(r) BY Zenon, <1>1 DEF Children
  <2>2. Trying(r)' = Trying(r)
    <3>1. ~(At(t, "try")') BY Zenon, <1>1, <1>4, <1>6, <1>8 DEF At, Idle, Top
    <3>2. t \notin Trying(r) /\ t \notin Trying(r)' BY Zenon, <3>1, <1>6 DEF Trying, At, Idle
    <3>3. \A u \in Threads : u # t => calls'[u] = calls[u] BY Zenon, <1>1, <1>8
    <3>4. Trying(r)' \ {t} = Trying(r) \ {t} BY Zenon, <3>3 DEF Trying, At, Idle, Top
    <3> QED BY Zenon, <3>2, <3>4, SameWithout
  <2>3. Counted(r) BY Zenon DEF Inv
  <2> QED BY Zenon, <2>1, <2>2, <2>3, <1>1 DEF Counted
<1>16. ASSUME NEW r \in Spans PROVE Alive(r)' /\ Untouched(r)' /\ Marked(r)'
  <2>1. Alive(r) /\ Untouched(r) /\ Marked(r) BY Zenon DEF Inv
  <2>2. \A u \in Threads : \A i \in Nat :
          Closer(u, i, r)' <=> Closer(u, i, r) \/ (last /\ u = t /\ i = 1 /\ r = s)
    BY Zenon, <1>10
  <2>3. /\ \A u \in Threads : \A i \in Nat : Closer(u, i, r) => i \in 1..Len(calls[u])
        /\ \A u \in Threads : \A i \in Nat : Closer(u, i, r)' => i \in 1..Len(calls'[u])
    BY Zenon DEF Closer
  <2>4. last /\ r = s => status[r] = "marked" BY Zenon DEF last
  <2>5. Alive(r)' BY <2>1, <2>2, <2>3, <2>4, <1>1 DEF Alive
  <2>6. Untouched(r)' BY <2>1, <2>2, <2>3, <2>4, <1>1 DEF Untouched
  <2>7. \/ status[r] # "marked" \/ \E u \in Threads : looked'[u] = r
        \/ \E u \in Threads : \E i \in 1..Len(calls'[u]) : Closer(u, i, r)'
    <3>1. CASE r # s BY <3>1, <2>1, <2>2, <2>3, <1>5 DEF Marked
    <3>2. CASE r = s /\ last
      <4>1. Closer(t, 1, r)' BY Zenon, <3>2, <2>2
      <4> QED BY Zenon, <4>1, <2>3
    <3>3. CASE r = s /\ ~last BY Zenon, <3>3, <1>5 DEF last
    <3> QED BY Zenon, <3>1, <3>2, <3>3
  <2>8. Marked(r)' BY <2>1, <2>2, <2>3, <2>7, <1>1 DEF Marked, ClosedTo
  <2> QED BY Zenon, <2>5, <2>6, <2>8
<1>17. \A r \in Spans : \E n \in 0..Layers : ClosedTo(r, n)' BY Zenon, <1>1 DEF Inv, ClosedTo
<1>18. ASSUME NEW u \in Threads, NEW i \in 1..Len(calls'[u]) PROVE Phased(calls[u][i])'
  <2>0. calls'[u] \in Seq(Frame) BY Zenon, <1>9
  <2>1. calls'[u][i] \in Frame BY <2>0
  <2>2. calls'[u][i].id \in Spans BY Zenon, <2>1 DEF Frame
  <2>3. CASE ~last \/ u # t
    <3>1. calls'[u] = calls[u] BY Zenon, <2>3, <1>1, <1>8
    <3>2. Phased(calls[u][i]) BY Zenon, <3>1 DEF Inv
    <3>3. \A v \in Threads : looked[v] # calls[u][i].id => looked'[v] # calls[u][i].id
      BY Zenon, <2>2, <3>1, <1>5
    <3> QED BY Zenon, <3>1, <3>2, <3>3, <1>1 DEF Phased, ClosedTo
  <2>4. CASE last /\ u = t
    <3>0. Len(calls'[t]) = 1 /\ calls'[t][1] = fr BY Zenon, <2>4, <1>8
    <3>1. calls'[u][i] = fr BY <2>4, <3>0
    <3>2. \A v \in Threads : looked'[v] # s BY Zenon, <2>4, <1>3, <1>5 DEF last
    <3>3. status'[s] = "marked" BY Zenon, <2>4, <1>1 DEF last
    <3> QED BY Zenon, <3>1, <3>2, <3>3, <1>4 DEF Phased
  <2> QED BY Zenon, <2>3, <2>4
<1> QED BY Zenon, <1>11, <1>12, <1>13, <1>14, <1>15, <1>16, <1>17, <1>18 DEF Inv

-----------------------------------------------------------------------------
(* The steps of try_close                                                  *)

\* A call is the only one to close or clear its span, which has no reference.
LEMMA TopCloses ==
  ASSUME Inv, NEW t \in Threads, ~Idle(t), Top(t).phase # "try"
  PROVE  /\ Phased(Top(t)) /\ refs[Top(t).id] = 0 /\ Top(t).id \in Spans
         /\ Closer(t, Len(calls[t]), Top(t).id) /\ Len(calls[t]) \in 1..Len(calls[t])
         /\ \A u \in Threads : \A i \in Nat :
              Closer(u, i, Top(t).id) => u = t /\ i = Len(calls[t])
         /\ \A r \in Spans : t \notin Trying(r)
<1>1. TypeOK BY Zenon DEF Inv
<1>2. Top(t).id \in Spans /\ Len(calls[t]) \in Nat \ {0} /\ Top(t) = calls[t][Len(calls[t])]
  BY Zenon, <1>1, TopCall
<1>3. Len(calls[t]) \in 1..Len(calls[t]) BY <1>2
<1>4. Closer(t, Len(calls[t]), Top(t).id) BY Zenon, <1>2, <1>3 DEF Closer
<1>5. refs[Top(t).id] = 0 BY Zenon, <1>2, <1>3, <1>4, Needed
<1>6. Phased(Top(t)) BY Zenon, <1>2, <1>3 DEF Inv
<1>7. ASSUME NEW u \in Threads, NEW i \in Nat, Closer(u, i, Top(t).id)
      PROVE  u = t /\ i = Len(calls[t])
  <2>1. i \in 1..Len(calls[u]) BY Zenon, <1>7 DEF Closer
  <2> QED BY Zenon, <2>1, <1>2, <1>3, <1>4, <1>7 DEF Inv, OneCloser
<1>8. \A r \in Spans : t \notin Trying(r) BY Zenon DEF Trying, At
<1> QED BY Zenon, <1>2, <1>3, <1>4, <1>5, <1>6, <1>7, <1>8

\* fetch_sub: the thread is not about to decrement any more.  With the last
\* reference its call is the first to close the span.
LEMMA TryCloseStep ==
  ASSUME Inv, NEW t \in Threads, TryClose(t)
  PROVE  Inv'
<1> USE RegistryAssumption
<1>1. /\ ~Idle(t) /\ Top(t).phase = "try"
      /\ UNCHANGED <<status, parent, closed, handles, stack, looked>>
  BY Zenon DEF TryClose, At
<1>2. TypeOK BY Zenon DEF Inv
<1>3. PICK s \in Spans, n \in Nat : s = Top(t).id /\ n = Len(calls[t]) BY Zenon, <1>1, <1>2, TopCall
<1>4. Top(t) \in Frame /\ n \in 1..n /\ Top(t) = calls[t][n] BY <1>1, <1>2, <1>3, TopCall
<1>5. Top(t).layer = 1 /\ Weight(Top(t)) = Layers
  <2>1. Phased(Top(t)) BY Zenon, <1>3, <1>4 DEF Inv
  <2> QED BY Zenon, <2>1, <1>1 DEF Phased, Weight
<1>6. PICK fr \in Frame :
        /\ fr.id = s /\ fr.phase = "closing" /\ fr.layer = 1 /\ Weight(fr) = Layers
        /\ fr = [Top(t) EXCEPT !.phase = "closing"]
  <2> DEFINE g == [id |-> s, phase |-> "closing", layer |-> 1]
  <2>1. g = [Top(t) EXCEPT !.phase = "closing"] BY <1>3, <1>4, <1>5 DEF Frame
  <2>2. g \in Frame /\ g.id = s /\ g.phase = "closing" /\ g.layer = 1 BY DEF Frame, Phases
  <2> HIDE DEF g
  <2>3. Weight(g) = Layers BY <2>2 DEF Weight
  <2> QED BY Zenon, <2>1, <2>2, <2>3
<1>19. /\ refs' = [refs EXCEPT ![s] = @ - 1]
       /\ refs[s] > 1 => /\ calls' = Pop(t)
                         /\ closeCount' = [closeCount EXCEPT ![t] = @ - Layers]
       /\ ~(refs[s] > 1) => calls' = SetTop(t, fr) /\ UNCHANGED closeCount
  BY Zenon, <1>3, <1>6 DEF TryClose
<1>7. t \in Trying(s) BY Zenon, <1>1, <1>3 DEF Trying, At
<1>8. /\ refs[s] > 0 /\ status[s] = "open" /\ \A k \in 1..Layers : closed[s][k] = 0
      /\ \A u \in Threads : \A i \in Nat : ~Closer(u, i, s)
  <2>1. refs[s] > 0 /\ status[s] = "open" /\ \A k \in 1..Layers : closed[s][k] = 0
    BY Zenon, <1>3, <1>7, Needed
  <2>2. ASSUME NEW u \in Threads, NEW i \in Nat, Closer(u, i, s) PROVE FALSE
    <3>1. i \in 1..Len(calls[u]) BY Zenon, <2>2 DEF Closer
    <3> QED BY Zenon, <2>1, <2>2, <3>1, <1>3 DEF Inv, Alive
  <2> QED BY Zenon, <2>1, <2>2
<1>9. closeCount \in [Threads -> Nat] BY Zenon, <1>2 DEF TypeOK
<1>10. /\ calls' \in [Threads -> Seq(Frame)] /\ closeCount' \in [Threads -> Nat]
       /\ OneCloser' /\ \A u \in Threads : Below(u)' /\ Guarded(u)'
       /\ \A r \in Spans : Trying(r)' = Trying(r) \ {t}
       /\ \A u \in Threads : \A r \in Spans : \A i \in Nat :
            Closer(u, i, r)' <=> \/ Closer(u, i, r)
                                 \/ ~(refs[s] > 1) /\ u = t /\ i = n /\ r = s
       /\ \A u \in Threads : \A i \in 1..Len(calls'[u]) :
            /\ i \in 1..Len(calls[u])
            /\ \/ calls'[u][i] = calls[u][i]
               \/ ~(refs[s] > 1) /\ calls'[u][i] = fr
  <2>1. CASE refs[s] > 1
    <3>1. calls' = Pop(t) /\ closeCount' = [closeCount EXCEPT ![t] = @ - Weight(Top(t))]
      BY Zenon, <2>1, <1>5, <1>19
    <3>2. \A r \in Spans : ~Closer(t, n, r) BY Zenon, <1>1, <1>4 DEF Closer
    <3>3. \A u \in Threads : \A r \in Spans : \A i \in Nat :
            Closer(u, i, r)' <=> Closer(u, i, r) /\ ~(u = t /\ i = Len(calls[t]))
      BY Zenon, <3>1, <1>1, PopEffect
    <3>4. \A u \in Threads : \A r \in Spans : \A i \in Nat : Closer(u, i, r)' <=> Closer(u, i, r)
      BY Zenon, <3>2, <3>3, <1>3
    <3>5. /\ calls' \in [Threads -> Seq(Frame)] /\ closeCount' \in [Threads -> Nat]
          /\ OneCloser' /\ \A u \in Threads : Below(u)' /\ Guarded(u)'
          /\ \A r \in Spans : Trying(r)' = Trying(r) \ {t}
          /\ \A u \in Threads : \A i \in 1..Len(calls'[u]) :
               i \in 1..Len(calls[u]) /\ calls'[u][i] = calls[u][i]
      BY Zenon, <3>1, <1>1, <1>3, PopEffect
    <3> QED BY Zenon, <2>1, <3>4, <3>5
  <2>2. CASE ~(refs[s] > 1)
    <3>1. closeCount' = [closeCount EXCEPT ![t] = @ - Weight(Top(t)) + Weight(fr)]
      <4>1. closeCount[t] - Layers + Layers = closeCount[t] BY <1>9
      <4> QED BY Zenon, <4>1, <2>2, <1>5, <1>6, <1>9, <1>19
    <3>2. calls' = SetTop(t, fr) BY Zenon, <2>2, <1>19
    <3>3. \A u \in Threads : \A i \in Nat : Closer(u, i, fr.id) => u = t /\ i = n BY Zenon, <1>6, <1>8
    <3>4. /\ calls' \in [Threads -> Seq(Frame)] /\ closeCount' \in [Threads -> Nat]
          /\ OneCloser' /\ \A u \in Threads : Below(u)' /\ Guarded(u)'
          /\ \A r \in Spans : Trying(r)' = Trying(r) \ {t}
          /\ \A u \in Threads : \A r \in Spans : \A i \in Nat :
               Closer(u, i, r)' <=> \/ Closer(u, i, r)
                                    \/ u = t /\ i = Len(calls[t]) /\ r = fr.id
          /\ \A u \in Threads : \A i \in 1..Len(calls'[u]) :
               /\ i \in 1..Len(calls[u])
               /\ \/ calls'[u][i] = calls[u][i] /\ ~(u = t /\ i = Len(calls[t]))
                  \/ u = t /\ i = Len(calls[t]) /\ calls'[u][i] = fr
      <4>1. ~Idle(t) /\ fr.phase # "try" /\ fr.id = Top(t).id BY Zenon, <1>1, <1>3, <1>6
      <4>2. \A u \in Threads : \A i \in Nat : Closer(u, i, fr.id) => u = t /\ i = Len(calls[t])
        BY Zenon, <3>3, <1>3
      <4> HIDE <1>3
      <4> QED BY Zenon, <3>1, <3>2, <4>1, <4>2, TopEffect
    <3> QED BY Zenon, <2>2, <3>4, <1>3, <1>6
  <2> QED BY Zenon, <2>1, <2>2
<1>11. /\ refs' \in [Spans -> Nat] /\ refs'[s] = refs[s] - 1 /\ refs[s] \in Nat
       /\ \A r \in Spans : r # s => refs'[r] = refs[r]
  BY <1>2, <1>8, <1>19 DEF TypeOK
<1>12. TypeOK' BY Zenon, <1>1, <1>2, <1>10, <1>11 DEF TypeOK
<1>13. HandlesKept' BY Zenon, <1>1 DEF Inv, HandlesKept, Entered
<1>14. ASSUME NEW r \in Spans PROVE Counted(r)'
  <2>1. Children(r)' = Children(r) BY Zenon, <1>1 DEF Children
  <2>2. Counted(r) BY Zenon DEF Inv
  <2>3. Trying(r)' = Trying(r) \ {t} BY Zenon, <1>10
  <2>4. CASE r = s
    <3>1. PICK c, d \in Nat : /\ HasSize(Children(r), c) /\ HasSize(Trying(r), d)
                              /\ handles[r] + c + d <= refs[r]
                              /\ OwnDefault = Threads => refs[r] = handles[r] + c + d
      BY Zenon DEF Inv, Counted
    <3>2. t \in Trying(r) BY Zenon, <2>4, <1>7
    <3>3. d > 0 /\ HasSize(Trying(r)', d - 1) BY <2>3, <3>1, <3>2, RemoveOne
    <3>4. HasSize(Children(r)', c) /\ handles'[r] = handles[r] /\ refs'[r] = refs[r] - 1
      BY Zenon, <2>1, <2>4, <3>1, <1>1, <1>11
    <3>5. /\ d - 1 \in Nat /\ handles'[r] + c + (d - 1) <= refs'[r]
          /\ OwnDefault = Threads => refs'[r] = handles'[r] + c + (d - 1)
      BY <3>1, <3>3, <3>4, Numbers
    <3> QED BY Zenon, <3>3, <3>4, <3>5 DEF Counted
  <2>5. CASE r # s
    <3>1. t \notin Trying(r) BY Zenon, <2>5, <1>3 DEF Trying
    <3>2. Trying(r)' = Trying(r) BY Zenon, <2>3, <3>1
    <3> QED BY Zenon, <2>1, <2>2, <2>5, <3>2, <1>1, <1>11 DEF Counted
  <2> QED BY Zenon, <2>4, <2>5
<1>15. ASSUME NEW r \in Spans PROVE Alive(r)' /\ Untouched(r)' /\ Marked(r)'
  <2>1. Alive(r) /\ Untouched(r) /\ Marked(r) BY Zenon DEF Inv
  <2>2. \A u \in Threads : \A i \in Nat :
          Closer(u, i, r)' <=> Closer(u, i, r) \/ (~(refs[s] > 1) /\ u = t /\ i = n /\ r = s)
    BY Zenon, <1>10
  <2>3. /\ \A u \in Threads : \A i \in Nat : Closer(u, i, r) => i \in 1..Len(calls[u])
        /\ \A u \in Threads : \A i \in Nat : Closer(u, i, r)' => i \in 1..Len(calls'[u])
    BY Zenon DEF Closer
  <2>4. CASE r # s
    <3>1. refs'[r] = refs[r] /\ \A u \in Threads : \A i \in Nat : Closer(u, i, r)' <=> Closer(u, i, r)
      BY Zenon, <2>2, <2>4, <1>11
    <3>2. Alive(r)' BY <2>1, <2>3, <3>1, <1>1 DEF Alive
    <3>3. Untouched(r)' BY <2>1, <2>3, <3>1, <1>1 DEF Untouched
    <3>4. Marked(r)' BY <2>1, <2>3, <3>1, <1>1 DEF Marked, ClosedTo
    <3> QED BY Zenon, <3>2, <3>3, <3>4
  <2>5. CASE r = s
    <3>1. refs'[r] > 0 => refs[s] > 1 BY <2>5, <1>11
    <3>2. Alive(r)' BY <2>1, <2>2, <2>3, <2>5, <3>1, <1>1, <1>8 DEF Alive
    <3>3. Untouched(r)' BY Zenon, <2>5, <1>1, <1>8 DEF Untouched
    <3>4. refs'[r] > 0 \/ \E u \in Threads : \E i \in 1..Len(calls'[u]) : Closer(u, i, r)'
      <4>1. CASE refs[s] > 1 BY <4>1, <2>5, <1>11
      <4>2. CASE ~(refs[s] > 1)
        <5>1. Closer(t, n, r)' BY Zenon, <4>2, <2>2, <2>5
        <5> QED BY Zenon, <5>1, <2>3
      <4> QED BY Zenon, <4>1, <4>2
    <3>5. Marked(r)' BY Zenon, <2>5, <3>4, <1>1, <1>8 DEF Marked, ClosedTo
    <3> QED BY Zenon, <3>2, <3>3, <3>5
  <2> QED BY Zenon, <2>4, <2>5
<1>16. \A r \in Spans : \E m \in 0..Layers : ClosedTo(r, m)' BY Zenon, <1>1 DEF Inv, ClosedTo
<1>17. ASSUME NEW u \in Threads, NEW i \in 1..Len(calls'[u]) PROVE Phased(calls[u][i])'
  <2>1. CASE i \in 1..Len(calls[u]) /\ calls'[u][i] = calls[u][i]
    <3>1. Phased(calls[u][i]) BY Zenon, <2>1 DEF Inv
    <3> QED BY Zenon, <2>1, <3>1, <1>1 DEF Phased, ClosedTo
  <2>2. CASE calls'[u][i] = fr
    <3>1. ClosedTo(s, 0)' BY <1>1, <1>8 DEF ClosedTo
    <3>2. status'[s] = "open" /\ fr.layer - 1 = 0 BY <1>1, <1>6, <1>8
    <3> QED BY Zenon, <2>2, <3>1, <3>2, <1>6 DEF Phased
  <2> QED BY Zenon, <2>1, <2>2, <1>10
<1> QED BY Zenon, <1>10, <1>12, <1>13, <1>14, <1>15, <1>16, <1>17 DEF Inv

\* No call but the topmost of t closes or clears its span.
LEMMA OnlyTop ==
  ASSUME Inv, NEW t \in Threads, ~Idle(t), Top(t).phase # "try",
         NEW u \in Threads, NEW i \in 1..Len(calls[u]), ~(u = t /\ i = Len(calls[t])),
         calls[u][i].phase # "try"
  PROVE  calls[u][i].id # Top(t).id
<1> SUFFICES ASSUME calls[u][i].id = Top(t).id PROVE FALSE BY Zenon
<1>1. Closer(u, i, Top(t).id) BY Zenon DEF Closer
<1>2. i \in Nat OBVIOUS
<1> QED BY Zenon, <1>1, <1>2, TopCloses

\* A call that closes or clears its span returns.
LEMMA CallReturns ==
  ASSUME Inv, NEW t \in Threads, ~Idle(t), Top(t).phase # "try", calls' = Pop(t),
         closeCount' = [closeCount EXCEPT ![t] = @ - Weight(Top(t))]
  PROVE  /\ calls' \in [Threads -> Seq(Frame)] /\ closeCount' \in [Threads -> Nat]
         /\ OneCloser' /\ \A u \in Threads : Below(u)' /\ Guarded(u)'
         /\ \A r \in Spans : Trying(r)' = Trying(r)
         /\ \A u \in Threads : \A r \in Spans : \A i \in Nat :
              Closer(u, i, r)' <=> Closer(u, i, r) /\ r # Top(t).id
         /\ \A u \in Threads : \A i \in 1..Len(calls'[u]) :
              /\ i \in 1..Len(calls[u]) /\ calls'[u][i] = calls[u][i]
              /\ calls[u][i].phase # "try" => calls[u][i].id # Top(t).id
<1>1. /\ \A u \in Threads : \A i \in Nat :
           Closer(u, i, Top(t).id) => u = t /\ i = Len(calls[t])
      /\ \A r \in Spans : t \notin Trying(r)
      /\ Closer(t, Len(calls[t]), Top(t).id)
  BY Zenon, TopCloses
<1>2. \A r \in Spans : Closer(t, Len(calls[t]), r) => r = Top(t).id BY Zenon DEF Closer, Top
<1>3. /\ calls' \in [Threads -> Seq(Frame)] /\ closeCount' \in [Threads -> Nat]
      /\ OneCloser' /\ \A u \in Threads : Below(u)' /\ Guarded(u)'
      /\ \A r \in Spans : Trying(r)' = Trying(r) \ {t}
      /\ \A u \in Threads : \A r \in Spans : \A i \in Nat :
           Closer(u, i, r)' <=> Closer(u, i, r) /\ ~(u = t /\ i = Len(calls[t]))
      /\ \A u \in Threads : \A i \in 1..Len(calls'[u]) :
           /\ i \in 1..Len(calls[u]) /\ calls'[u][i] = calls[u][i]
           /\ ~(u = t /\ i = Len(calls[t]))
  BY Zenon, PopEffect
<1>4. ASSUME NEW r \in Spans PROVE Trying(r)' = Trying(r)
  <2>1. Trying(r)' = Trying(r) \ {t} BY Zenon, <1>3
  <2>2. Trying(r) \ {t} = Trying(r) BY Zenon, <1>1, Without
  <2> QED BY Zenon, <2>1, <2>2
<1>5. \A u \in Threads : \A r \in Spans : \A i \in Nat :
        Closer(u, i, r)' <=> Closer(u, i, r) /\ r # Top(t).id
  BY <1>1, <1>2, <1>3
<1>6. \A u \in Threads : \A i \in 1..Len(calls'[u]) :
        /\ i \in 1..Len(calls[u]) /\ calls'[u][i] = calls[u][i]
        /\ calls[u][i].phase # "try" => calls[u][i].id # Top(t).id
  BY <1>3, OnlyTop
<1> QED BY Zenon, <1>3, <1>4, <1>5, <1>6

\* A call that closes or clears its span goes on as fr.
LEMMA CallGoesOn ==
  ASSUME Inv, NEW t \in Threads, ~Idle(t), Top(t).phase # "try", NEW fr \in Frame,
         fr.id = Top(t).id, fr.phase # "try", calls' = SetTop(t, fr),
         closeCount' = [closeCount EXCEPT ![t] = @ - Weight(Top(t)) + Weight(fr)]
  PROVE  /\ calls' \in [Threads -> Seq(Frame)] /\ closeCount' \in [Threads -> Nat]
         /\ OneCloser' /\ \A u \in Threads : Below(u)' /\ Guarded(u)'
         /\ \A r \in Spans : Trying(r)' = Trying(r)
         /\ \A u \in Threads : \A r \in Spans : \A i \in Nat :
              Closer(u, i, r)' <=> Closer(u, i, r)
         /\ \A u \in Threads : \A i \in 1..Len(calls'[u]) :
              \/ /\ i \in 1..Len(calls[u]) /\ calls'[u][i] = calls[u][i]
                 /\ calls[u][i].phase # "try" => calls[u][i].id # Top(t).id
              \/ calls'[u][i] = fr
<1>1. /\ \A u \in Threads : \A i \in Nat :
           Closer(u, i, fr.id) => u = t /\ i = Len(calls[t])
      /\ \A r \in Spans : t \notin Trying(r)
      /\ Closer(t, Len(calls[t]), fr.id)
  BY Zenon, TopCloses
<1>3. /\ calls' \in [Threads -> Seq(Frame)] /\ closeCount' \in [Threads -> Nat]
      /\ OneCloser' /\ \A u \in Threads : Below(u)' /\ Guarded(u)'
      /\ \A r \in Spans : Trying(r)' = Trying(r) \ {t}
      /\ \A u \in Threads : \A r \in Spans : \A i \in Nat :
           Closer(u, i, r)' <=> \/ Closer(u, i, r)
                                \/ u = t /\ i = Len(calls[t]) /\ r = fr.id
      /\ \A u \in Threads : \A i \in 1..Len(calls'[u]) :
           /\ i \in 1..Len(calls[u])
           /\ \/ calls'[u][i] = calls[u][i] /\ ~(u = t /\ i = Len(calls[t]))
              \/ u = t /\ i = Len(calls[t]) /\ calls'[u][i] = fr
  BY ZenonT(30), <1>1, TopEffect
<1>4. ASSUME NEW r \in Spans PROVE Trying(r)' = Trying(r)
  <2>1. Trying(r)' = Trying(r) \ {t} BY Zenon, <1>3
  <2>2. Trying(r) \ {t} = Trying(r) BY Zenon, <1>1, Without
  <2> QED BY Zenon, <2>1, <2>2
<1>5. \A u \in Threads : \A r \in Spans : \A i \in Nat : Closer(u, i, r)' <=> Closer(u, i, r)
  BY <1>1, <1>3
<1>6. \A u \in Threads : \A i \in 1..Len(calls'[u]) :
        \/ /\ i \in 1..Len(calls[u]) /\ calls'[u][i] = calls[u][i]
           /\ calls[u][i].phase # "try" => calls[u][i].id # Top(t).id
        \/ calls'[u][i] = fr
  BY <1>3, OnlyTop
<1> QED BY Zenon, <1>3, <1>4, <1>5, <1>6

\* The slab frees the slot of a span that every layer has closed.
LEMMA FreeStep ==
  ASSUME Inv, NEW t \in Threads, Free(t)
  PROVE  Inv'
<1> USE RegistryAssumption
<1>1. /\ ~Idle(t) /\ Top(t).phase = "free" /\ calls' = Pop(t)
      /\ UNCHANGED <<refs, parent, closed, handles, stack, closeCount, looked>>
  BY Zenon DEF Free, At
<1>2. TypeOK BY Zenon DEF Inv
<1>3. /\ Phased(Top(t)) /\ refs[Top(t).id] = 0 /\ Top(t).id \in Spans BY Zenon, <1>1, TopCloses
<1>4. PICK s \in Spans : s = Top(t).id BY Zenon, <1>3
<1>5. status' = [status EXCEPT ![s] = "cleared"] BY Zenon, <1>4 DEF Free
<1>6. closeCount' = [closeCount EXCEPT ![t] = @ - Weight(Top(t))]
  <2>1. Weight(Top(t)) = 0 BY Zenon, <1>1 DEF Weight
  <2> QED BY <2>1, <1>1, <1>2 DEF TypeOK
<1>7. /\ calls' \in [Threads -> Seq(Frame)] /\ closeCount' \in [Threads -> Nat]
      /\ OneCloser' /\ \A u \in Threads : Below(u)' /\ Guarded(u)'
      /\ \A r \in Spans : Trying(r)' = Trying(r)
      /\ \A u \in Threads : \A r \in Spans : \A i \in Nat :
           Closer(u, i, r)' <=> Closer(u, i, r) /\ r # Top(t).id
      /\ \A u \in Threads : \A i \in 1..Len(calls'[u]) :
           /\ i \in 1..Len(calls[u]) /\ calls'[u][i] = calls[u][i]
           /\ calls[u][i].phase # "try" => calls[u][i].id # Top(t).id
  <2> HIDE <1>4
  <2> QED BY Zenon, <1>1, <1>6, CallReturns
<1>8. /\ status' \in [Spans -> {"unused", "open", "marked", "cleared"}]
      /\ status'[s] = "cleared" /\ \A r \in Spans : r # s => status'[r] = status[r]
  BY Zenon, <1>2, <1>5 DEF TypeOK
<1>9. TypeOK' BY Zenon, <1>1, <1>2, <1>7, <1>8 DEF TypeOK
<1>10. HandlesKept' BY Zenon, <1>1 DEF Inv, HandlesKept, Entered
<1>11. ASSUME NEW r \in Spans PROVE Counted(r)'
  <2>1. Counted(r) /\ Children(r)' = Children(r) /\ Trying(r)' = Trying(r)
    BY Zenon, <1>1, <1>7 DEF Inv, Children
  <2> QED BY Zenon, <2>1, <1>1 DEF Counted
<1>12. status[s] = "marked" BY Zenon, <1>1, <1>3, <1>4 DEF Phased
<1>13. ASSUME NEW r \in Spans PROVE Alive(r)' /\ Untouched(r)' /\ Marked(r)'
  <2>1. Alive(r) /\ Untouched(r) /\ Marked(r) BY Zenon DEF Inv
  <2>2. /\ \A u \in Threads : \A i \in Nat : Closer(u, i, r) => i \in 1..Len(calls[u])
        /\ \A u \in Threads : \A i \in Nat : Closer(u, i, r)' => i \in 1..Len(calls'[u])
    BY Zenon DEF Closer
  <2>3. CASE r # s
    <3>1. /\ status'[r] = status[r]
          /\ \A u \in Threads : \A i \in Nat : Closer(u, i, r)' <=> Closer(u, i, r)
      BY Zenon, <2>3, <1>4, <1>7, <1>8
    <3>2. Alive(r)' BY <2>1, <2>2, <3>1, <1>1 DEF Alive
    <3>3. Untouched(r)' BY <2>1, <2>2, <3>1, <1>1 DEF Untouched
    <3>4. Marked(r)' BY <2>1, <2>2, <3>1, <1>1 DEF Marked, ClosedTo
    <3> QED BY Zenon, <3>2, <3>3, <3>4
  <2>4. CASE r = s
    <3>1. Alive(r)' BY <2>4, <1>1, <1>3, <1>4 DEF Alive
    <3>2. Untouched(r)' BY Zenon, <2>4, <1>8 DEF Untouched
    <3>3. Marked(r)' BY Zenon, <2>1, <2>4, <1>1, <1>8, <1>12 DEF Marked, ClosedTo
    <3> QED BY Zenon, <3>1, <3>2, <3>3
  <2> QED BY Zenon, <2>3, <2>4
<1>14. \A r \in Spans : \E n \in 0..Layers : ClosedTo(r, n)' BY Zenon, <1>1 DEF Inv, ClosedTo
<1>15. ASSUME NEW u \in Threads, NEW i \in 1..Len(calls'[u]) PROVE Phased(calls[u][i])'
  <2>1. /\ i \in 1..Len(calls[u]) /\ calls'[u][i] = calls[u][i]
        /\ calls[u][i].phase # "try" => calls[u][i].id # s
    BY Zenon, <1>4, <1>7
  <2>2. calls[u][i] \in Frame BY <2>1, <1>2 DEF TypeOK
  <2>3. calls[u][i].phase # "try" => status'[calls[u][i].id] = status[calls[u][i].id]
    BY Zenon, <2>1, <2>2, <1>8 DEF Frame
  <2>4. Phased(calls[u][i]) BY Zenon, <2>1 DEF Inv
  <2> QED BY Zenon, <2>1, <2>3, <2>4, <1>1 DEF Phased, ClosedTo
<1> QED BY Zenon, <1>7, <1>9, <1>10, <1>11, <1>13, <1>14, <1>15 DEF Inv

\* Pool::clear of a span that every layer has closed: some Ref keeps its slot, or
\* the same call goes on to release its parent.
LEMMA ClearStep ==
  ASSUME Inv, NEW t \in Threads, Clear(t)
  PROVE  Inv'
<1> USE RegistryAssumption
<1>1. /\ ~Idle(t) /\ Top(t).phase = "clear"
      /\ UNCHANGED <<refs, parent, closed, handles, stack, closeCount, looked>>
  BY Zenon DEF Clear, At
<1>2. TypeOK BY Zenon DEF Inv
<1>3. /\ Phased(Top(t)) /\ refs[Top(t).id] = 0 /\ Top(t).id \in Spans
      /\ Closer(t, Len(calls[t]), Top(t).id) /\ Len(calls[t]) \in 1..Len(calls[t])
  BY Zenon, <1>1, TopCloses
<1>4. PICK s \in Spans, n \in Nat : s = Top(t).id /\ n = Len(calls[t]) BY <1>3
<1>5. PICK fr \in Frame : /\ fr.id = s /\ fr.phase = "release"
                          /\ fr = [Top(t) EXCEPT !.phase = "release"]
  <2>1. Top(t) \in Frame BY Zenon, <1>1, <1>2, TopCall
  <2> QED BY Zenon, <2>1, <1>4 DEF Frame, Phases
<1>6. PICK kept \in BOOLEAN : kept <=> \E u \in Threads : looked[u] = s BY Zenon
<1>7. /\ status' = [status EXCEPT ![s] = "marked"]
      /\ kept => calls' = Pop(t)
      /\ ~kept => calls' = SetTop(t, fr)
  BY Zenon, <1>4, <1>5, <1>6 DEF Clear
<1>8. Weight(Top(t)) = 0 /\ Weight(fr) = 0 BY Zenon, <1>1, <1>5 DEF Weight
<1>9. /\ calls' \in [Threads -> Seq(Frame)] /\ closeCount' \in [Threads -> Nat]
      /\ OneCloser' /\ \A u \in Threads : Below(u)' /\ Guarded(u)'
      /\ \A r \in Spans : Trying(r)' = Trying(r)
      /\ \A u \in Threads : \A r \in Spans : \A i \in Nat :
           Closer(u, i, r)' <=> Closer(u, i, r) /\ ~(kept /\ r = s)
      /\ \A u \in Threads : \A i \in 1..Len(calls'[u]) :
           \/ /\ i \in 1..Len(calls[u]) /\ calls'[u][i] = calls[u][i]
              /\ calls[u][i].phase # "try" => calls[u][i].id # s
           \/ ~kept /\ calls'[u][i] = fr
  <2>1. CASE kept
    <3>1. closeCount' = [closeCount EXCEPT ![t] = @ - Weight(Top(t))]
      BY <1>1, <1>2, <1>8 DEF TypeOK
    <3>2. calls' = Pop(t) /\ ~Idle(t) /\ Top(t).phase # "try" BY Zenon, <2>1, <1>1, <1>7
    <3>3. /\ calls' \in [Threads -> Seq(Frame)] /\ closeCount' \in [Threads -> Nat]
          /\ OneCloser' /\ \A u \in Threads : Below(u)' /\ Guarded(u)'
          /\ \A r \in Spans : Trying(r)' = Trying(r)
          /\ \A u \in Threads : \A r \in Spans : \A i \in Nat :
               Closer(u, i, r)' <=> Closer(u, i, r) /\ r # Top(t).id
          /\ \A u \in Threads : \A i \in 1..Len(calls'[u]) :
               /\ i \in 1..Len(calls[u]) /\ calls'[u][i] = calls[u][i]
               /\ calls[u][i].phase # "try" => calls[u][i].id # Top(t).id
      BY Zenon, <3>1, <3>2, CallReturns
    <3> QED BY Zenon, <2>1, <3>3, <1>4
  <2>2. CASE ~kept
    <3>1. closeCount' = [closeCount EXCEPT ![t] = @ - Weight(Top(t)) + Weight(fr)]
      BY <1>1, <1>2, <1>8 DEF TypeOK
    <3>2. /\ calls' = SetTop(t, fr) /\ ~Idle(t) /\ Top(t).phase # "try"
          /\ fr.id = Top(t).id /\ fr.phase # "try"
      BY Zenon, <2>2, <1>1, <1>4, <1>5, <1>7
    <3>3. /\ calls' \in [Threads -> Seq(Frame)] /\ closeCount' \in [Threads -> Nat]
          /\ OneCloser' /\ \A u \in Threads : Below(u)' /\ Guarded(u)'
          /\ \A r \in Spans : Trying(r)' = Trying(r)
          /\ \A u \in Threads : \A r \in Spans : \A i \in Nat :
               Closer(u, i, r)' <=> Closer(u, i, r)
          /\ \A u \in Threads : \A i \in 1..Len(calls'[u]) :
               \/ /\ i \in 1..Len(calls[u]) /\ calls'[u][i] = calls[u][i]
                  /\ calls[u][i].phase # "try" => calls[u][i].id # Top(t).id
               \/ calls'[u][i] = fr
      BY Zenon, <3>1, <3>2, CallGoesOn
    <3> QED BY Zenon, <2>2, <3>3, <1>4
  <2> QED BY Zenon, <2>1, <2>2
<1>10. /\ status' \in [Spans -> {"unused", "open", "marked", "cleared"}]
       /\ status'[s] = "marked" /\ \A r \in Spans : r # s => status'[r] = status[r]
  BY Zenon, <1>2, <1>7 DEF TypeOK
<1>11. TypeOK' BY Zenon, <1>1, <1>2, <1>9, <1>10 DEF TypeOK
<1>12. HandlesKept' BY Zenon, <1>1 DEF Inv, HandlesKept, Entered
<1>13. ASSUME NEW r \in Spans PROVE Counted(r)'
  <2>1. Counted(r) /\ Children(r)' = Children(r) /\ Trying(r)' = Trying(r)
    BY Zenon, <1>1, <1>9 DEF Inv, Children
  <2> QED BY Zenon, <2>1, <1>1 DEF Counted
<1>14. status[s] = "open" /\ ClosedTo(s, Layers) BY Zenon, <1>1, <1>3, <1>4 DEF Phased
<1>15. ASSUME NEW r \in Spans PROVE Alive(r)' /\ Untouched(r)' /\ Marked(r)'
  <2>1. Alive(r) /\ Untouched(r) /\ Marked(r) BY Zenon DEF Inv
  <2>2. /\ \A u \in Threads : \A i \in Nat : Closer(u, i, r) => i \in 1..Len(calls[u])
        /\ \A u \in Threads : \A i \in Nat : Closer(u, i, r)' => i \in 1..Len(calls'[u])
    BY Zenon DEF Closer
  <2>3. CASE r # s
    <3>1. /\ status'[r] = status[r]
          /\ \A u \in Threads : \A i \in Nat : Closer(u, i, r)' <=> Closer(u, i, r)
      BY Zenon, <2>3, <1>9, <1>10
    <3>2. Alive(r)' BY <2>1, <2>2, <3>1, <1>1 DEF Alive
    <3>3. Untouched(r)' BY <2>1, <2>2, <3>1, <1>1 DEF Untouched
    <3>4. Marked(r)' BY <2>1, <2>2, <3>1, <1>1 DEF Marked, ClosedTo
    <3> QED BY Zenon, <3>2, <3>3, <3>4
  <2>4. CASE r = s
    <3>1. Alive(r)' BY <2>4, <1>1, <1>3, <1>4 DEF Alive
    <3>2. Untouched(r)' BY Zenon, <2>4, <1>10 DEF Untouched
    <3>3. \/ \E u \in Threads : looked'[u] = r
          \/ \E u \in Threads : \E i \in 1..Len(calls'[u]) : Closer(u, i, r)'
      <4>1. CASE kept BY Zenon, <4>1, <2>4, <1>1, <1>6
      <4>2. CASE ~kept
        <5>1. Closer(t, n, s) BY Zenon, <1>3, <1>4
        <5>2. Closer(t, n, r)' BY Zenon, <4>2, <2>4, <5>1, <1>9
        <5> QED BY Zenon, <5>2, <2>2
      <4> QED BY Zenon, <4>1, <4>2
    <3>4. ClosedTo(r, Layers)' BY Zenon, <2>4, <1>1, <1>14 DEF ClosedTo
    <3>5. Marked(r)' BY Zenon, <2>4, <3>3, <3>4, <1>10 DEF Marked
    <3> QED BY Zenon, <3>1, <3>2, <3>5
  <2> QED BY Zenon, <2>3, <2>4
<1>16. \A r \in Spans : \E m \in 0..Layers : ClosedTo(r, m)' BY Zenon, <1>1 DEF Inv, ClosedTo
<1>17. ASSUME NEW u \in Threads, NEW i \in 1..Len(calls'[u]) PROVE Phased(calls[u][i])'
  <2>1. CASE /\ i \in 1..Len(calls[u]) /\ calls'[u][i] = calls[u][i]
             /\ calls[u][i].phase # "try" => calls[u][i].id # s
    <3>1. calls[u][i] \in Frame BY <2>1, <1>2 DEF TypeOK
    <3>2. calls[u][i].phase # "try" => status'[calls[u][i].id] = status[calls[u][i].id]
      BY Zenon, <2>1, <3>1, <1>10 DEF Frame
    <3>3. Phased(calls[u][i]) BY Zenon, <2>1 DEF Inv
    <3> QED BY Zenon, <2>1, <3>2, <3>3, <1>1 DEF Phased, ClosedTo
  <2>2. CASE ~kept /\ calls'[u][i] = fr
    <3>1. \A v \in Threads : looked'[v] # s BY Zenon, <2>2, <1>1, <1>6
    <3> QED BY Zenon, <2>2, <3>1, <1>5, <1>10 DEF Phased
  <2> QED BY Zenon, <2>1, <2>2, <1>9
<1> QED BY Zenon, <1>9, <1>11, <1>12, <1>13, <1>15, <1>16, <1>17 DEF Inv

\* on_close of one layer.  The last CloseGuard of the thread is that of the last
\* layer of its outermost call, which then clears the slot.
LEMMA OnCloseStep ==
  ASSUME Inv, NEW t \in Threads, OnClose(t)
  PROVE  Inv'
<1> USE RegistryAssumption
<1>1. /\ ~Idle(t) /\ Top(t).phase = "closing"
      /\ UNCHANGED <<status, refs, parent, handles, stack, looked>>
  BY Zenon DEF OnClose, At
<1>2. TypeOK BY Zenon DEF Inv
<1>3. /\ Phased(Top(t)) /\ refs[Top(t).id] = 0 /\ Top(t).id \in Spans
      /\ Closer(t, Len(calls[t]), Top(t).id) /\ Len(calls[t]) \in 1..Len(calls[t])
      /\ Top(t) \in Frame /\ Top(t).layer \in 1..Layers
  BY Zenon, <1>1, <1>2, TopCloses, TopCall
<1>4. PICK s \in Spans, n \in Nat, k \in 1..Layers :
        s = Top(t).id /\ n = Len(calls[t]) /\ k = Top(t).layer
  BY <1>3
<1>5. /\ closed' = [closed EXCEPT ![s][k] = @ + 1]
      /\ closeCount' = [closeCount EXCEPT ![t] = @ - 1]
      /\ calls' = IF closeCount[t] = 1 THEN SetTop(t, [Top(t) EXCEPT !.phase = "clear"])
                  ELSE IF k = Layers THEN Pop(t)
                  ELSE SetTop(t, [Top(t) EXCEPT !.layer = k + 1])
  BY Zenon, <1>4 DEF OnClose
<1>6. status[s] = "open" /\ ClosedTo(s, k - 1) BY Zenon, <1>1, <1>3, <1>4 DEF Phased
<1>7. Weight(Top(t)) = Layers - k + 1 BY Zenon, <1>1, <1>4 DEF Weight
<1>8. PICK below \in Nat : /\ closeCount[t] = below + (Layers - k + 1)
                           /\ ~Reentrant => below = 0
  <2>1. PICK f \in [0..Len(calls[t]) -> Nat] :
          Sums(f, calls[t]) /\ closeCount[t] = f[Len(calls[t])]
    BY Zenon DEF Inv, Guarded
  <2>2. n - 1 \in 0..n - 1 /\ n \in 1..n /\ n - 1 \in 0..n BY <1>3, <1>4
  <2>3. f[n] = f[n - 1] + Weight(calls[t][n]) /\ (~Reentrant => f[n - 1] = 0)
    BY Zenon, <2>1, <2>2, <1>4 DEF Sums
  <2>4. f[n - 1] \in Nat BY Zenon, <2>1, <2>2, <1>4
  <2>5. Weight(calls[t][n]) = Layers - k + 1 BY Zenon, <1>4, <1>7 DEF Top
  <2> QED BY Zenon, <2>1, <2>3, <2>4, <2>5, <1>4
<1>9. PICK gone \in BOOLEAN : gone <=> closeCount[t] # 1 /\ k = Layers BY Zenon
<1>10. gone => Reentrant BY <1>8, <1>9
<1>11. PICK fr \in Frame :
         /\ fr.id = s /\ fr.phase # "try" /\ (gone \/ calls' = SetTop(t, fr))
         /\ ~gone => Weight(fr) = Layers - k
         /\ \/ fr.phase = "clear" /\ k = Layers
            \/ fr.phase = "closing" /\ fr.layer = k + 1
            \/ gone
  <2>1. CASE closeCount[t] = 1
    <3> DEFINE fr == [id |-> s, phase |-> "clear", layer |-> k]
    <3>1. k = Layers BY <2>1, <1>8
    <3>2. fr = [Top(t) EXCEPT !.phase = "clear"] BY <1>3, <1>4 DEF Frame
    <3>3. fr \in Frame /\ fr.id = s /\ fr.phase = "clear" BY Zenon DEF Frame, Phases
    <3> HIDE DEF fr
    <3>4. Weight(fr) = Layers - k BY <3>1, <3>3 DEF Weight
    <3>5. calls' = SetTop(t, fr) BY Zenon, <2>1, <3>2, <1>5
    <3> QED BY Zenon, <3>1, <3>3, <3>4, <3>5
  <2>2. CASE closeCount[t] # 1 /\ k = Layers BY Zenon, <2>2, <1>1, <1>3, <1>4, <1>9
  <2>3. CASE closeCount[t] # 1 /\ k # Layers
    <3> DEFINE fr == [id |-> s, phase |-> "closing", layer |-> k + 1]
    <3>1. k + 1 \in 1..Layers BY <2>3
    <3>2. fr = [Top(t) EXCEPT !.layer = k + 1] BY <1>1, <1>3, <1>4 DEF Frame
    <3>3. fr \in Frame /\ fr.id = s /\ fr.phase = "closing" /\ fr.layer = k + 1
      BY Zenon, <3>1 DEF Frame, Phases
    <3> HIDE DEF fr
    <3>4. Weight(fr) = Layers - k BY <3>3 DEF Weight
    <3>5. calls' = SetTop(t, fr) BY Zenon, <2>3, <3>2, <1>5
    <3> QED BY Zenon, <3>3, <3>4, <3>5
  <2> QED BY Zenon, <2>1, <2>2, <2>3
<1>12. /\ calls' \in [Threads -> Seq(Frame)] /\ closeCount' \in [Threads -> Nat]
       /\ OneCloser' /\ \A u \in Threads : Below(u)' /\ Guarded(u)'
       /\ \A r \in Spans : Trying(r)' = Trying(r)
       /\ \A u \in Threads : \A r \in Spans : \A i \in Nat :
            Closer(u, i, r)' <=> Closer(u, i, r) /\ ~(gone /\ r = s)
       /\ \A u \in Threads : \A i \in 1..Len(calls'[u]) :
            \/ /\ i \in 1..Len(calls[u]) /\ calls'[u][i] = calls[u][i]
               /\ calls[u][i].phase # "try" => calls[u][i].id # s
            \/ ~gone /\ calls'[u][i] = fr
  <2>0. closeCount \in [Threads -> Nat] BY Zenon, <1>2 DEF TypeOK
  <2>1. CASE gone
    <3>1. closeCount' = [closeCount EXCEPT ![t] = @ - Weight(Top(t))]
      <4>1. Weight(Top(t)) = 1 BY <2>1, <1>7, <1>9
      <4> QED BY Zenon, <4>1, <1>5
    <3>2. calls' = Pop(t) /\ ~Idle(t) /\ Top(t).phase # "try" BY Zenon, <2>1, <1>1, <1>5, <1>9
    <3>3. /\ calls' \in [Threads -> Seq(Frame)] /\ closeCount' \in [Threads -> Nat]
          /\ OneCloser' /\ \A u \in Threads : Below(u)' /\ Guarded(u)'
          /\ \A r \in Spans : Trying(r)' = Trying(r)
          /\ \A u \in Threads : \A r \in Spans : \A i \in Nat :
               Closer(u, i, r)' <=> Closer(u, i, r) /\ r # Top(t).id
          /\ \A u \in Threads : \A i \in 1..Len(calls'[u]) :
               /\ i \in 1..Len(calls[u]) /\ calls'[u][i] = calls[u][i]
               /\ calls[u][i].phase # "try" => calls[u][i].id # Top(t).id
      BY Zenon, <3>1, <3>2, CallReturns
    <3> QED BY Zenon, <2>1, <3>3, <1>4
  <2>2. CASE ~gone
    <3>1. closeCount' = [closeCount EXCEPT ![t] = @ - Weight(Top(t)) + Weight(fr)]
      <4>1. closeCount[t] - Weight(Top(t)) + Weight(fr) = closeCount[t] - 1
        BY <2>0, <2>2, <1>7, <1>11
      <4> QED BY Zenon, <4>1, <1>5
    <3>2. /\ calls' = SetTop(t, fr) /\ ~Idle(t) /\ Top(t).phase # "try"
          /\ fr.id = Top(t).id /\ fr.phase # "try"
      BY Zenon, <2>2, <1>1, <1>4, <1>11
    <3>3. /\ calls' \in [Threads -> Seq(Frame)] /\ closeCount' \in [Threads -> Nat]
          /\ OneCloser' /\ \A u \in Threads : Below(u)' /\ Guarded(u)'
          /\ \A r \in Spans : Trying(r)' = Trying(r)
          /\ \A u \in Threads : \A r \in Spans : \A i \in Nat :
               Closer(u, i, r)' <=> Closer(u, i, r)
          /\ \A u \in Threads : \A i \in 1..Len(calls'[u]) :
               \/ /\ i \in 1..Len(calls[u]) /\ calls'[u][i] = calls[u][i]
                  /\ calls[u][i].phase # "try" => calls[u][i].id # Top(t).id
               \/ calls'[u][i] = fr
      BY Zenon, <3>1, <3>2, CallGoesOn
    <3> QED BY Zenon, <2>2, <3>3, <1>4
  <2> QED BY Zenon, <2>1, <2>2
<1>13. /\ closed' \in [Spans -> [1..Layers -> Nat]] /\ ClosedTo(s, k)'
       /\ \A r \in Spans : r # s => closed'[r] = closed[r]
  <2>1. closed \in [Spans -> [1..Layers -> Nat]] BY Zenon, <1>2 DEF TypeOK
  <2>2. /\ closed' \in [Spans -> [1..Layers -> Nat]]
        /\ closed'[s] = [closed[s] EXCEPT ![k] = @ + 1]
        /\ \A r \in Spans : r # s => closed'[r] = closed[r]
    BY <2>1, <1>5
  <2>3. ASSUME NEW j \in 1..Layers PROVE closed'[s][j] = IF j <= k THEN 1 ELSE 0
    <3>1. closed[s][j] = IF j <= k - 1 THEN 1 ELSE 0 BY Zenon, <1>6 DEF ClosedTo
    <3>2. closed'[s][j] = IF j = k THEN closed[s][j] + 1 ELSE closed[s][j] BY Zenon, <2>1, <2>2
    <3> QED BY <3>1, <3>2
  <2> QED BY Zenon, <2>2, <2>3 DEF ClosedTo
<1>14. TypeOK' BY Zenon, <1>1, <1>2, <1>12, <1>13 DEF TypeOK
<1>15. HandlesKept' BY Zenon, <1>1 DEF Inv, HandlesKept, Entered
<1>16. ASSUME NEW r \in Spans PROVE Counted(r)'
  <2>1. Counted(r) /\ Children(r)' = Children(r) /\ Trying(r)' = Trying(r)
    BY Zenon, <1>1, <1>12 DEF Inv, Children
  <2> QED BY Zenon, <2>1, <1>1 DEF Counted
<1>17. ASSUME NEW r \in Spans PROVE Alive(r)' /\ Untouched(r)' /\ Marked(r)'
  <2>1. Alive(r) /\ Untouched(r) /\ Marked(r) BY Zenon DEF Inv
  <2>2. /\ \A u \in Threads : \A i \in Nat : Closer(u, i, r) => i \in 1..Len(calls[u])
        /\ \A u \in Threads : \A i \in Nat : Closer(u, i, r)' => i \in 1..Len(calls'[u])
    BY Zenon DEF Closer
  <2>3. CASE r # s
    <3>1. /\ closed'[r] = closed[r]
          /\ \A u \in Threads : \A i \in Nat : Closer(u, i, r)' <=> Closer(u, i, r)
      BY Zenon, <2>3, <1>12, <1>13
    <3>2. Alive(r)' BY <2>1, <2>2, <3>1, <1>1 DEF Alive
    <3>3. Untouched(r)' BY <2>1, <2>2, <3>1, <1>1 DEF Untouched
    <3>4. Marked(r)' BY <2>1, <2>2, <3>1, <1>1 DEF Marked, ClosedTo
    <3> QED BY Zenon, <3>2, <3>3, <3>4
  <2>4. CASE r = s
    <3>1. Alive(r)' BY <2>4, <1>1, <1>3, <1>4 DEF Alive
    <3>2. Untouched(r)' BY Zenon, <2>4, <1>1, <1>6 DEF Untouched
    <3>3. ~Reentrant => \E u \in Threads : \E i \in 1..Len(calls'[u]) : Closer(u, i, r)'
      <4> SUFFICES ASSUME ~Reentrant
                   PROVE  \E u \in Threads : \E i \in 1..Len(calls'[u]) : Closer(u, i, r)'
        BY Zenon
      <4>1. Closer(t, n, s) /\ ~gone BY Zenon, <1>3, <1>4, <1>10
      <4>2. Closer(t, n, r)' BY Zenon, <2>4, <4>1, <1>12
      <4> QED BY Zenon, <4>2, <2>2
    <3>4. Marked(r)' BY Zenon, <2>4, <3>3, <1>1, <1>6 DEF Marked
    <3> QED BY Zenon, <3>1, <3>2, <3>4
  <2> QED BY Zenon, <2>3, <2>4
<1>18. ASSUME NEW r \in Spans PROVE \E m \in 0..Layers : ClosedTo(r, m)'
  <2>1. CASE r = s BY <2>1, <1>13
  <2>2. CASE r # s
    <3>1. PICK m \in 0..Layers : ClosedTo(r, m) BY Zenon DEF Inv
    <3>2. ClosedTo(r, m)' BY Zenon, <2>2, <3>1, <1>13 DEF ClosedTo
    <3> QED BY Zenon, <3>2
  <2> QED BY Zenon, <2>1, <2>2
<1>19. ASSUME NEW u \in Threads, NEW i \in 1..Len(calls'[u]) PROVE Phased(calls[u][i])'
  <2>1. CASE /\ i \in 1..Len(calls[u]) /\ calls'[u][i] = calls[u][i]
             /\ calls[u][i].phase # "try" => calls[u][i].id # s
    <3>1. calls[u][i] \in Frame BY <2>1, <1>2 DEF TypeOK
    <3>2. calls[u][i].phase # "try" => closed'[calls[u][i].id] = closed[calls[u][i].id]
      BY Zenon, <2>1, <3>1, <1>13 DEF Frame
    <3>3. Phased(calls[u][i]) BY Zenon, <2>1 DEF Inv
    <3> QED BY Zenon, <2>1, <3>2, <3>3, <1>1 DEF Phased, ClosedTo
  <2>2. CASE ~gone /\ calls'[u][i] = fr
    <3>1. status'[s] = "open" BY Zenon, <1>1, <1>6
    <3>2. CASE fr.phase = "clear" /\ k = Layers BY Zenon, <2>2, <3>1, <3>2, <1>11, <1>13 DEF Phased
    <3>3. CASE fr.phase = "closing" /\ fr.layer = k + 1
      <4>1. fr.layer - 1 = k BY <3>3
      <4> QED BY Zenon, <2>2, <3>1, <3>3, <4>1, <1>11, <1>13 DEF Phased
    <3> QED BY Zenon, <2>2, <3>2, <3>3, <1>11
  <2> QED BY Zenon, <2>1, <2>2, <1>12
<1> QED BY Zenon, <1>12, <1>14, <1>15, <1>16, <1>17, <1>18, <1>19 DEF Inv

\* DataInner::clear: the child's reference to its parent becomes a thread that is
\* about to decrement it, or, without a default, is forgotten.
LEMMA ReleaseStep ==
  ASSUME Inv, NEW t \in Threads, Release(t)
  PROVE  Inv'
<1> USE RegistryAssumption
<1>1. /\ ~Idle(t) /\ Top(t).phase = "release"
      /\ UNCHANGED <<status, refs, closed, handles, stack, looked>>
  BY Zenon DEF Release, At
<1>2. TypeOK BY Zenon DEF Inv
<1>3. /\ Phased(Top(t)) /\ refs[Top(t).id] = 0 /\ Top(t).id \in Spans
      /\ Top(t) \in Frame /\ Len(calls[t]) \in 1..Len(calls[t])
  BY Zenon, <1>1, <1>2, TopCloses, TopCall
<1>4. PICK s \in Spans, n \in Nat, p \in Spans \cup {NoSpan} :
        s = Top(t).id /\ n = Len(calls[t]) /\ p = parent[s]
  <2>1. Len(calls[t]) \in Nat BY <1>3
  <2>2. parent[Top(t).id] \in Spans \cup {NoSpan} BY Zenon, <1>2, <1>3 DEF TypeOK
  <2> QED BY Zenon, <1>3, <2>1, <2>2
<1>5. PICK fr \in Frame : /\ fr.id = s /\ fr.phase = "free" /\ Weight(fr) = 0
                          /\ fr = [Top(t) EXCEPT !.phase = "free"]
  <2>1. PICK fr \in Frame : /\ fr.id = s /\ fr.phase = "free"
                            /\ fr = [Top(t) EXCEPT !.phase = "free"]
    BY Zenon, <1>3, <1>4 DEF Frame, Phases
  <2> QED BY Zenon, <2>1 DEF Weight
<1>6. PICK pushes \in BOOLEAN : pushes <=> p # NoSpan /\ t \in OwnDefault BY Zenon
<1>7. /\ parent' = [parent EXCEPT ![s] = NoSpan]
      /\ pushes => StartClose(t, SetTop(t, fr)[t], p)
      /\ ~pushes => calls' = SetTop(t, fr) /\ UNCHANGED closeCount
  BY Zenon, <1>4, <1>5, <1>6 DEF Release
<1>8. Weight(Top(t)) = 0 BY Zenon, <1>1 DEF Weight
<1>9. /\ calls' \in [Threads -> Seq(Frame)] /\ closeCount' \in [Threads -> Nat]
      /\ OneCloser' /\ \A u \in Threads : Below(u)' /\ Guarded(u)'
      /\ pushes => t \notin Trying(p) /\ Trying(p)' = Trying(p) \cup {t}
      /\ \A r \in Spans : ~(pushes /\ r = p) => Trying(r)' = Trying(r)
      /\ \A u \in Threads : \A r \in Spans : \A i \in Nat :
           Closer(u, i, r)' <=> Closer(u, i, r)
      /\ \A u \in Threads : \A i \in 1..Len(calls'[u]) :
           \/ calls'[u][i].phase = "try" /\ calls'[u][i].layer = 1
           \/ i \in 1..Len(calls[u]) /\ calls'[u][i] = calls[u][i]
           \/ calls'[u][i] = fr
  <2>1. CASE pushes
    <3>1. PICK base \in Seq(Frame) :
            /\ base = SetTop(t, fr)[t] /\ Len(base) = Len(calls[t])
            /\ \A i \in 1..Len(calls[t]) - 1 : base[i] = calls[t][i]
            /\ base[Len(calls[t])] = fr
      <4>1. SetTop(t, fr) \in [Threads -> Seq(Frame)] BY Zenon, <1>1, <1>2, SetTopCalls
      <4>2. SetTop(t, fr)[t] \in Seq(Frame) BY Zenon, <4>1
      <4>3. /\ Len(SetTop(t, fr)[t]) = Len(calls[t])
            /\ \A i \in 1..Len(calls[t]) - 1 : SetTop(t, fr)[t][i] = calls[t][i]
            /\ SetTop(t, fr)[t][Len(calls[t])] = fr
        BY Zenon, <1>1, <1>2, SetTopCalls
      <4> QED BY Zenon, <4>2, <4>3
    <3>2. ASSUME NEW i \in 1..Len(base)
          PROVE  /\ base[i].id = calls[t][i].id /\ calls[t][i].phase # "try"
                 /\ Weight(base[i]) = Weight(calls[t][i])
                 /\ base[i].phase = "free" \/ (Reentrant /\ base[i].phase = "closing")
                 /\ base[i] = calls[t][i] \/ base[i] = fr
      <4>1. CASE i = Len(calls[t]) BY Zenon, <3>1, <4>1, <1>1, <1>4, <1>5, <1>8 DEF Top
      <4>2. CASE i # Len(calls[t])
        <5>1. i \in 1..Len(calls[t]) - 1 BY <3>1, <4>2, <1>3
        <5>2. base[i] = calls[t][i] BY Zenon, <3>1, <5>1
        <5>3. calls[t][i].phase = "free" \/ (Reentrant /\ calls[t][i].phase = "closing")
          BY Zenon, <5>1 DEF Inv, Below
        <5> QED BY Zenon, <5>2, <5>3
      <4> QED BY Zenon, <4>1, <4>2
    <3>3. ~Reentrant => closeCount[t] = 0
      <4>1. PICK f \in [0..Len(calls[t]) -> Nat] :
              Sums(f, calls[t]) /\ closeCount[t] = f[Len(calls[t])]
        BY Zenon DEF Inv, Guarded
      <4>2. n - 1 \in 0..n - 1 /\ n \in 1..n BY <1>3, <1>4
      <4>3. f[n] = f[n - 1] + Weight(calls[t][n]) /\ (~Reentrant => f[n - 1] = 0)
        BY Zenon, <4>1, <4>2, <1>4 DEF Sums
      <4>4. Weight(calls[t][n]) = 0 BY Zenon, <1>4, <1>8 DEF Top
      <4> QED BY <4>1, <4>3, <4>4, <1>4
    <3>4. p \in Spans /\ StartClose(t, base, p) BY Zenon, <2>1, <3>1, <1>6, <1>7
    <3>5. /\ calls' \in [Threads -> Seq(Frame)] /\ closeCount' \in [Threads -> Nat]
          /\ OneCloser' /\ \A u \in Threads : Below(u)' /\ Guarded(u)'
          /\ t \notin Trying(p) /\ Trying(p)' = Trying(p) \cup {t}
          /\ \A r \in Spans : r # p => Trying(r)' = Trying(r)
          /\ \A u \in Threads : \A r \in Spans : \A i \in Nat :
               Closer(u, i, r)' <=> Closer(u, i, r)
          /\ \A u \in Threads : \A i \in 1..Len(calls'[u]) :
               \/ u = t /\ calls'[u][i].phase = "try" /\ calls'[u][i].layer = 1
               \/ i \in 1..Len(calls[u]) /\ calls'[u][i] = IF u = t THEN base[i] ELSE calls[u][i]
      <4>1. Pushable(t, base) BY Zenon, <3>1, <3>2, <3>3 DEF Pushable
      <4>2. Pushed(t, base, p) BY Zenon, <3>4, <4>1, PushEffect
      <4> QED BY Zenon, <4>2 DEF Pushed
    <3>6. \A u \in Threads : \A i \in 1..Len(calls'[u]) :
            \/ calls'[u][i].phase = "try" /\ calls'[u][i].layer = 1
            \/ i \in 1..Len(calls[u]) /\ calls'[u][i] = calls[u][i]
            \/ calls'[u][i] = fr
      <4> SUFFICES ASSUME NEW u \in Threads, NEW i \in 1..Len(calls'[u])
                   PROVE  \/ calls'[u][i].phase = "try" /\ calls'[u][i].layer = 1
                          \/ i \in 1..Len(calls[u]) /\ calls'[u][i] = calls[u][i]
                          \/ calls'[u][i] = fr
        BY Zenon
      <4>1. \/ u = t /\ calls'[u][i].phase = "try" /\ calls'[u][i].layer = 1
            \/ i \in 1..Len(calls[u]) /\ calls'[u][i] = IF u = t THEN base[i] ELSE calls[u][i]
        BY Zenon, <3>5
      <4>2. u = t /\ i \in 1..Len(calls[t]) => base[i] = calls[t][i] \/ base[i] = fr
        BY Zenon, <3>1, <3>2
      <4> QED BY Zenon, <4>1, <4>2
    <3> QED BY Zenon, <2>1, <3>5, <3>6
  <2>2. CASE ~pushes
    <3>1. closeCount' = [closeCount EXCEPT ![t] = @ - Weight(Top(t)) + Weight(fr)]
      BY <2>2, <1>2, <1>5, <1>7, <1>8 DEF TypeOK
    <3>2. /\ calls' = SetTop(t, fr) /\ ~Idle(t) /\ Top(t).phase # "try"
          /\ fr.id = Top(t).id /\ fr.phase # "try"
      BY Zenon, <2>2, <1>1, <1>4, <1>5, <1>7
    <3>3. /\ calls' \in [Threads -> Seq(Frame)] /\ closeCount' \in [Threads -> Nat]
          /\ OneCloser' /\ \A u \in Threads : Below(u)' /\ Guarded(u)'
          /\ \A r \in Spans : Trying(r)' = Trying(r)
          /\ \A u \in Threads : \A r \in Spans : \A i \in Nat :
               Closer(u, i, r)' <=> Closer(u, i, r)
          /\ \A u \in Threads : \A i \in 1..Len(calls'[u]) :
               \/ /\ i \in 1..Len(calls[u]) /\ calls'[u][i] = calls[u][i]
                  /\ calls[u][i].phase # "try" => calls[u][i].id # Top(t).id
               \/ calls'[u][i] = fr
      BY Zenon, <3>1, <3>2, CallGoesOn
    <3> QED BY Zenon, <2>2, <3>3
  <2> QED BY Zenon, <2>1, <2>2
<1>10. /\ parent' \in [Spans -> Spans \cup {NoSpan}] /\ parent'[s] = NoSpan /\ parent[s] = p
       /\ \A r \in Spans : r # s => parent'[r] = parent[r]
  BY Zenon, <1>2, <1>4, <1>7 DEF TypeOK
<1>11. TypeOK' BY Zenon, <1>1, <1>2, <1>9, <1>10 DEF TypeOK
<1>12. HandlesKept' BY Zenon, <1>1 DEF Inv, HandlesKept, Entered
<1>13. ASSUME NEW r \in Spans PROVE Counted(r)'
  <2>1. Counted(r) /\ handles'[r] = handles[r] /\ refs'[r] = refs[r]
    BY Zenon, <1>1 DEF Inv
  <2>3. CASE r # p
    <3>1. Children(r)' = Children(r) BY Zenon, <2>3, <1>10 DEF Children
    <3>2. Trying(r)' = Trying(r) BY Zenon, <2>3, <1>9
    <3> QED BY Zenon, <2>1, <3>1, <3>2 DEF Counted
  <2>4. CASE r = p
    <3>1. s \in Children(r) /\ Children(r)' = Children(r) \ {s}
      BY Zenon, <2>4, <1>10 DEF Children
    <3>2. PICK c, d \in Nat : /\ HasSize(Children(r), c) /\ HasSize(Trying(r), d)
                              /\ handles[r] + c + d <= refs[r]
                              /\ OwnDefault = Threads => refs[r] = handles[r] + c + d
      BY Zenon DEF Inv, Counted
    <3>5. c > 0 /\ HasSize(Children(r)', c - 1) BY <3>1, <3>2, RemoveOne
    <3>3. CASE pushes
      <4>1. t \notin Trying(r) /\ Trying(r)' = Trying(r) \cup {t} BY Zenon, <2>4, <3>3, <1>9
      <4>2. HasSize(Trying(r)', d + 1) BY <3>2, <4>1, AddOne
      <4>3. /\ c - 1 \in Nat /\ d + 1 \in Nat /\ handles'[r] + (c - 1) + (d + 1) <= refs'[r]
            /\ OwnDefault = Threads => refs'[r] = handles'[r] + (c - 1) + (d + 1)
        BY <2>1, <3>2, <3>5, Numbers
      <4> QED BY Zenon, <3>5, <4>2, <4>3 DEF Counted
    <3>4. CASE ~pushes
      <4>1. Trying(r)' = Trying(r) BY Zenon, <3>4, <1>9
      <4>2. OwnDefault # Threads BY Zenon, <2>4, <3>4, <1>6
      <4>3. c - 1 \in Nat /\ handles'[r] + (c - 1) + d <= refs'[r]
        BY <2>1, <3>2, <3>5, Numbers
      <4> QED BY Zenon, <3>2, <3>5, <4>1, <4>2, <4>3 DEF Counted
    <3> QED BY Zenon, <3>3, <3>4
  <2> QED BY Zenon, <2>3, <2>4
<1>14. ASSUME NEW r \in Spans PROVE Alive(r)' /\ Untouched(r)' /\ Marked(r)'
  <2>1. Alive(r) /\ Untouched(r) /\ Marked(r) BY Zenon DEF Inv
  <2>2. /\ \A u \in Threads : \A i \in Nat : Closer(u, i, r) => i \in 1..Len(calls[u])
        /\ \A u \in Threads : \A i \in Nat : Closer(u, i, r)' => i \in 1..Len(calls'[u])
    BY Zenon DEF Closer
  <2>3. \A u \in Threads : \A i \in Nat : Closer(u, i, r)' <=> Closer(u, i, r) BY Zenon, <1>9
  <2>4. parent[r] = NoSpan => parent'[r] = NoSpan BY Zenon, <1>10
  <2>5. Alive(r)' BY <2>1, <2>2, <2>3, <1>1 DEF Alive
  <2>6. Untouched(r)' BY <2>1, <2>2, <2>3, <2>4, <1>1 DEF Untouched
  <2>7. Marked(r)'
    <3>1. ASSUME NEW u \in Threads, NEW i \in 1..Len(calls[u]), Closer(u, i, r)
          PROVE  \E v \in Threads : \E j \in 1..Len(calls'[v]) : Closer(v, j, r)'
      <4>1. i \in Nat OBVIOUS
      <4> QED BY Zenon, <3>1, <4>1, <2>2, <2>3
    <3>2. ClosedTo(r, Layers)' <=> ClosedTo(r, Layers) BY Zenon, <1>1 DEF ClosedTo
    <3> QED BY Zenon, <2>1, <3>1, <3>2, <1>1 DEF Marked
  <2> QED BY Zenon, <2>5, <2>6, <2>7
<1>15. \A r \in Spans : \E m \in 0..Layers : ClosedTo(r, m)' BY Zenon, <1>1 DEF Inv, ClosedTo
<1>16. ASSUME NEW u \in Threads, NEW i \in 1..Len(calls'[u]) PROVE Phased(calls[u][i])'
  <2>1. CASE calls'[u][i].phase = "try" /\ calls'[u][i].layer = 1 BY Zenon, <2>1 DEF Phased
  <2>2. CASE i \in 1..Len(calls[u]) /\ calls'[u][i] = calls[u][i]
    <3>1. Phased(calls[u][i]) BY Zenon, <2>2 DEF Inv
    <3> QED BY Zenon, <2>2, <3>1, <1>1 DEF Phased, ClosedTo
  <2>3. CASE calls'[u][i] = fr
    <3>1. status[s] = "marked" /\ \A v \in Threads : looked[v] # s
      BY Zenon, <1>1, <1>3, <1>4 DEF Phased
    <3> QED BY Zenon, <2>3, <3>1, <1>1, <1>5 DEF Phased
  <2> QED BY Zenon, <2>1, <2>2, <2>3, <1>9
<1> QED BY Zenon, <1>9, <1>11, <1>12, <1>13, <1>14, <1>15, <1>16 DEF Inv
-----------------------------------------------------------------------------
(* The theorems                                                            *)

\* The reference count of a slot (DataInner) is that of the span's handles,
\* children and closes that have still to give a reference back, or more where
\* a thread's default is another subscriber; with the rest of Inv it is kept by
\* every step.
THEOREM CountsRight == Spec => []Inv
<1> USE RegistryAssumption
<1>1. Init => Inv
  <2> SUFFICES ASSUME Init PROVE Inv BY Zenon
  <2>1. /\ \A s \in Spans : status[s] = "unused" /\ refs[s] = 0 /\ parent[s] = NoSpan
        /\ \A s \in Spans : handles[s] = 0 /\ \A k \in 1..Layers : closed[s][k] = 0
        /\ \A t \in Threads : /\ calls[t] = <<>> /\ stack[t] = <<>> /\ closeCount[t] = 0
    BY Zenon DEF Init
  <2>2. TypeOK
    <3>1. <<>> \in Seq(Frame) /\ <<>> \in Seq(Context!ContextId) OBVIOUS
    <3> QED BY Zenon, <3>1 DEF Init, TypeOK
  <2>3. \A t \in Threads : Len(calls[t]) = 0 /\ Idle(t) BY <2>1 DEF Idle
  <2>4. HandlesKept BY <2>1 DEF HandlesKept, Entered, Context!At
  <2>5. OneCloser BY <2>3 DEF OneCloser
  <2>6. ASSUME NEW s \in Spans PROVE Counted(s)
    <3>1. Children(s) = {} BY Zenon, <2>1 DEF Children
    <3>2. Trying(s) = {} BY Zenon, <2>3 DEF Trying, At
    <3>3. HasSize(Children(s), 0) /\ HasSize(Trying(s), 0) BY Zenon, <3>1, <3>2, SizeOfNone
    <3> QED BY <2>1, <3>3 DEF Counted
  <2>7. \A s \in Spans : Alive(s) /\ Untouched(s) /\ Marked(s)
    BY <2>1, <2>3 DEF Alive, Untouched, Marked
  <2>8. ASSUME NEW s \in Spans PROVE \E n \in 0..Layers : ClosedTo(s, n)
    <3>1. ClosedTo(s, 0) BY <2>1 DEF ClosedTo
    <3> QED BY <3>1
  <2>9. ASSUME NEW t \in Threads
        PROVE  Below(t) /\ Guarded(t) /\ \A i \in 1..Len(calls[t]) : Phased(calls[t][i])
    <3>1. Len(calls[t]) = 0 BY Zenon, <2>3
    <3>2. Below(t) BY <3>1 DEF Below
    <3> DEFINE f == [i \in 0..0 |-> 0]
    <3>3. f \in [0..Len(calls[t]) -> Nat] /\ f[0] = 0 BY <3>1
    <3> HIDE DEF f
    <3>4. Sums(f, calls[t]) BY <3>1, <3>3 DEF Sums
    <3>5. Guarded(t) BY Zenon, <2>1, <3>1, <3>3, <3>4 DEF Guarded
    <3> QED BY <3>1, <3>2, <3>5
  <2> QED BY Zenon, <2>2, <2>4, <2>5, <2>6, <2>7, <2>8, <2>9 DEF Inv
<1>2. Inv /\ [Next]_vars => Inv'
  <2> SUFFICES ASSUME Inv, [Next]_vars PROVE Inv' BY Zenon
  <2>1. CASE UNCHANGED vars
    <3>1. UNCHANGED <<spanVars, handles, closeCount, calls, looked, stack>>
      BY Zenon, <2>1 DEF vars
    <3>2. TypeOK' BY Zenon, <3>1 DEF Inv, TypeOK, spanVars
    <3>3. HandlesKept' BY Zenon, <3>1 DEF Inv, HandlesKept, Entered
    <3> QED BY Zenon, <3>1, <3>2, <3>3, QuietStep
  <2>2. ASSUME NEW t \in Threads, NEW s \in Spans,
               \/ \E p \in Parents(t) : NewSpan(t, s, p)
               \/ CloneSpan(t, s) \/ DropSpan(t, s) \/ Enter(t, s) \/ Exit(t, s)
               \/ Look(t, s)
        PROVE  Inv'
    BY Zenon, <2>2, NewSpanStep, CloneSpanStep, DropSpanStep, EnterStep, ExitStep, LookStep
  <2>3. ASSUME NEW t \in Threads, Unlook(t) \/ Step(t) PROVE Inv'
    BY Zenon, <2>3, UnlookStep, TryCloseStep, OnCloseStep, ClearStep, ReleaseStep, FreeStep DEF Step
  <2> QED BY Zenon, <2>1, <2>2, <2>3 DEF Next
<1> QED BY <1>1, <1>2, PTL DEF Spec

\* Parents close after their children and layers in their order, and no slot is
\* cleared before, whichever threads drop the handles, also from on_close and on
\* threads without a default dispatcher.
THEOREM ClosesCorrect == Spec => []ClosesInOrder
<1> USE RegistryAssumption
<1>1. Inv => ClosesInOrder
  <2> SUFFICES ASSUME Inv PROVE ClosesInOrder BY Zenon
  <2>1. ASSUME NEW c \in Spans, parent[c] # NoSpan
        PROVE  status[parent[c]] = "open" /\ \A k \in 1..Layers : closed[parent[c]][k] = 0
    <3>1. parent[c] \in Spans BY Zenon, <2>1 DEF Inv, TypeOK
    <3>2. Children(parent[c]) # {} BY Zenon DEF Children
    <3> QED BY Zenon, <3>1, <3>2, Needed
  <2>2. ASSUME NEW s \in Spans
        PROVE  /\ \A k \in 1..Layers : /\ closed[s][k] <= 1
                                       /\ k > 1 => closed[s][k] <= closed[s][k - 1]
               /\ closed[s][Layers] = 0 => status[s] \in {"unused", "open"}
    <3>1. PICK n \in 0..Layers : ClosedTo(s, n) BY Zenon DEF Inv
    <3>2. ASSUME NEW k \in 1..Layers
          PROVE  closed[s][k] <= 1 /\ (k > 1 => closed[s][k] <= closed[s][k - 1])
      <4>1. closed[s][k] = IF k <= n THEN 1 ELSE 0 BY Zenon, <3>1 DEF ClosedTo
      <4>2. k > 1 => closed[s][k - 1] = IF k - 1 <= n THEN 1 ELSE 0 BY <3>1 DEF ClosedTo
      <4> QED BY <4>1, <4>2
    <3>3. Marked(s) /\ status[s] \in {"unused", "open", "marked", "cleared"}
      BY Zenon DEF Inv, TypeOK
    <3>4. status[s] \in {"marked", "cleared"} => closed[s][Layers] = 1
      BY <3>3 DEF Marked, ClosedTo
    <3> QED BY <3>2, <3>3, <3>4
  <2> QED BY Zenon, <2>1, <2>2 DEF ClosesInOrder, ParentOpen, ClosedInOrder
<1> QED BY <1>1, CountsRight, PTL

\* clone_span and try_close find the span they are called for, and new_span a
\* count of 0.
THEOREM NeverPanics == Spec => []NoPanic
<1>1. Inv => NoPanic
  <2> SUFFICES ASSUME Inv PROVE NoPanic BY Zenon
  <2>1. ASSUME NEW s \in Spans, status[s] \in {"unused", "cleared"} PROVE refs[s] = 0
    <3>1. refs[s] \in Nat /\ ~(refs[s] > 0) BY Zenon, <2>1, Numbers, Needed
    <3> QED BY <3>1
  <2>2. \A s \in Spans : handles[s] > 0 \/ Entered(s) => status[s] = "open" /\ refs[s] > 0
    BY Zenon, Needed
  <2>3. ASSUME NEW t \in Threads, At(t, "try")
        PROVE  status[Top(t).id] = "open" /\ refs[Top(t).id] > 0
    <3>1. Top(t).id \in Spans BY Zenon, <2>3, TopCall DEF Inv, At
    <3>2. t \in Trying(Top(t).id) BY Zenon, <2>3 DEF Trying
    <3> QED BY Zenon, <3>1, <3>2, Needed
  <2> QED BY Zenon, <2>1, <2>2, <2>3 DEF NoPanic
<1> QED BY <1>1, CountsRight, PTL

\* If on_close drops no handle and every thread has this dispatcher as its
\* default, no span is left behind.
THEOREM LeaksNothing ==
  ASSUME ~Reentrant, OwnDefault = Threads
  PROVE  Spec => []NoLeak
<1>1. Inv => NoLeak
  <2> SUFFICES ASSUME Inv, \A t \in Threads : Idle(t) /\ looked[t] = NoSpan,
                      NEW s \in Spans, status[s] \in {"open", "marked"}
               PROVE  handles[s] > 0 \/ Children(s) # {}
    BY Zenon DEF NoLeak
  <2>1. \A t \in Threads : Len(calls[t]) = 0 BY DEF Idle
  <2>2. Trying(s) = {} BY Zenon DEF Trying, At
  <2>3. Marked(s) BY Zenon DEF Inv
  <2>4. \A t \in Threads : looked[t] # s BY Zenon, RegistryAssumption
  <2>5. status[s] = "open" /\ refs[s] > 0 BY <2>1, <2>3, <2>4 DEF Marked
  <2>6. PICK c, d \in Nat : /\ HasSize(Children(s), c) /\ HasSize(Trying(s), d)
                            /\ refs[s] = handles[s] + c + d
    BY Zenon DEF Inv, Counted
  <2>7. d = 0 BY Zenon, <2>2, <2>6, SizeOfNone
  <2>8. Children(s) = {} => c = 0 BY Zenon, <2>6, SizeOfNone
  <2>9. handles[s] \in Nat BY Zenon, Numbers
  <2> QED BY <2>5, <2>6, <2>7, <2>8, <2>9
<1> QED BY <1>1, CountsRight, PTL
=============================================================================
