--------------------------- MODULE CallsitesProofs ---------------------------
(***************************************************************************)
(* For every set of threads, callsites and dispatches: an interest or a    *)
(* maximum level stored under the dispatchers' lock never leaves out a     *)
(* subscriber whose Dispatch::new has returned, and the walk of the list   *)
(* of callsites ends and misses none whose push has returned.              *)
(***************************************************************************)
EXTENDS Callsites, TLAPS

-----------------------------------------------------------------------------
(* The lock-free list                                                      *)

\* push_default: a callsite that is not in the list and whose `next` is the
\* head becomes the head of a longer chain ...
LEMMA ChainPush ==
  ASSUME NEW h \in ListSites \cup {None}, NEW s \in ListSites,
         NEW nx \in [ListSites -> ListSites \cup {None}],
         NEW rk \in [ListSites -> Nat], None \notin ListSites,
         Chain(h, nx, rk), nx[s] = h, rk[s] = 0
  PROVE  Chain(s, nx, [rk EXCEPT ![s] = IF h = None THEN 1 ELSE rk[h] + 1])
<1> DEFINE rp == [rk EXCEPT ![s] = IF h = None THEN 1 ELSE rk[h] + 1]
<1>1. h # None => h # s /\ rk[h] > 0
  BY SMTT(30) DEF Chain
<1>2. rp \in [ListSites -> Nat] /\ \A c \in ListSites : c # s => rp[c] = rk[c]
  OBVIOUS
<1>3. rp[s] = (IF h = None THEN 1 ELSE rk[h] + 1)
  BY Zenon
<1> HIDE DEF rp
<1>4. \A c \in ListSites : c # s => rp[c] < rp[s]
  BY <1>2, <1>3, SMTT(30) DEF Chain
<1>5. \A c \in ListSites : c # s /\ rk[c] > 1 => nx[c] # s
  BY SMTT(30) DEF Chain
<1>6. Chain(s, nx, rp)
  BY <1>1, <1>2, <1>3, <1>4, <1>5, SMTT(30) DEF Chain
<1>7. QED
  BY <1>6, Zenon DEF rp

\* ... and its `next` does not matter before that.
LEMMA ChainLink ==
  ASSUME NEW h \in ListSites \cup {None}, NEW s \in ListSites,
         NEW nx \in [ListSites -> ListSites \cup {None}],
         NEW rk \in [ListSites -> Nat], NEW n \in ListSites \cup {None},
         Chain(h, nx, rk), rk[s] = 0
  PROVE  Chain(h, [nx EXCEPT ![s] = n], rk)
<1> DEFINE np == [nx EXCEPT ![s] = n]
<1>1. \A c \in ListSites : rk[c] > 0 => np[c] = nx[c]
  OBVIOUS
<1> HIDE DEF np
<1>2. Chain(h, np, rk)
  BY <1>1, SMTT(30) DEF Chain
<1>3. QED
  BY <1>2, Zenon DEF np

\* for_each: the callsites behind s in the list are met after it.
LEMMA ChainNext ==
  ASSUME NEW h, NEW nx, NEW rk \in [ListSites -> Nat], Chain(h, nx, rk),
         NEW s \in ListSites, NEW c \in ListSites, 0 < rk[c], rk[c] < rk[s]
  PROVE  nx[s] \in ListSites /\ rk[c] <= rk[nx[s]]
BY DEF Chain

\* push_default stores `next`: the callsite is not in the list yet.
LEMMA LinkStep ==
  ASSUME CallsitesAssumption, IInv, NEW t \in Threads, Link(t)
  PROVE  IInv'
<1> USE CallsitesAssumption DEF CallsitesAssumption, IInv, Link, From, Goto,
       listVars, cacheVars, lockVars, subscriberVars, threadVars
<1>1. TypeOK'
  BY Zenon DEF TypeOK, LocalsOK, Pcs, Modes, Callsites
<1>2. LocalsOK' /\ WriterExcludes'
  BY SMTT(30) DEF TypeOK, LocalsOK, WriterExcludes, Callsites
<1>3. ListOK'
  <2>1. Chain(head, next', rank)
    BY Zenon, ChainLink DEF TypeOK, LocalsOK, ListOK
  <2>2. QED
    BY <2>1, SMTT(30) DEF TypeOK, LocalsOK, ListOK
<1>4. PendingOK'
  BY SMTT(30) DEF TypeOK, LocalsOK, WriterExcludes, PendingOK, Justified, Callsites
<1>5. WalkOK'
  BY SMTT(30) DEF TypeOK, LocalsOK, WriterExcludes, ListOK, WalkOK, Ahead, Justified, Callsites
<1>6. LockedCacheJustified'
  BY SMTT(30) DEF TypeOK, LocalsOK, LockedCacheJustified, Justified, Active, Callsites
<1>7. QED
  BY Zenon, <1>1, <1>2, <1>3, <1>4, <1>5, <1>6

\* The compare_exchange of the head puts the callsite in the list, or finds another head.
LEMMA CasHeadStep ==
  ASSUME CallsitesAssumption, IInv, NEW t \in Threads, CasHead(t)
  PROVE  IInv'
<1>1. /\ site[t] \in ListSites /\ rank[site[t]] = 0
      /\ head \in ListSites \cup {None}
      /\ next \in [ListSites -> ListSites \cup {None}]
      /\ rank \in [ListSites -> Nat] /\ None \notin ListSites
  BY Zenon DEF IInv, TypeOK, LocalsOK, ListOK, CasHead, From, CallsitesAssumption,
         Callsites
<1>2. /\ head' \in ListSites \cup {None}
      /\ next' \in [ListSites -> ListSites \cup {None}]
      /\ rank' \in [ListSites -> Nat]
      /\ \A c \in ListSites : c # site[t] => rank'[c] = rank[c]
      /\ \/ rank' = rank
         \/ rank'[site[t]] > 0 /\ pc' = [pc EXCEPT ![t] = "rebuilder"]
      /\ Chain(head', next', rank')
  <2>1. CASE head = next[site[t]]
    <3>1. /\ head' = site[t] /\ next' = next
          /\ rank' = [rank EXCEPT ![site[t]] = IF head = None THEN 1
                                               ELSE rank[head] + 1]
          /\ pc' = [pc EXCEPT ![t] = "rebuilder"]
      BY <2>1, Zenon DEF CasHead, Goto
    <3>2. Chain(head', next', rank')
      BY Zenon, <1>1, <2>1, <3>1, ChainPush DEF IInv, ListOK
    <3>3. QED
      BY <1>1, <3>1, <3>2
  <2>2. CASE head # next[site[t]]
    <3>1. head' = head /\ next' = [next EXCEPT ![site[t]] = head] /\ rank' = rank
      BY Zenon, <2>2 DEF CasHead
    <3>2. Chain(head', next', rank')
      BY Zenon, <1>1, <3>1, ChainLink DEF IInv, ListOK
    <3>3. next' \in [ListSites -> ListSites \cup {None}]
      BY Zenon, <1>1, <3>1
    <3>4. QED
      BY Zenon, <1>1, <3>1, <3>2, <3>3
  <2>3. QED
    BY Zenon, <2>1, <2>2
<1> USE CallsitesAssumption DEF CallsitesAssumption, IInv, CasHead, From, Goto,
       listVars, cacheVars, lockVars, subscriberVars
<1>3. TypeOK'
  <2>1. pc' \in [Threads -> Pcs]
    BY SMTT(30) DEF TypeOK, Pcs
  <2>2. UNCHANGED <<registration, hasLocked, locked, mutex, cacheVars, lockVars,
                    subscriberVars, op, mode, site, disp, val, lvl, rest>>
    BY Zenon DEF CasHead
  <2>3. QED
    BY <1>2, <2>1, <2>2, SMTT(60) DEF TypeOK
<1>4. LocalsOK' /\ WriterExcludes'
  BY SMTT(30) DEF TypeOK, LocalsOK, WriterExcludes
<1>5. ListOK'
  BY <1>1, <1>2, SMTT(30) DEF TypeOK, LocalsOK, ListOK
<1>6. PendingOK'
  BY SMTT(30) DEF TypeOK, LocalsOK, PendingOK, Justified
<1>7. WalkOK'
  <2> SUFFICES ASSUME NEW u \in Threads, mode[u] = "Write",
                      NEW c \in Callsites, basis[c] = "Locked"
               PROVE  Ahead(u, c)' \/ Justified(interest[c], c, {disp[u]})
    BY SMTT(30) DEF TypeOK, LocalsOK, WalkOK, Justified
  <2>1. pc'[u] = pc[u] /\ pc[u] # "cas"
    BY SMTT(30) DEF TypeOK, LocalsOK
  <2>2. CASE Ahead(u, c) /\ c \in ListSites
    <3>1. rank'[c] = rank[c]
      BY <1>1, <1>2, <2>2, Zenon DEF ListOK
    <3>2. pc[u] \in {"ask", "store"} /\ site[u] \in ListSites
            => rank'[site[u]] = rank[site[u]]
      BY <1>1, <1>2, SMTT(30) DEF ListOK
    <3>3. QED
      BY Zenon, <2>1, <2>2, <3>1, <3>2 DEF Ahead
  <2>3. CASE Ahead(u, c) /\ c \notin ListSites
    BY <2>1, <2>3, Zenon DEF Ahead
  <2>4. QED
    BY Zenon, <2>2, <2>3 DEF WalkOK
<1>8. LockedCacheJustified'
  BY SMTT(30) DEF LockedCacheJustified, Justified, Active
<1>9. QED
  BY Zenon, <1>3, <1>4, <1>5, <1>6, <1>7, <1>8

\* for_each loads the head, or the `next` of the callsite it visited.
LEMMA LoadHeadStep ==
  ASSUME CallsitesAssumption, IInv, NEW t \in Threads, LoadHead(t)
  PROVE  IInv'
<1> USE CallsitesAssumption DEF CallsitesAssumption, IInv, LoadHead, From, Goto, Visit,
       listVars, cacheVars, lockVars, subscriberVars, threadVars
<1>1. TypeOK'
  BY Zenon DEF TypeOK, LocalsOK, Pcs, Modes, Callsites
<1>2. LocalsOK' /\ WriterExcludes'
  BY SMTT(30) DEF TypeOK, LocalsOK, WriterExcludes, Callsites
<1>3. ListOK'
  BY SMTT(30) DEF TypeOK, LocalsOK, ListOK, Chain, Callsites
<1>4. PendingOK'
  BY SMTT(30) DEF TypeOK, LocalsOK, WriterExcludes, PendingOK, Justified, Callsites
<1>5. WalkOK'
  BY SMTT(30) DEF TypeOK, LocalsOK, WriterExcludes, ListOK, Chain, WalkOK, Ahead, Justified, Callsites
<1>6. LockedCacheJustified'
  BY SMTT(30) DEF TypeOK, LocalsOK, LockedCacheJustified, Justified, Active, Callsites
<1>7. QED
  BY Zenon, <1>1, <1>2, <1>3, <1>4, <1>5, <1>6

\* set_interest stores an interest that the dispatchers the walk saw justify.
LEMMA StoreStep ==
  ASSUME CallsitesAssumption, IInv, NEW t \in Threads, Store(t)
  PROVE  IInv'
<1> USE CallsitesAssumption DEF CallsitesAssumption, IInv, Store, From, Goto, Visit,
       listVars, cacheVars, lockVars, subscriberVars, threadVars
<1>1. TypeOK'
  <2>1. site[t] \in Callsites /\ val[t] \in Interest \cup {"empty"}
    BY Zenon DEF TypeOK, LocalsOK
  <2>2. interest' \in [Callsites -> Interest \cup {"empty"}]
    BY <2>1, Zenon DEF TypeOK
  <2>3. basis' \in [Callsites -> {"none", "JustOne", "Locked"}]
    BY <2>1, Zenon DEF TypeOK
  <2>4. site' \in [Threads -> Callsites \cup {None}]
    <3>1. site[t] \in ListSites => next[site[t]] \in Callsites \cup {None}
      BY Zenon DEF TypeOK, Callsites
    <3>2. CASE site' = site
      BY <3>2, Zenon DEF TypeOK
    <3>3. CASE /\ site[t] \in ListSites
               /\ site' = [site EXCEPT ![t] = next[site[t]]]
      BY <3>1, <3>3, Zenon DEF TypeOK
    <3>4. QED
      BY Zenon, <3>2, <3>3
  <2>5. pc' \in [Threads -> Pcs]
    <3>1. PICK l \in {"finish", "locked_flag", "ask", "set_max", "lock_dyn"} :
            pc' = [pc EXCEPT ![t] = l]
      BY Zenon
    <3>2. pc \in [Threads -> Pcs] /\ l \in Pcs
      BY Zenon DEF TypeOK, Pcs
    <3>3. QED
      BY <3>1, <3>2, Zenon
  <2>7. mutex' \in Threads \cup {None}
    BY Zenon DEF TypeOK
  <2>6. QED
    BY <2>2, <2>3, <2>4, <2>5, <2>7, Zenon DEF TypeOK
<1>2. LocalsOK' /\ WriterExcludes'
  BY SMTT(30) DEF TypeOK, LocalsOK, WriterExcludes, Callsites
<1>3. ListOK'
  BY SMTT(30) DEF TypeOK, LocalsOK, ListOK, Chain, Callsites
<1>4. PendingOK'
  BY SMTT(30) DEF TypeOK, LocalsOK, WriterExcludes, PendingOK, Justified, Callsites
<1>5. WalkOK'
  <2>1. site[t] \in Callsites
    BY Zenon DEF LocalsOK
  <2> SUFFICES ASSUME NEW u \in Threads, mode[u] = "Write",
                      NEW c \in Callsites, basis'[c] = "Locked"
               PROVE  Ahead(u, c)' \/ Justified(interest'[c], c, {disp[u]})
    BY SMTT(30) DEF TypeOK, LocalsOK, WalkOK, Justified
  <2>2. CASE c = site[t]
    <3>1. interest'[c] = val[t] /\ mode[t] # "JustOne"
      BY <2>1, <2>2, SMTT(30) DEF TypeOK
    <3>2. u = t
      BY <3>1, SMTT(30) DEF TypeOK, Modes, LocalsOK, WriterExcludes
    <3>3. Justified(val[t], c, {disp[u]})
      BY <2>2, <3>2, SMTT(30) DEF PendingOK, LocalsOK, Justified
    <3>4. QED
      BY Zenon, <3>1, <3>3
  <2>3. CASE c # site[t]
    <3>1. interest'[c] = interest[c] /\ basis[c] = "Locked"
      BY <2>3, SMTT(30) DEF TypeOK
    <3>2. Ahead(u, c) \/ Justified(interest[c], c, {disp[u]})
      BY <3>1, Zenon DEF WalkOK
    <3>3. CASE u # t
      BY <3>1, <3>2, <3>3, SMTT(30) DEF Ahead, TypeOK
    <3>4. CASE u = t /\ Ahead(u, c) /\ c \in ListSites
      <4>1. /\ site[t] \in ListSites /\ rank[c] <= rank[site[t]] /\ op[t] # "register"
            /\ rank[c] > 0 /\ rank[c] # rank[site[t]]
            /\ rank[c] \in Nat /\ rank[site[t]] \in Nat
        BY <2>3, <3>1, <3>4, SMTT(30) DEF Ahead, TypeOK, LocalsOK, ListOK, Chain
      <4>2. next[site[t]] \in ListSites /\ rank[c] <= rank[next[site[t]]]
        <5>1. Chain(head, next, rank) /\ rank \in [ListSites -> Nat]
          BY Zenon DEF ListOK, TypeOK
        <5>2. rank[c] < rank[site[t]]
          BY <4>1
        <5>3. QED
          BY Zenon, <3>4, <4>1, <5>1, <5>2, ChainNext
      <4>3. pc'[t] = "ask" /\ site'[t] = next[site[t]]
        BY <4>1, <4>2, SMTT(30) DEF TypeOK, Callsites
      <4>4. QED
        BY <3>4, <4>2, <4>3, Zenon DEF Ahead
    <3>5. CASE u = t /\ Ahead(u, c) /\ c \notin ListSites /\ site[t] \in ListSites
      <4>1. pc'[t] \in {"ask", "locked_flag"} /\ op[t] # "register"
        BY <3>5, SMTT(30) DEF TypeOK, LocalsOK
      <4>2. pc'[t] = "ask" => site'[t] \in ListSites
        BY <3>5, <4>1, SMTT(30) DEF TypeOK
      <4>3. QED
        BY <3>5, <4>1, <4>2, Zenon DEF Ahead
    <3>6. CASE u = t /\ Ahead(u, c) /\ c \notin ListSites /\ site[t] \notin ListSites
      <4>1. c \in rest[t] /\ site[t] \in DynSites /\ op[t] # "register"
        BY <2>3, <3>6, <2>1, Zenon DEF Ahead, Callsites, LocalsOK
      <4>2. pc'[t] = "lock_dyn" /\ rest' = rest
        BY <4>1, <3>6, SMTT(30) DEF TypeOK
      <4>3. QED
        BY <3>6, <4>1, <4>2, Zenon DEF Ahead
    <3>7. QED
      BY Zenon, <3>1, <3>2, <3>3, <3>4, <3>5, <3>6
  <2>4. QED
    BY Zenon, <2>2, <2>3
<1>6. LockedCacheJustified'
  <2>1. Active' = Active /\ Active \subseteq dispatchers \cap live
    BY Zenon DEF Active
  <2>2. mode[t] # "JustOne" => Justified(val[t], site[t], Active)
    BY <2>1, Zenon DEF TypeOK, Modes, LocalsOK, PendingOK, Justified
  <2>3. \A c \in Callsites : c # site[t] => interest'[c] = interest[c] /\ basis'[c] = basis[c]
    BY Zenon DEF TypeOK
  <2>4. basis'[site[t]] = "Locked" =>
          mode[t] # "JustOne" /\ interest'[site[t]] = val[t]
    BY Zenon DEF TypeOK, LocalsOK
  <2>5. QED
    BY <2>1, <2>2, <2>3, <2>4, SMTT(30) DEF LockedCacheJustified, Justified
<1>7. QED
  BY Zenon, <1>1, <1>2, <1>3, <1>4, <1>5, <1>6

-----------------------------------------------------------------------------
(* The other steps of a rebuild                                            *)

\* Interest::and keeps `never` and `always` only when everyone agrees.
LEMMA CombineJustified ==
  ASSUME NEW c \in Callsites, NEW ds \in SUBSET Dispatches,
         CallsitesAssumption, TypeOK
  PROVE  /\ Combine(ds, c) \in Interest
         /\ Justified(Combine(ds, c), c, ds)
<1> DEFINE answers == {InterestOf(d, c) : d \in ds}
<1>1. \A d \in ds : InterestOf(d, c) = wants[d][c]
  BY Zenon DEF InterestOf, CallsitesAssumption
<1>2. CASE answers = {}
  <2>1. ds = {}
    BY <1>2
  <2>2. QED
    BY <1>2, <2>1, Zenon DEF Combine, Justified, Interest
<1>3. CASE answers # {} /\ \E i \in Interest : answers = {i}
  <2>1. PICK i \in Interest : answers = {i}
    BY Zenon, <1>3
  <2>2. (CHOOSE j \in Interest : answers = {j}) = i
    BY Zenon, <2>1
  <2>3. Combine(ds, c) = i
    BY Zenon, <1>3, <2>2 DEF Combine
  <2>4. \A d \in ds : wants[d][c] = i
    BY Zenon, <2>1, <1>1
  <2>5. QED
    BY <2>3, <2>4, Zenon DEF Justified
<1>4. CASE answers # {} /\ ~ \E i \in Interest : answers = {i}
  <2>1. Combine(ds, c) = "sometimes"
    BY <1>4, Zenon DEF Combine
  <2>2. QED
    BY <2>1, Zenon DEF Justified, Interest
<1>5. QED
  BY Zenon, <1>2, <1>3, <1>4

\* rebuild_interest computes the maximum level from the hints.
LEMMA ComputeMaxStep ==
  ASSUME CallsitesAssumption, IInv, NEW t \in Threads, ComputeMax(t)
  PROVE  IInv'
<1> USE CallsitesAssumption DEF CallsitesAssumption, IInv, ComputeMax, From, Goto,
       listVars, cacheVars, lockVars, subscriberVars, threadVars
<1>1. TypeOK'
  BY SMTT(30) DEF TypeOK, LocalsOK, Pcs, Modes, Callsites
<1>2. LocalsOK' /\ WriterExcludes'
  BY SMTT(30) DEF TypeOK, LocalsOK, WriterExcludes, Callsites
<1>3. ListOK'
  BY SMTT(30) DEF TypeOK, LocalsOK, ListOK, Callsites
<1>4. PendingOK'
  <2>1. PICK l \in Levels : IsMaxHint(l, Consulted(t)) /\ lvl' = [lvl EXCEPT ![t] = l]
    BY Zenon
  <2>2. mode[t] \in {"Read", "Write"} =>
          \A d \in dispatchers \cap live : hint[d] <= lvl'[t]
    <3>1. mode[t] \in {"Read", "Write"} => Consulted(t) = dispatchers \cap live
      BY Zenon DEF Consulted
    <3>2. \A d \in dispatchers \cap live : HintOf(d) = hint[d]
      BY Zenon DEF HintOf, TypeOK
    <3>3. QED
      BY <2>1, <3>1, <3>2, SMTT(30) DEF IsMaxHint, TypeOK
  <2>3. QED
    BY <2>2, SMTT(30) DEF TypeOK, LocalsOK, WriterExcludes, PendingOK, Justified, Callsites
<1>5. WalkOK'
  BY SMTT(30) DEF TypeOK, LocalsOK, WriterExcludes, ListOK, WalkOK, Ahead, Justified, Callsites
<1>6. LockedCacheJustified'
  BY SMTT(30) DEF TypeOK, LocalsOK, LockedCacheJustified, Justified, Active, Callsites
<1>7. QED
  BY Zenon, <1>1, <1>2, <1>3, <1>4, <1>5, <1>6

\* rebuild_callsite_interest asks the registered subscribers.
LEMMA AskStep ==
  ASSUME CallsitesAssumption, IInv, NEW t \in Threads, Ask(t)
  PROVE  IInv'
<1> USE CallsitesAssumption DEF CallsitesAssumption, IInv, Ask, From, Goto,
       listVars, cacheVars, lockVars, subscriberVars, threadVars
<1>1. TypeOK'
  <2>1. Consulted(t) \subseteq Dispatches \/ Consulted(t) = {None}
    BY Zenon DEF TypeOK, Consulted, DefaultOf
  <2>2. Combine(Consulted(t), site[t]) \in Interest
    <3>1. CASE Consulted(t) = {None}
      BY <3>1, Zenon DEF Combine, InterestOf, Interest
    <3>2. CASE Consulted(t) \subseteq Dispatches
      BY <3>2, CombineJustified, Zenon DEF LocalsOK
    <3>3. QED
      BY Zenon, <2>1, <3>1, <3>2
  <2>3. QED
    BY <2>2, Zenon DEF TypeOK, LocalsOK, Pcs, Modes, Callsites
<1>2. LocalsOK' /\ WriterExcludes'
  BY SMTT(30) DEF TypeOK, LocalsOK, WriterExcludes, Callsites
<1>3. ListOK'
  BY SMTT(30) DEF TypeOK, LocalsOK, ListOK, Callsites
<1>4. PendingOK'
  <2>1. mode[t] \in {"Read", "Write"} =>
          Justified(val'[t], site[t], dispatchers \cap live)
    <3> SUFFICES ASSUME mode[t] \in {"Read", "Write"}
                 PROVE  Justified(val'[t], site[t], dispatchers \cap live)
      BY Zenon
    <3>1. Consulted(t) = dispatchers \cap live /\ Consulted(t) \subseteq Dispatches
      BY Zenon DEF Consulted, TypeOK
    <3>2. val'[t] = Combine(Consulted(t), site[t]) /\ site[t] \in Callsites
      BY SMTT(30) DEF TypeOK, LocalsOK
    <3>3. QED
      BY <3>1, <3>2, CombineJustified, SMTT(30)
  <2>2. QED
    BY <2>1, SMTT(30) DEF TypeOK, LocalsOK, WriterExcludes, PendingOK, Justified, Callsites
<1>5. WalkOK'
  BY SMTT(30) DEF TypeOK, LocalsOK, WriterExcludes, ListOK, WalkOK, Ahead, Justified, Callsites
<1>6. LockedCacheJustified'
  BY SMTT(30) DEF TypeOK, LocalsOK, LockedCacheJustified, Justified, Active, Callsites
<1>7. QED
  BY Zenon, <1>1, <1>2, <1>3, <1>4, <1>5, <1>6

\* for_each reads has_locked_callsites.
LEMMA LockedFlagStep ==
  ASSUME CallsitesAssumption, IInv, NEW t \in Threads, LockedFlag(t)
  PROVE  IInv'
<1> USE CallsitesAssumption DEF CallsitesAssumption, IInv, LockedFlag, From, Goto,
       listVars, cacheVars, lockVars, subscriberVars, threadVars
<1>1. TypeOK'
  <2>1. /\ mutex' \in Threads \cup {None}
        /\ rest' \in [Threads -> SUBSET DynSites]
    <3>1. /\ mutex' \in {mutex, t}
          /\ rest' = rest \/ rest' = [rest EXCEPT ![t] = locked]
      BY Zenon
    <3>2. /\ mutex \in Threads \cup {None} /\ locked \in SUBSET DynSites
          /\ rest \in [Threads -> SUBSET DynSites]
      BY Zenon DEF TypeOK
    <3>3. QED
      BY <3>1, <3>2, Zenon
  <2>3. pc' \in [Threads -> Pcs]
    <3>1. PICK l \in {"set_max", "lock_dyn"} : pc' = [pc EXCEPT ![t] = l]
      BY Zenon
    <3>2. pc \in [Threads -> Pcs] /\ l \in Pcs
      BY Zenon DEF TypeOK, Pcs
    <3>3. QED
      BY <3>1, <3>2, Zenon
  <2>2. QED
    BY <2>1, <2>3, Zenon DEF TypeOK
<1>2. LocalsOK' /\ WriterExcludes'
  BY SMTT(30) DEF TypeOK, LocalsOK, WriterExcludes, Callsites
<1>3. ListOK'
  BY SMTT(30) DEF TypeOK, LocalsOK, ListOK, Callsites
<1>4. PendingOK'
  BY SMTT(30) DEF TypeOK, LocalsOK, WriterExcludes, PendingOK, Justified, Callsites
<1>5. WalkOK'
  BY SMTT(30) DEF TypeOK, LocalsOK, WriterExcludes, ListOK, WalkOK, Ahead, Justified, Callsites
<1>6. LockedCacheJustified'
  BY SMTT(30) DEF TypeOK, LocalsOK, LockedCacheJustified, Justified, Active, Callsites
<1>7. QED
  BY Zenon, <1>1, <1>2, <1>3, <1>4, <1>5, <1>6

\* for_each visits a callsite of LOCKED_CALLSITES.
LEMMA VisitDynStep ==
  ASSUME CallsitesAssumption, IInv, NEW t \in Threads, VisitDyn(t)
  PROVE  IInv'
<1> USE CallsitesAssumption DEF CallsitesAssumption, IInv, VisitDyn, From, Goto,
       listVars, cacheVars, lockVars, subscriberVars, threadVars
<1>1. TypeOK'
  BY SMTT(30) DEF TypeOK, LocalsOK, Pcs, Modes, Callsites
<1>2. LocalsOK' /\ WriterExcludes'
  BY SMTT(30) DEF TypeOK, LocalsOK, WriterExcludes, Callsites
<1>3. ListOK'
  BY SMTT(30) DEF TypeOK, LocalsOK, ListOK, Callsites
<1>4. PendingOK'
  BY SMTT(30) DEF TypeOK, LocalsOK, WriterExcludes, PendingOK, Justified, Callsites
<1>5. WalkOK'
  BY SMTT(30) DEF TypeOK, LocalsOK, WriterExcludes, ListOK, WalkOK, Ahead, Justified, Callsites
<1>6. LockedCacheJustified'
  BY SMTT(30) DEF TypeOK, LocalsOK, LockedCacheJustified, Justified, Active, Callsites
<1>7. QED
  BY Zenon, <1>1, <1>2, <1>3, <1>4, <1>5, <1>6

\* WalkOK after a step that stores no interest and moves no thread into or out
\* of a registration.
LEMMA WalkKept ==
  ASSUME UNCHANGED <<mode, basis, interest, disp, hint, wants>>,
         \A u \in Threads : mode[u] = "Write" =>
           /\ \A c \in Callsites : basis[c] = "Locked" =>
                Ahead(u, c)' \/ Justified(interest[c], c, {disp[u]})
           /\ pc'[u] = "finish" /\ maxBasis' = "Locked" => hint[disp[u]] <= maxLevel'
  PROVE  WalkOK'
BY Zenon DEF WalkOK, Justified

\* LevelFilter::set_max stores the maximum level.
LEMMA SetMaxStep ==
  ASSUME CallsitesAssumption, IInv, NEW t \in Threads, SetMax(t)
  PROVE  IInv'
<1> USE CallsitesAssumption DEF CallsitesAssumption, IInv, SetMax, From, Goto,
       listVars, cacheVars, lockVars, subscriberVars, threadVars
<1>1. TypeOK'
  BY Zenon DEF TypeOK, LocalsOK, Pcs, Modes, Callsites
<1>2. LocalsOK' /\ WriterExcludes'
  BY SMTT(30) DEF TypeOK, LocalsOK, WriterExcludes, Callsites
<1>3. ListOK'
  BY SMTT(30) DEF TypeOK, LocalsOK, ListOK, Callsites
<1>4. PendingOK'
  BY SMTT(30) DEF TypeOK, LocalsOK, WriterExcludes, PendingOK, Justified, Callsites
<1>5. WalkOK'
  <2>1. mode[t] = "Write" => hint[disp[t]] <= maxLevel'
    <3>1. mode[t] = "Write" =>
            disp[t] \in dispatchers \cap live /\ op[t] # "register"
      BY Zenon DEF LocalsOK
    <3>2. QED
      BY Zenon, <3>1 DEF PendingOK
  <2>2. UNCHANGED <<mode, basis, interest, disp, hint, wants>>
    BY Zenon
  <2>3. ASSUME NEW u \in Threads, mode[u] = "Write"
        PROVE  /\ \A c \in Callsites : basis[c] = "Locked" =>
                    Ahead(u, c)' \/ Justified(interest[c], c, {disp[u]})
               /\ pc'[u] = "finish" /\ maxBasis' = "Locked" =>
                    hint[disp[u]] <= maxLevel'
    <3>1. CASE u = t
      BY Zenon, <2>1, <2>3, <3>1 DEF WalkOK, Ahead, TypeOK
    <3>2. CASE u # t
      <4>1. mode[t] = "JustOne"
        BY <2>3, <3>2, SMTT(30) DEF TypeOK, Modes, LocalsOK, WriterExcludes
      <4>2. QED
        BY Zenon, <2>3, <3>2, <4>1 DEF WalkOK, Ahead, TypeOK
    <3>3. QED
      BY <3>1, <3>2, Zenon
  <2>4. QED
    BY Zenon, <2>2, <2>3, WalkKept
<1>6. LockedCacheJustified'
  <2>1. mode[t] # "JustOne" => \A d \in Active : hint[d] <= maxLevel'
    <3>1. mode[t] # "JustOne" => mode[t] \in {"Read", "Write"} /\ op[t] # "register"
      BY Zenon DEF TypeOK, Modes, LocalsOK
    <3>2. QED
      BY <3>1, Zenon DEF PendingOK, Active
  <2>2. QED
    BY <2>1, SMTT(30) DEF TypeOK, LocalsOK, LockedCacheJustified, Justified, Active, Callsites
<1>7. QED
  BY Zenon, <1>1, <1>2, <1>3, <1>4, <1>5, <1>6

\* The Rebuilder is dropped, and with it the lock.
LEMMA FinishStep ==
  ASSUME CallsitesAssumption, IInv, NEW t \in Threads, Finish(t)
  PROVE  IInv'
<1> USE CallsitesAssumption DEF CallsitesAssumption, IInv, Finish, From, Goto,
       listVars, cacheVars, lockVars, subscriberVars, threadVars
<1>1. TypeOK'
  <2>1. 0 \in Levels
    BY SMTT(30) DEF Levels
  <2>2. readers' \subseteq Threads /\ writer' \in Threads \cup {None}
    BY Zenon DEF TypeOK
  <2>3. registration' \in
          [ListSites -> {"UNREGISTERED", "REGISTERING", "REGISTERED"}]
    BY Zenon DEF TypeOK
  <2>4. /\ op' \in [Threads -> {"none", "register", "rebuild", "dispatch"}]
        /\ mode' \in [Threads -> Modes] /\ pc' \in [Threads -> Pcs]
    BY Zenon DEF TypeOK, Modes, Pcs
  <2>5. /\ site' \in [Threads -> Callsites \cup {None}]
        /\ disp' \in [Threads -> Dispatches \cup {None}]
        /\ val' \in [Threads -> Interest \cup {"empty"}] /\ lvl' \in [Threads -> Levels]
    BY <2>1, Zenon DEF TypeOK
  <2>6. QED
    BY <2>2, <2>3, <2>4, <2>5, Zenon DEF TypeOK
<1>2. LocalsOK' /\ WriterExcludes'
  BY SMTT(30) DEF TypeOK, LocalsOK, WriterExcludes, Callsites
<1>3. ListOK'
  BY SMTT(30) DEF TypeOK, LocalsOK, ListOK, Callsites
<1>4. PendingOK'
  BY SMTT(30) DEF TypeOK, LocalsOK, WriterExcludes, PendingOK, Justified, Callsites
<1>5. WalkOK'
  BY SMTT(30) DEF TypeOK, LocalsOK, WriterExcludes, ListOK, WalkOK, Ahead, Justified, Callsites
<1>6. LockedCacheJustified'
  <2>1. Active' \subseteq Active \cup {d \in {disp[t]} : mode[t] = "Write"}
    BY SMTT(30) DEF TypeOK, LocalsOK, Active
  <2>2. mode[t] = "Write" =>
          /\ \A c \in Callsites : basis[c] = "Locked" =>
               Justified(interest[c], c, {disp[t]})
          /\ maxBasis = "Locked" => hint[disp[t]] <= maxLevel
    BY Zenon DEF WalkOK, Ahead
  <2>3. QED
    BY <2>1, <2>2, Zenon DEF LockedCacheJustified, Justified
<1>7. QED
  BY Zenon, <1>1, <1>2, <1>3, <1>4, <1>5, <1>6

-----------------------------------------------------------------------------

\* Initially the list is empty and no interest is stored.
LEMMA InitIInv == Init /\ CallsitesAssumption => IInv
<1> SUFFICES ASSUME Init, CallsitesAssumption PROVE IInv
  BY Zenon
<1>1. TypeOK
  <2>1. /\ wants \in [Dispatches -> [Callsites -> Interest]]
        /\ hint \in [Dispatches -> Levels] /\ 0 \in Levels
    BY SMTT(30) DEF Init, CallsitesAssumption, Levels
  <2>2. QED
    BY Zenon, <2>1 DEF Init, TypeOK, Pcs, Modes
<1>2. LocalsOK /\ WriterExcludes
  BY Zenon DEF Init, CallsitesAssumption, LocalsOK, WriterExcludes
<1>3. ListOK
  BY SMTT(30) DEF Init, ListOK, Chain, Callsites
<1>4. PendingOK /\ WalkOK /\ LockedCacheJustified
  BY Zenon DEF Init, PendingOK, WalkOK, LockedCacheJustified
<1>5. QED
  BY <1>1, <1>2, <1>3, <1>4, Zenon DEF IInv

\* Setting and resetting defaults leaves the registry and its locks alone.
LEMMA DefaultsStep ==
  ASSUME CallsitesAssumption, IInv, NEW t \in Threads, NEW d \in Dispatches,
         SetDefault(t, d) \/ DropDefaultGuard(t) \/ SetGlobalDefault(t, d)
  PROVE  IInv'
<1>1. /\ UNCHANGED <<listVars, mutex, cacheVars, lockVars, live, wants, hint>>
      /\ UNCHANGED threadVars
  BY Zenon DEF SetDefault, DropDefaultGuard, SetGlobalDefault
<1>2. scoped' \in [Threads -> Dispatches \cup {None}]
  <2>1. scoped \in [Threads -> Dispatches \cup {None}]
    BY Zenon DEF IInv, TypeOK
  <2>2. \/ scoped' = scoped
        \/ scoped' = [scoped EXCEPT ![t] = d]
        \/ scoped' = [scoped EXCEPT ![t] = None]
    BY Zenon DEF SetDefault, DropDefaultGuard, SetGlobalDefault
  <2>3. QED
    BY Zenon, <2>1, <2>2
<1>3. global' \in Dispatches \cup {None}
  BY Zenon DEF SetDefault, DropDefaultGuard, SetGlobalDefault, IInv, TypeOK
<1> USE DEF IInv, listVars, cacheVars, lockVars, threadVars
<1>4. TypeOK'
  BY <1>1, <1>2, <1>3, Zenon DEF TypeOK
<1>5. LocalsOK' /\ WriterExcludes'
  BY <1>1, Zenon DEF LocalsOK, WriterExcludes
<1>6. ListOK'
  BY <1>1, Zenon DEF ListOK
<1>7. PendingOK'
  BY <1>1, Zenon DEF PendingOK, Justified
<1>8. WalkOK'
  BY <1>1, SMTT(30) DEF WalkOK, Ahead, Justified
<1>9. LockedCacheJustified'
  BY <1>1, Zenon DEF LockedCacheJustified, Justified, Active
<1>10. QED
  BY Zenon, <1>4, <1>5, <1>6, <1>7, <1>8, <1>9

\* A dropped subscriber only makes the claims of the cache weaker.
LEMMA DropDispatchStep ==
  ASSUME CallsitesAssumption, IInv, NEW d \in Dispatches, DropDispatch(d)
  PROVE  IInv'
<1> USE DEF IInv, DropDispatch, listVars, cacheVars, lockVars, threadVars
<1>1. TypeOK'
  BY Zenon DEF TypeOK
<1>2. LocalsOK' /\ WriterExcludes'
  BY Zenon DEF LocalsOK, WriterExcludes
<1>3. ListOK'
  BY Zenon DEF ListOK
<1>4. PendingOK'
  BY Zenon DEF PendingOK, Justified
<1>5. WalkOK'
  BY SMTT(30) DEF WalkOK, Ahead, Justified
<1>6. LockedCacheJustified'
  BY Zenon DEF LockedCacheJustified, Justified, Active
<1>7. QED
  BY Zenon, <1>1, <1>2, <1>3, <1>4, <1>5, <1>6

\* A step that changes nothing keeps the invariant.
LEMMA StutterStep == IInv /\ UNCHANGED vars => IInv'
<1> SUFFICES ASSUME IInv, UNCHANGED vars PROVE IInv'
  BY Zenon
<1> USE DEF IInv, vars, listVars, cacheVars, lockVars, subscriberVars, threadVars
<1>1. TypeOK'
  BY Zenon DEF TypeOK
<1>2. LocalsOK' /\ WriterExcludes'
  BY Zenon DEF LocalsOK, WriterExcludes
<1>3. ListOK'
  BY Zenon DEF ListOK
<1>4. PendingOK'
  BY Zenon DEF PendingOK, Justified
<1>5. WalkOK'
  BY SMTT(30) DEF WalkOK, Ahead, Justified
<1>6. LockedCacheJustified'
  BY Zenon DEF LockedCacheJustified, Justified, Active
<1>7. QED
  BY Zenon, <1>1, <1>2, <1>3, <1>4, <1>5, <1>6

\* register_default begins.
LEMMA RegisterStep ==
  ASSUME CallsitesAssumption, IInv, NEW t \in Threads, NEW c \in ListSites, Register(t, c)
  PROVE  IInv'
<1> USE CallsitesAssumption DEF CallsitesAssumption, IInv, Register, From, Goto,
       listVars, cacheVars, lockVars, subscriberVars, threadVars
<1>1. TypeOK'
  BY Zenon DEF TypeOK, LocalsOK, Pcs, Modes, Callsites
<1>2. LocalsOK' /\ WriterExcludes'
  BY SMTT(30) DEF TypeOK, LocalsOK, WriterExcludes, Callsites
<1>3. ListOK'
  BY SMTT(30) DEF TypeOK, LocalsOK, ListOK, Callsites
<1>4. PendingOK'
  BY SMTT(30) DEF TypeOK, LocalsOK, WriterExcludes, PendingOK, Justified, Callsites
<1>5. WalkOK'
  BY SMTT(30) DEF TypeOK, LocalsOK, WriterExcludes, ListOK, WalkOK, Ahead, Justified, Callsites
<1>6. LockedCacheJustified'
  BY SMTT(30) DEF TypeOK, LocalsOK, LockedCacheJustified, Justified, Active, Callsites
<1>7. QED
  BY Zenon, <1>1, <1>2, <1>3, <1>4, <1>5, <1>6

\* register pushes a callsite on LOCKED_CALLSITES.
LEMMA PushDynStep ==
  ASSUME CallsitesAssumption, IInv, NEW t \in Threads, NEW c \in DynSites, PushDyn(t, c)
  PROVE  IInv'
<1> USE CallsitesAssumption DEF CallsitesAssumption, IInv, PushDyn, From, Goto,
       listVars, cacheVars, lockVars, subscriberVars, threadVars
<1>1. TypeOK'
  BY SMTT(30) DEF TypeOK, LocalsOK, Pcs, Modes, Callsites
<1>2. LocalsOK' /\ WriterExcludes'
  BY SMTT(30) DEF TypeOK, LocalsOK, WriterExcludes, Callsites
<1>3. ListOK'
  BY SMTT(30) DEF TypeOK, LocalsOK, ListOK, Callsites
<1>4. PendingOK'
  BY SMTT(30) DEF TypeOK, LocalsOK, WriterExcludes, PendingOK, Justified, Callsites
<1>5. WalkOK'
  BY SMTT(30) DEF TypeOK, LocalsOK, WriterExcludes, ListOK, WalkOK, Ahead, Justified, Callsites
<1>6. LockedCacheJustified'
  BY SMTT(30) DEF TypeOK, LocalsOK, LockedCacheJustified, Justified, Active, Callsites
<1>7. QED
  BY Zenon, <1>1, <1>2, <1>3, <1>4, <1>5, <1>6

\* Dispatch::new calls register_dispatch.
LEMMA NewDispatchStep ==
  ASSUME CallsitesAssumption, IInv, NEW t \in Threads, NEW d \in Dispatches, NewDispatch(t, d)
  PROVE  IInv'
<1> USE CallsitesAssumption DEF CallsitesAssumption, IInv, NewDispatch, From, Goto,
       listVars, cacheVars, lockVars, subscriberVars, threadVars
<1>1. TypeOK'
  BY SMTT(30) DEF TypeOK, LocalsOK, Pcs, Modes, Callsites
<1>2. LocalsOK' /\ WriterExcludes'
  BY SMTT(30) DEF TypeOK, LocalsOK, WriterExcludes, Callsites
<1>3. ListOK'
  BY SMTT(30) DEF TypeOK, LocalsOK, ListOK, Callsites
<1>4. PendingOK'
  BY SMTT(30) DEF TypeOK, LocalsOK, WriterExcludes, PendingOK, Justified, Callsites
<1>5. WalkOK'
  BY SMTT(30) DEF TypeOK, LocalsOK, WriterExcludes, ListOK, WalkOK, Ahead, Justified, Callsites
<1>6. LockedCacheJustified'
  BY SMTT(30) DEF TypeOK, LocalsOK, LockedCacheJustified, Justified, Active, Callsites
<1>7. QED
  BY Zenon, <1>1, <1>2, <1>3, <1>4, <1>5, <1>6

\* rebuild_interest_cache begins.
LEMMA RebuildInterestCacheStep ==
  ASSUME CallsitesAssumption, IInv, NEW t \in Threads, RebuildInterestCache(t)
  PROVE  IInv'
<1> USE CallsitesAssumption DEF CallsitesAssumption, IInv, RebuildInterestCache, From, Goto,
       listVars, cacheVars, lockVars, subscriberVars, threadVars
<1>1. TypeOK'
  BY Zenon DEF TypeOK, LocalsOK, Pcs, Modes, Callsites
<1>2. LocalsOK' /\ WriterExcludes'
  BY SMTT(30) DEF TypeOK, LocalsOK, WriterExcludes, Callsites
<1>3. ListOK'
  BY SMTT(30) DEF TypeOK, LocalsOK, ListOK, Callsites
<1>4. PendingOK'
  BY SMTT(30) DEF TypeOK, LocalsOK, WriterExcludes, PendingOK, Justified, Callsites
<1>5. WalkOK'
  BY SMTT(30) DEF TypeOK, LocalsOK, WriterExcludes, ListOK, WalkOK, Ahead, Justified, Callsites
<1>6. LockedCacheJustified'
  BY SMTT(30) DEF TypeOK, LocalsOK, LockedCacheJustified, Justified, Active, Callsites
<1>7. QED
  BY Zenon, <1>1, <1>2, <1>3, <1>4, <1>5, <1>6

\* Dispatchers::rebuilder reads has_just_one.
LEMMA RebuilderStep ==
  ASSUME CallsitesAssumption, IInv, NEW t \in Threads, Rebuilder(t)
  PROVE  IInv'
<1> USE CallsitesAssumption DEF CallsitesAssumption, IInv, Rebuilder, From, Goto, AfterRebuilder,
       listVars, cacheVars, lockVars, subscriberVars, threadVars
<1>1. TypeOK'
  BY Zenon DEF TypeOK, LocalsOK, Pcs, Modes, Callsites
<1>2. LocalsOK' /\ WriterExcludes'
  BY SMTT(30) DEF TypeOK, LocalsOK, WriterExcludes, Callsites
<1>3. ListOK'
  BY SMTT(30) DEF TypeOK, LocalsOK, ListOK, Callsites
<1>4. PendingOK'
  BY SMTT(30) DEF TypeOK, LocalsOK, WriterExcludes, PendingOK, Justified, Callsites
<1>5. WalkOK'
  BY SMTT(30) DEF TypeOK, LocalsOK, WriterExcludes, ListOK, WalkOK, Ahead, Justified, Callsites
<1>6. LockedCacheJustified'
  BY SMTT(30) DEF TypeOK, LocalsOK, LockedCacheJustified, Justified, Active, Callsites
<1>7. QED
  BY Zenon, <1>1, <1>2, <1>3, <1>4, <1>5, <1>6

\* Dispatchers::rebuilder takes the lock.
LEMMA ReadLockStep ==
  ASSUME CallsitesAssumption, IInv, NEW t \in Threads, ReadLock(t)
  PROVE  IInv'
<1> USE CallsitesAssumption DEF CallsitesAssumption, IInv, ReadLock, From, Goto, AfterRebuilder,
       listVars, cacheVars, lockVars, subscriberVars, threadVars
<1>1. TypeOK'
  BY SMTT(30) DEF TypeOK, LocalsOK, Pcs, Modes, Callsites
<1>2. LocalsOK' /\ WriterExcludes'
  BY SMTT(30) DEF TypeOK, LocalsOK, WriterExcludes, Callsites
<1>3. ListOK'
  BY SMTT(30) DEF TypeOK, LocalsOK, ListOK, Callsites
<1>4. PendingOK'
  BY SMTT(30) DEF TypeOK, LocalsOK, WriterExcludes, PendingOK, Justified, Callsites
<1>5. WalkOK'
  BY SMTT(30) DEF TypeOK, LocalsOK, WriterExcludes, ListOK, WalkOK, Ahead, Justified, Callsites
<1>6. LockedCacheJustified'
  BY SMTT(30) DEF TypeOK, LocalsOK, LockedCacheJustified, Justified, Active, Callsites
<1>7. QED
  BY Zenon, <1>1, <1>2, <1>3, <1>4, <1>5, <1>6

\* Every step keeps the invariant.
LEMMA NextIInv == CallsitesAssumption /\ IInv /\ [Next]_vars => IInv'
<1> SUFFICES ASSUME CallsitesAssumption, IInv, [Next]_vars PROVE IInv'
  BY Zenon
<1>1. CASE UNCHANGED vars
  BY Zenon, <1>1, StutterStep
<1>2. ASSUME NEW t \in Threads, Step(t) PROVE IInv'
  BY Zenon, <1>2, LinkStep, CasHeadStep, RebuilderStep, ReadLockStep, ComputeMaxStep,
     LoadHeadStep, AskStep, StoreStep, LockedFlagStep, VisitDynStep, SetMaxStep,
     FinishStep DEF Step
<1>3. ASSUME NEW t \in Threads, NEW d \in Dispatches,
             NewDispatch(t, d) \/ SetDefault(t, d) \/ SetGlobalDefault(t, d)
      PROVE  IInv'
  BY Zenon, <1>3, NewDispatchStep, DefaultsStep
<1>4. ASSUME NEW t \in Threads, DropDefaultGuard(t) PROVE IInv'
  <2>1. scoped[t] \in Dispatches
    BY <1>4, Zenon DEF DropDefaultGuard, IInv, TypeOK
  <2>2. QED
    BY Zenon, <1>4, <2>1, DefaultsStep
<1>5. QED
  BY Zenon, <1>1, <1>2, <1>3, <1>4, RegisterStep, PushDynStep,
     RebuildInterestCacheStep, DropDispatchStep DEF Next

\* The types of Callsites hold in every reachable state.
THEOREM TypeCorrect == Spec => []TypeOK
<1>1. IInv => TypeOK
  BY Zenon DEF IInv
<1>2. QED
  BY <1>1, InitIInv, NextIInv, CallsitesAssumption, PTL DEF Spec

\* For any number of threads, callsites and dispatches: an interest cached by
\* a rebuild that held the dispatchers' lock (register_dispatch, or register
\* and rebuild_interest_cache once has_just_one is false) speaks for every
\* subscriber whose Dispatch::new has returned, and so does MAX_LEVEL.
THEOREM CacheCorrect == Spec => []LockedCacheJustified
<1>1. IInv => LockedCacheJustified
  BY Zenon DEF IInv
<1>2. QED
  BY <1>1, InitIInv, NextIInv, CallsitesAssumption, PTL DEF Spec

-----------------------------------------------------------------------------
(* The walk of the list                                                    *)

INSTANCE WellFoundedInduction

\* A callsite stays in the list once it has been pushed.
Linked ==
  /\ \A c \in ListSites : registration[c] = "REGISTERED" => rank[c] > 0
  /\ \A t \in Threads : op[t] = "register" /\ pc[t] = "finish" /\ site[t] \in ListSites
       => rank[site[t]] > 0

\* A step that leaves the list and the states of registration alone, and takes
\* no thread to the end of a registration.
LEMMA LinkedKept ==
  ASSUME Linked, UNCHANGED <<registration, rank>>,
         \A t \in Threads : op'[t] = "register" /\ pc'[t] = "finish" =>
           op[t] = "register" /\ pc[t] = "finish" /\ site'[t] = site[t]
  PROVE  Linked'
BY Zenon DEF Linked

\* Only the first compare_exchange of a registration and its end matter.
LEMMA LinkedStep ==
  ASSUME CallsitesAssumption, IInv, Linked, NEW t \in Threads, Step(t)
  PROVE  Linked'
<1>1. /\ pc \in [Threads -> Pcs] /\ op \in [Threads -> {"none", "register", "rebuild", "dispatch"}]
      /\ site \in [Threads -> Callsites \cup {None}] /\ rank \in [ListSites -> Nat]
      /\ registration \in [ListSites -> {"UNREGISTERED", "REGISTERING", "REGISTERED"}]
  BY Zenon DEF IInv, TypeOK
<1>2. CASE CasHead(t)
  <2>1. UNCHANGED <<registration, op, site>>
    BY <1>2, Zenon DEF CasHead
  <2>2. /\ site[t] \in ListSites /\ head \in ListSites \cup {None}
    BY <1>2, Zenon DEF CasHead, From, IInv, LocalsOK, TypeOK
  <2>3. \A c \in ListSites : rank[c] > 0 => rank'[c] > 0
    <3>1. CASE rank' = rank
      BY <3>1, Zenon
    <3>2. CASE rank' = [rank EXCEPT ![site[t]] = IF head = None THEN 1 ELSE rank[head] + 1]
      BY <1>1, <2>2, <3>2, SMT
    <3>3. QED
      BY <1>2, <3>1, <3>2, Zenon DEF CasHead
  <2>4. \A u \in Threads : pc'[u] = "finish" => pc[u] = "finish"
    BY <1>1, <1>2, Zenon DEF CasHead, Goto
  <2>5. QED
    BY <2>1, <2>3, <2>4, Zenon DEF Linked
<1>3. CASE Store(t)
  <2>1. UNCHANGED <<registration, rank, op>>
    BY <1>3, Zenon DEF Store, listVars
  <2>2. op[t] = "register" /\ site[t] \in ListSites => site'[t] = site[t] /\ rank[site[t]] > 0
    BY <1>3, Zenon DEF Store, From, IInv, ListOK
  <2>3. \A u \in Threads : u # t => pc'[u] = pc[u] /\ site'[u] = site[u]
    BY <1>1, <1>3, Zenon DEF Store, Goto, Visit
  <2>4. op[t] = "register" => site' = site
    BY <1>3, Zenon DEF Store
  <2>5. QED
    BY <2>1, <2>2, <2>3, <2>4, Zenon DEF Linked
<1>4. CASE Finish(t)
  <2>1. UNCHANGED rank /\ op' = [op EXCEPT ![t] = "none"]
    BY <1>4, Zenon DEF Finish
  <2>2. \A u \in Threads : u # t => pc'[u] = pc[u] /\ site'[u] = site[u] /\ op'[u] = op[u]
    BY <1>1, <1>4, Zenon DEF Finish, Goto
  <2>3. op'[t] # "register"
    BY <1>1, <2>1, Zenon
  <2>4. \A c \in ListSites : registration'[c] = "REGISTERED" => rank[c] > 0
    BY <1>1, <1>4, Zenon DEF Finish, From, Linked
  <2>5. QED
    BY <2>1, <2>2, <2>3, <2>4, Zenon DEF Linked
<1>5. CASE SetMax(t)
  <2>1. op[t] # "register"
    BY <1>5, Zenon DEF SetMax, From, IInv, LocalsOK
  <2>2. UNCHANGED <<registration, rank, op, site>>
    BY <1>5, Zenon DEF SetMax, listVars
  <2>3. \A u \in Threads : u # t => pc'[u] = pc[u]
    BY <1>1, <1>5, Zenon DEF SetMax, Goto
  <2>4. QED
    BY <2>1, <2>2, <2>3, LinkedKept, Zenon
<1>6. CASE ~(CasHead(t) \/ Store(t) \/ Finish(t) \/ SetMax(t))
  <2>1. UNCHANGED <<registration, rank, op>>
    BY <1>6, Zenon DEF Step, Link, Rebuilder, ReadLock, ComputeMax, LoadHead, Ask, LockedFlag,
       VisitDyn, listVars
  <2>2. \E p \in Pcs \ {"finish"} : pc' = [pc EXCEPT ![t] = p]
    BY <1>6, Zenon DEF Step, Link, Rebuilder, ReadLock, ComputeMax, LoadHead, Ask, LockedFlag,
       VisitDyn, Goto, Visit, AfterRebuilder, Pcs
  <2>3. \A u \in Threads : u # t => site'[u] = site[u]
    BY <1>1, <1>6, Zenon DEF Step, Link, Rebuilder, ReadLock, ComputeMax, LoadHead, Ask,
       LockedFlag, VisitDyn, Visit
  <2>4. \A u \in Threads : pc'[u] = "finish" => u # t /\ pc[u] = "finish"
    BY <1>1, <2>2, Zenon
  <2>5. QED
    BY <2>1, <2>3, <2>4, LinkedKept, Zenon
<1>7. QED
  BY <1>2, <1>3, <1>4, <1>5, <1>6, Zenon

\* Every step keeps what has been pushed in the list.
LEMMA LinkedNext == CallsitesAssumption /\ IInv /\ Linked /\ [Next]_vars => Linked'
<1> SUFFICES ASSUME CallsitesAssumption, IInv, Linked, [Next]_vars PROVE Linked'
  BY Zenon
<1>1. /\ pc \in [Threads -> Pcs] /\ op \in [Threads -> {"none", "register", "rebuild", "dispatch"}]
      /\ site \in [Threads -> Callsites \cup {None}]
      /\ registration \in [ListSites -> {"UNREGISTERED", "REGISTERING", "REGISTERED"}]
  BY Zenon DEF IInv, TypeOK
<1>2. CASE UNCHANGED <<registration, rank, op, pc, site>>
  BY <1>2, LinkedKept, Zenon
<1>3. ASSUME NEW t \in Threads, NEW c \in ListSites, Register(t, c) PROVE Linked'
  <2>1. rank' = rank /\ \A e \in ListSites : registration'[e] = "REGISTERED" =>
                                               registration[e] = "REGISTERED"
    BY <1>1, <1>3, Zenon DEF Register
  <2>2. \A u \in Threads : u # t => pc'[u] = pc[u] /\ site'[u] = site[u] /\ op'[u] = op[u]
    BY <1>1, <1>3, Zenon DEF Register, Goto
  <2>3. pc'[t] # "finish"
    BY <1>1, <1>3, Zenon DEF Register, Goto
  <2>4. QED
    BY <2>1, <2>2, <2>3, Zenon DEF Linked
<1>4. ASSUME NEW t \in Threads,
             \/ \E c \in DynSites : PushDyn(t, c)
             \/ \E d \in Dispatches : NewDispatch(t, d)
             \/ RebuildInterestCache(t)
      PROVE  Linked'
  <2>1. UNCHANGED <<registration, rank>>
    BY <1>4, Zenon DEF PushDyn, NewDispatch, RebuildInterestCache, listVars
  <2>2. \A u \in Threads : u # t => pc'[u] = pc[u] /\ site'[u] = site[u] /\ op'[u] = op[u]
    BY <1>1, <1>4, Zenon DEF PushDyn, NewDispatch, RebuildInterestCache, Goto
  <2>3. pc'[t] # "finish"
    BY <1>1, <1>4, Zenon DEF PushDyn, NewDispatch, RebuildInterestCache, Goto
  <2>4. QED
    BY <2>1, <2>2, <2>3, LinkedKept, Zenon
<1>5. ASSUME \/ \E t \in Threads : \/ \E d \in Dispatches : SetDefault(t, d) \/ SetGlobalDefault(t, d)
                                   \/ DropDefaultGuard(t)
             \/ \E d \in Dispatches : DropDispatch(d)
      PROVE  Linked'
  BY <1>2, <1>5, Zenon DEF SetDefault, SetGlobalDefault, DropDefaultGuard, DropDispatch,
     listVars, threadVars
<1>6. CASE UNCHANGED vars
  BY <1>2, <1>6, Zenon DEF vars, listVars, threadVars
<1>7. QED
  BY <1>3, <1>4, <1>5, <1>6, LinkedStep, Zenon DEF Next

\* A set of callsites that is not empty has one that is last in the list.
LEMMA LeastRank ==
  ASSUME NEW rk \in [ListSites -> Nat], NEW S \in SUBSET ListSites, S # {}
  PROVE  \E c \in S : \A e \in S : rk[c] <= rk[e]
<1> DEFINE T == {rk[c] : c \in S}
<1>1. T \subseteq Nat /\ T # {}
  BY Zenon
<1>2. IsWellFoundedOn(OpToRel(<, Nat), Nat)
  BY Zenon, NatLessThanWellFounded
<1> HIDE DEF T
<1>3. PICK n \in T : \A k \in T : ~(<<k, n>> \in OpToRel(<, Nat))
  BY <1>1, <1>2, WFMin, Zenon
<1>4. \A k \in T : ~(k < n)
  BY <1>1, <1>3, Zenon DEF OpToRel
<1>5. n \in Nat /\ \A k \in T : k \in Nat /\ n <= k
  BY <1>1, <1>4, SMT
<1>6. PICK c \in S : rk[c] = n
  BY <1>3, Zenon DEF T
<1>7. \A e \in S : rk[e] \in T
  BY Zenon DEF T
<1>8. QED
  BY <1>5, <1>6, <1>7, Zenon

\* A walk along `next` from the head meets every callsite of the list.
LEMMA ChainWalked ==
  ASSUME None \notin ListSites, NEW h \in ListSites \cup {None},
         NEW nx \in [ListSites -> ListSites \cup {None}],
         NEW rk \in [ListSites -> Nat], Chain(h, nx, rk),
         NEW S \in SUBSET ListSites, h # None => h \in S,
         \A e \in S : nx[e] # None => nx[e] \in S,
         NEW c \in ListSites, rk[c] > 0
  PROVE  c \in S
<1> DEFINE T == {e \in S : rk[c] <= rk[e]}
<1>1. h \in T
  BY SMT DEF Chain
<1>2. PICK e \in T : \A f \in T : rk[e] <= rk[f]
  <2>1. T \in SUBSET ListSites /\ T # {}
    BY <1>1, Zenon
  <2> HIDE DEF T
  <2>2. QED
    BY <2>1, LeastRank, Zenon
<1>3. CASE rk[e] = rk[c]
  BY <1>2, <1>3, SMT DEF Chain
<1>4. CASE rk[e] # rk[c]
  <2>1. e \in S /\ e \in ListSites /\ rk[e] > rk[c] /\ rk[e] > 1
    BY <1>2, <1>4, SMT
  <2>2. nx[e] \in ListSites /\ rk[nx[e]] = rk[e] - 1
    BY <2>1, SMT DEF Chain
  <2>3. nx[e] \in S
    BY <2>1, <2>2, Zenon
  <2>4. nx[e] \in T
    BY <2>1, <2>2, <2>3, SMT
  <2>5. QED
    BY <1>2, <2>1, <2>2, <2>4, SMT
<1>5. QED
  BY <1>3, <1>4, Zenon

\* It ends: the callsite of a set that is last in the list leads out of it.
LEMMA ChainEnds ==
  ASSUME None \notin ListSites, NEW h \in ListSites \cup {None},
         NEW nx \in [ListSites -> ListSites \cup {None}],
         NEW rk \in [ListSites -> Nat], Chain(h, nx, rk),
         NEW S \in SUBSET {c \in ListSites : rk[c] > 0}, S # {}
  PROVE  \E c \in S : nx[c] \notin S
<1>1. S \in SUBSET ListSites /\ \A c \in S : rk[c] > 0
  BY Zenon
<1>2. PICK c \in S : \A e \in S : rk[c] <= rk[e]
  BY <1>1, LeastRank, Zenon
<1>3. c \in ListSites /\ rk[c] > 0 /\ rk[c] \in Nat
  BY <1>1, <1>2, Zenon
<1>4. CASE rk[c] = 1
  <2>1. nx[c] = None
    BY <1>3, <1>4, SMT DEF Chain
  <2>2. QED
    BY <1>1, <1>2, <2>1, Zenon
<1>5. CASE rk[c] > 1
  <2>1. nx[c] \in ListSites /\ rk[nx[c]] < rk[c] /\ rk[nx[c]] \in Nat
    BY <1>3, <1>5, SMT DEF Chain
  <2>2. nx[c] \notin S
    BY <1>2, <1>3, <2>1, SMT
  <2>3. QED
    BY <1>2, <2>2, Zenon
<1>6. QED
  BY <1>3, <1>4, <1>5, SMT

\* For any number of threads and callsites, however the pushes of push_default
\* interleave: a walk of the lock-free list by for_each finds every callsite
\* whose push has returned, and ends.
THEOREM WalkComplete == Spec => []WalkFindsAll
<1>1. CallsitesAssumption /\ Init => Linked
  BY Zenon DEF Init, Linked
<1>2. CallsitesAssumption /\ IInv /\ Linked => WalkFindsAll
  <2> SUFFICES ASSUME CallsitesAssumption, IInv, Linked PROVE WalkFindsAll
    BY Zenon
  <2> DEFINE W == {c \in ListSites : rank[c] > 0}
  <2>1. /\ None \notin ListSites /\ head \in ListSites \cup {None}
        /\ next \in [ListSites -> ListSites \cup {None}] /\ rank \in [ListSites -> Nat]
        /\ Chain(head, next, rank)
    BY Zenon DEF CallsitesAssumption, Callsites, IInv, TypeOK, ListOK
  <2>2. ASSUME NEW c \in Pushed PROVE c \in ListSites /\ rank[c] > 0
    <3>1. CASE registration[c] = "REGISTERED"
      BY <2>2, <3>1, Zenon DEF Pushed, Linked
    <3>2. CASE \E t \in Threads : /\ op[t] = "register" /\ site[t] = c
                                  /\ pc[t] \notin {"link", "cas"}
      <4>1. PICK t \in Threads : /\ op[t] = "register" /\ site[t] = c /\ c \in ListSites
                                 /\ pc[t] \notin {"link", "cas"}
        BY <2>2, <3>2, Zenon DEF Pushed
      <4>2. pc[t] \in {"ask", "store", "rebuilder", "read_lock", "finish"}
        BY <4>1, Zenon DEF IInv, TypeOK, Pcs, LocalsOK
      <4>3. QED
        BY <4>1, <4>2, Zenon DEF IInv, ListOK, Linked
    <3>3. QED
      BY <2>2, <3>1, <3>2, Zenon DEF Pushed
  <2>3. ASSUME NEW S \in SUBSET ListSites, Walked(S) PROVE Pushed \subseteq S
    BY <2>1, <2>2, <2>3, ChainWalked, Zenon DEF Walked
  <2>4. Walked(W)
    <3>1. head # None => head \in W
      BY <2>1, SMT DEF Chain
    <3>2. ASSUME NEW c \in W, next[c] # None PROVE next[c] \in W
      BY <2>1, <3>2, SMT DEF Chain
    <3>3. QED
      BY <3>1, <3>2, Zenon DEF Walked
  <2>5. \A S \in SUBSET W : S # {} => \E c \in S : next[c] \notin S
    BY <2>1, ChainEnds, Zenon
  <2>6. W \in SUBSET ListSites
    BY Zenon
  <2> HIDE DEF W
  <2>7. QED
    BY <2>3, <2>4, <2>5, <2>6, Zenon DEF WalkFindsAll
<1>3. QED
  BY <1>1, <1>2, InitIInv, NextIInv, LinkedNext, CallsitesAssumption, PTL DEF Spec
=============================================================================
