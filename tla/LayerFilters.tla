----------------------------- MODULE LayerFilters -----------------------------
(***************************************************************************)
(* Per-layer filters (tracing-subscriber/src/filter/layer_filters) and the *)
(* composition of layers (tracing-subscriber/src/layer).                   *)
(*                                                                         *)
(* A subscriber is a sequence of layers on a Registry, the first innermost;*)
(* a layer is a record:                                                    *)
(*   "layer"     a layer that observes; its interest may filter globally   *)
(*   "none"      Option::None                                              *)
(*   "filtered"  Filtered: a Filter and the layer it guards                *)
(*   "layered"   Layered, from and_then: `layer` is composed onto `inner`  *)
(*   "vec"       Vec of layers                                             *)
(* A filter, and a layer that filters, has for each level an interest and  *)
(* is asked each time where that is "sometimes".  One thread emits spans   *)
(* and events, one callsite for each level.                                *)
(***************************************************************************)
EXTENDS Integers, Sequences, FiniteSets, SequencesExt

CONSTANTS Stacks,    \* subscribers
          Verbosity, \* levels are 1 .. Verbosity; 0 is LevelFilter::OFF
          MaxSpans   \* bound on spans

ASSUME LayerAssumption == Verbosity \in Nat /\ MaxSpans \in Nat

Levels == 1 .. Verbosity
NoHint == -1        \* None, which Ord puts below every Some
NoInterest == "none"
FilterBits == 64    \* of the u64 in a FilterMap

VARIABLES
  stack,    \* the subscriber
  map,      \* FilterState::enabled: the filters whose bit is set
  pending,  \* FilterState::interest
  cached,   \* for each level the Interest its callsite has cached, or "new"
  spans,    \* the spans: filter_map, parent, and, as history, who was told
  entered,  \* what the SpanStack shows, the current span first
  last      \* history: who should and who did see the last span or event

vars == <<stack, map, pending, cached, spans, entered, last>>

-----------------------------------------------------------------------------
(* FilterMap, FilterState and FilterId                                     *)

\* FilterMap::set.
SetBit(bits, id, enabled) == IF enabled THEN bits \ {id} ELSE bits \cup {id}

\* FilterMap::is_enabled, for the mask of several filters.
IsEnabled(bits, mask) == bits \cap mask = {}

\* FilterState::event_enabled.
AnyEnabled(bits) == Cardinality(bits) # FilterBits

\* FilterState::add_interest.
AddInterest(curr, interest) ==
  IF curr = NoInterest THEN interest
  ELSE IF curr \in {"always", "never"} /\ interest # curr THEN "sometimes"
  ELSE curr

-----------------------------------------------------------------------------
(* What a layer is, as far as downcasting tells                            *)

RECURSIVE HasPlf(_), IsNone(_), Leaves(_), Filters(_)

\* layer_has_plf: the marker is found in a Layered or a Vec if all parts have it.
HasPlf(l) ==
  CASE l.kind \in {"none", "layer"} -> FALSE
    [] l.kind = "filtered" -> TRUE
    [] l.kind = "layered"  -> HasPlf(l.layer) /\ HasPlf(l.inner)
    [] l.kind = "vec"      -> /\ l.layers # <<>>
                              /\ \A i \in DOMAIN l.layers : HasPlf(l.layers[i])

\* layer_is_none: this marker is found if one part has it.
IsNone(l) ==
  CASE l.kind = "none"     -> TRUE
    [] l.kind = "layer"    -> FALSE
    [] l.kind = "filtered" -> IsNone(l.layer)
    [] l.kind = "layered"  -> IsNone(l.layer) \/ IsNone(l.inner)
    [] l.kind = "vec"      -> \E i \in DOMAIN l.layers : IsNone(l.layers[i])

\* The observing layers of l, each with the filters that guard it, outermost first.
Leaves(l) ==
  CASE l.kind = "none"     -> {}
    [] l.kind = "layer"    -> {[layer |-> l, guards |-> <<>>]}
    [] l.kind = "filtered" ->
         {[x EXCEPT !.guards = <<l>> \o @] : x \in Leaves(l.layer)}
    [] l.kind = "layered"  -> Leaves(l.layer) \cup Leaves(l.inner)
    [] l.kind = "vec"      -> UNION {Leaves(l.layers[i]) : i \in DOMAIN l.layers}

Filters(l) ==
  CASE l.kind \in {"none", "layer"} -> {}
    [] l.kind = "filtered" -> {l} \cup Filters(l.layer)
    [] l.kind = "layered"  -> Filters(l.layer) \cup Filters(l.inner)
    [] l.kind = "vec"      -> UNION {Filters(l.layers[i]) : i \in DOMAIN l.layers}

AllLeaves == UNION {Leaves(stack[k]) : k \in DOMAIN stack}
AllFilters == UNION {Filters(stack[k]) : k \in DOMAIN stack}

\* Registry::has_per_layer_filters.
HasPerLayerFilters == AllFilters # {}

\* subscriber_has_plf of the layers below the k-th.
BelowHasPlf(k) == \E j \in 1 .. k - 1 : HasPlf(stack[j])

-----------------------------------------------------------------------------
(* register_callsite: results have the interest and FilterState::interest  *)

\* Mutant: never of the layers below is final although they have filters.
PickInterestNever(outer, inner, plf, innerPlf) ==
  IF plf THEN inner
  ELSE IF outer.int = "never" THEN [int |-> "never", acc |-> NoInterest]
  ELSE IF outer.int = "sometimes" THEN [inner EXCEPT !.int = "sometimes"]
  ELSE inner

\* Layered::pick_interest; `inner` is what the closure does and returns.
PickInterest(outer, inner, plf, innerPlf) ==
  IF plf THEN inner
  ELSE IF outer.int = "never" THEN [int |-> "never", acc |-> NoInterest]
  ELSE IF outer.int = "sometimes" \/ (inner.int = "never" /\ innerPlf)
       THEN [inner EXCEPT !.int = "sometimes"]
  ELSE inner

RECURSIVE Register(_, _, _, _)

\* Filtered::register_callsite, which hides the interest of the layer inside.
RegisterFiltered(l, m, acc, reg) ==
  LET inside == IF l.interest[m] = "never" THEN acc
                ELSE Register(l.layer, m, acc, reg).acc
  IN  [int |-> "always", acc |-> AddInterest(inside, l.interest[m])]

\* Layer::register_callsite of a Layered.  S is Registry where reg is true.
RegisterLayered(l, m, acc, reg) ==
  LET outer == Register(l.layer, m, acc, reg)
  IN  PickInterest(outer, Register(l.inner, m, outer.acc, reg),
                   HasPlf(l.layer), HasPlf(l.inner) \/ reg)

\* Layer::register_callsite of a Vec: the highest interest.
RegisterVec(l, m, acc, reg) ==
  LET Rank(i) == CASE i = "never" -> 0 [] i = "sometimes" -> 1 [] OTHER -> 2
      Visit(r, x) == LET n == Register(x, m, r.acc, reg)
                     IN  IF Rank(n.int) > Rank(r.int) THEN n
                         ELSE [r EXCEPT !.acc = n.acc]
  IN  FoldLeft(Visit, [int |-> "never", acc |-> acc], l.layers)

Register(l, m, acc, reg) ==
  CASE l.kind = "none"     -> [int |-> "always", acc |-> acc]
    [] l.kind = "layer"    -> [int |-> l.interest[m], acc |-> acc]
    [] l.kind = "filtered" -> RegisterFiltered(l, m, acc, reg)
    [] l.kind = "layered"  -> RegisterLayered(l, m, acc, reg)
    [] l.kind = "vec"      -> RegisterVec(l, m, acc, reg)

\* Registry::register_callsite and FilterState::take_interest.
RegisterRegistry(acc) ==
  IF ~HasPerLayerFilters THEN [int |-> "always", acc |-> acc]
  ELSE [int |-> IF acc = NoInterest THEN "always" ELSE acc, acc |-> NoInterest]

RECURSIVE RegisterCallsite(_, _, _)

\* Subscriber::register_callsite of the k innermost layers.
RegisterCallsite(k, m, acc) ==
  IF k = 0 THEN RegisterRegistry(acc)
  ELSE LET outer == Register(stack[k], m, acc, k = 1)
       IN  PickInterest(outer, RegisterCallsite(k - 1, m, outer.acc),
                        HasPlf(stack[k]), BelowHasPlf(k) \/ k = 1)

-----------------------------------------------------------------------------
(* max_level_hint                                                          *)

HigherOf(a, b) == IF a > b THEN a ELSE b

\* Mutant: per-layer filters are not told from global ones.
PickLevelHintGlobal(layer, outer, inner, innerNone, innerPlf, reg) ==
  IF reg THEN outer
  ELSE IF IsNone(layer) THEN IF inner = NoHint THEN NoHint ELSE HigherOf(outer, inner)
  ELSE IF innerNone /\ inner = 0 THEN outer
  ELSE HigherOf(outer, inner)

\* Layered::pick_level_hint; reg is inner_is_registry.
PickLevelHint(layer, outer, inner, innerNone, innerPlf, reg) ==
  IF reg THEN outer
  ELSE IF \/ HasPlf(layer) /\ innerPlf /\ NoHint \in {outer, inner}
          \/ HasPlf(layer) /\ inner = NoHint
          \/ innerPlf /\ outer = NoHint
          \/ IsNone(layer) /\ inner = NoHint
       THEN NoHint
  ELSE IF ~(HasPlf(layer) /\ innerPlf) /\ ~IsNone(layer) /\ innerNone /\ inner = 0
       THEN outer
  ELSE HigherOf(outer, inner)

RECURSIVE Hint(_, _)

\* Layer::max_level_hint.
Hint(l, reg) ==
  CASE l.kind = "none" -> 0
    [] l.kind \in {"layer", "filtered"} -> l.hint
    [] l.kind = "layered" ->
         PickLevelHint(l.layer, Hint(l.layer, reg), Hint(l.inner, reg),
                       IsNone(l.inner), HasPlf(l.inner) \/ reg, reg)
    [] l.kind = "vec" ->
         LET Visit(r, x) == IF NoHint \in {r, Hint(x, reg)} THEN NoHint
                            ELSE HigherOf(Hint(x, reg), r)
         IN  FoldLeft(Visit, 0, l.layers)

RECURSIVE MaxLevelHint(_)

\* Subscriber::max_level_hint of the k innermost layers.
MaxLevelHint(k) ==
  IF k = 0 THEN NoHint
  ELSE PickLevelHint(stack[k], Hint(stack[k], k = 1), MaxLevelHint(k - 1),
                     \E j \in 1 .. k - 1 : IsNone(stack[j]),
                     BelowHasPlf(k) \/ k = 1, k = 1)

\* LevelFilter::current, with this subscriber only.
CurrentLevel == LET h == MaxLevelHint(Len(stack))
                IN  IF h = NoHint THEN Verbosity ELSE h

-----------------------------------------------------------------------------
(* enabled and event_enabled: results have the answer and FilterState.     *)
(* `yes` are the filters that say yes where their interest is "sometimes", *)
(* `veto` those whose event_enabled says no.                               *)

Opinion(l, m, yes) ==
  l.interest[m] = "always" \/ (l.interest[m] = "sometimes" /\ l.name \in yes)

RECURSIVE Enabled(_, _, _, _), EventEnabled(_, _, _)

\* Filtered::enabled: yes, so that other layers are asked too.
EnabledFiltered(l, m, yes, bits) ==
  LET enabled == Opinion(l, m, yes)
      set == SetBit(bits, l.name, enabled)
  IN  IF enabled THEN Enabled(l.layer, m, yes, set) ELSE [ok |-> TRUE, bits |-> set]

\* Layer::enabled of a Layered.
EnabledLayered(l, m, yes, bits) ==
  LET outer == Enabled(l.layer, m, yes, bits)
  IN  IF outer.ok THEN Enabled(l.inner, m, yes, outer.bits) ELSE outer

\* Layer::enabled of a Vec.
EnabledVec(l, m, yes, bits) ==
  FoldLeft(LAMBDA r, x : IF r.ok THEN Enabled(x, m, yes, r.bits) ELSE r,
           [ok |-> TRUE, bits |-> bits], l.layers)

Enabled(l, m, yes, bits) ==
  CASE l.kind = "none"     -> [ok |-> TRUE, bits |-> bits]
    [] l.kind = "layer"    -> [ok |-> Opinion(l, m, yes), bits |-> bits]
    [] l.kind = "filtered" -> EnabledFiltered(l, m, yes, bits)
    [] l.kind = "layered"  -> EnabledLayered(l, m, yes, bits)
    [] l.kind = "vec"      -> EnabledVec(l, m, yes, bits)

\* Subscriber::enabled of Layered, down to Registry::enabled.
SubscriberEnabled(m, yes, bits) ==
  LET Visit(l, r) == IF r.ok THEN Enabled(l, m, yes, r.bits) ELSE r
      asked == FoldRight(Visit, stack, [ok |-> TRUE, bits |-> bits])
  IN  IF asked.ok
      THEN [asked EXCEPT !.ok = HasPerLayerFilters => AnyEnabled(asked.bits)]
      ELSE [ok |-> FALSE, bits |-> {}]

\* Filtered::event_enabled and FilterState::and.
EventEnabledFiltered(l, veto, bits) ==
  LET enabled == IsEnabled(bits, {l.name}) /\ l.name \notin veto
      set == SetBit(bits, l.name, enabled)
  IN  IF enabled THEN EventEnabled(l.layer, veto, set) ELSE [ok |-> TRUE, bits |-> set]

EventEnabled(l, veto, bits) ==
  LET Visit(r, x) == IF r.ok THEN EventEnabled(x, veto, r.bits) ELSE r
      start == [ok |-> TRUE, bits |-> bits]
  IN  CASE l.kind = "none"     -> start
        [] l.kind = "layer"    -> [start EXCEPT !.ok = l.name \notin veto]
        [] l.kind = "filtered" -> EventEnabledFiltered(l, veto, bits)
        [] l.kind = "layered"  -> Visit(Visit(start, l.layer), l.inner)
        [] l.kind = "vec"      -> FoldLeft(Visit, start, l.layers)

\* Subscriber::event_enabled of Layered, down to Registry::event_enabled.
SubscriberEventEnabled(veto, bits) ==
  LET Visit(l, r) == IF r.ok THEN EventEnabled(l, veto, r.bits) ELSE r
      asked == FoldRight(Visit, stack, [ok |-> TRUE, bits |-> bits])
  IN  [asked EXCEPT !.ok = @ /\ (HasPerLayerFilters => AnyEnabled(asked.bits))]

-----------------------------------------------------------------------------
(* The callbacks: on_event and on_new_span consume FilterState, the others *)
(* look at the filter_map that the Registry kept for the span              *)

RECURSIVE Notify(_, _), OnSpan(_, _, _)

\* FilterState::did_enable.
DidEnable(l, bits) ==
  IF IsEnabled(bits, {l.name}) THEN Notify(l.layer, bits)
  ELSE [got |-> {}, bits |-> SetBit(bits, l.name, TRUE)]

\* on_event and on_new_span of a layer.
Notify(l, bits) ==
  LET start == [got |-> {}, bits |-> bits]
      Visit(r, x) == LET n == Notify(x, r.bits)
                     IN  [n EXCEPT !.got = @ \cup r.got]
  IN  CASE l.kind = "none"     -> start
        [] l.kind = "layer"    -> [start EXCEPT !.got = {l.name}]
        [] l.kind = "filtered" -> DidEnable(l, bits)
        [] l.kind = "layered"  -> Visit(Visit(start, l.inner), l.layer)
        [] l.kind = "vec"      -> FoldLeft(Visit, start, l.layers)

\* Subscriber::event and ::new_span of Layered, after the Registry's.
NotifyAll(bits) ==
  LET Visit(r, l) == LET n == Notify(l, r.bits) IN [n EXCEPT !.got = @ \cup r.got]
  IN  FoldLeft(Visit, [got |-> {}, bits |-> bits], stack)

\* Mutant: the innermost filter replaces the others.
WithFilterLast(mask, id) == {id}

\* Context::with_filter and FilterId::and.
WithFilter(mask, id) == mask \cup {id}

\* on_record, on_enter, on_exit, on_close and so on: the layers called back
\* about a span with filter_map fmap; mask is the filter of the Context.
OnSpan(l, fmap, mask) ==
  CASE l.kind = "none"     -> {}
    [] l.kind = "layer"    -> {l.name}
    [] l.kind = "filtered" ->
         IF IsEnabled(fmap, mask) /\ IsEnabled(fmap, {l.name})
         THEN OnSpan(l.layer, fmap, WithFilter(mask, l.name)) ELSE {}
    [] l.kind = "layered"  -> OnSpan(l.inner, fmap, mask) \cup OnSpan(l.layer, fmap, mask)
    [] l.kind = "vec"      ->
         UNION {OnSpan(l.layers[i], fmap, mask) : i \in DOMAIN l.layers}

CalledBack(s) == UNION {OnSpan(stack[k], spans[s].fmap, {}) : k \in DOMAIN stack}

-----------------------------------------------------------------------------
(* Context: what a layer sees of the spans                                 *)

\* The filter of the Context that the layer x gets.
FilterOf(x) == FoldLeft(LAMBDA mask, f : WithFilter(mask, f.name), {}, x.guards)

\* SpanRef::try_with_filter, as used by Context::span.
Visible(x, s) == IsEnabled(spans[s].fmap, FilterOf(x))

RECURSIVE Scope(_, _)

\* Scope::next and SpanRef::parent: disabled spans are skipped.
Scope(x, s) ==
  IF s = 0 THEN <<>>
  ELSE (IF Visible(x, s) THEN <<s>> ELSE <<>>) \o Scope(x, spans[s].parent)

\* Context::lookup_current and lookup_current_filtered; 0 for None.
LookupCurrent(x) ==
  IF entered = <<>> THEN 0
  ELSE IF Visible(x, entered[1]) THEN entered[1]
  ELSE LET seen == SelectSeq(entered, LAMBDA s : Visible(x, s))
       IN  IF seen = <<>> THEN 0 ELSE Head(seen)

-----------------------------------------------------------------------------
(* The reference: layers whose guards all enable m see it, unless a layer  *)
(* that is asked filters it out for everyone                               *)

Wanted(m, yes, veto) ==
  LET Says(f) == Opinion(f, m, yes) /\ f.name \notin veto
      asked == {x \in AllLeaves : \A i \in DOMAIN x.guards : Says(x.guards[i])}
  IN  IF \A x \in asked : Says(x.layer) THEN {x.layer.name : x \in asked} ELSE {}

Asked == AllFilters \cup {x.layer : x \in AllLeaves}
Choosers(m) == {f.name : f \in {f \in Asked : f.interest[m] = "sometimes"}}
Vetoers == {f.name : f \in {f \in Asked : f.vetoes}}

-----------------------------------------------------------------------------
Init ==
  /\ stack \in Stacks
  /\ map = {} /\ pending = NoInterest
  /\ cached = [m \in Levels |-> "new"]
  /\ spans = <<>> /\ entered = <<>>
  /\ last = [want |-> {}, got |-> {}]

\* DefaultCallsite::interest, the first time the callsite is reached.
FirstUse(m) ==
  /\ m <= CurrentLevel /\ cached[m] = "new"
  /\ LET r == RegisterCallsite(Len(stack), m, pending)
     IN  cached' = [cached EXCEPT ![m] = r.int] /\ pending' = r.acc
  /\ UNCHANGED <<stack, map, spans, entered, last>>

\* The test that span!, event! and enabled! begin with, and __is_enabled.
MacroEnabled(m, yes) ==
  IF m > CurrentLevel \/ cached[m] = "never" THEN [ok |-> FALSE, bits |-> map]
  ELSE IF cached[m] = "always" THEN [ok |-> TRUE, bits |-> map]
  ELSE SubscriberEnabled(m, yes, map)

Registered(m) == m > CurrentLevel \/ cached[m] # "new"

\* event! and Dispatch::event.
Event(m) == \E yes \in SUBSET Choosers(m), veto \in SUBSET Vetoers :
  LET first == MacroEnabled(m, yes)
      second == IF first.ok THEN SubscriberEventEnabled(veto, first.bits) ELSE first
      told == IF second.ok THEN NotifyAll(second.bits)
              ELSE [got |-> {}, bits |-> second.bits]
  IN  /\ Registered(m)
      /\ map' = told.bits
      /\ last' = [want |-> Wanted(m, yes, veto), got |-> told.got]
      /\ UNCHANGED <<stack, pending, cached, spans, entered>>

\* span!, and Registry::new_span, which keeps FilterState in the span.
NewSpan(m, parent) == \E yes \in SUBSET Choosers(m) :
  LET first == MacroEnabled(m, yes)
      told == IF first.ok THEN NotifyAll(first.bits)
              ELSE [got |-> {}, bits |-> first.bits]
  IN  /\ Registered(m) /\ Len(spans) < MaxSpans
      /\ spans' = IF first.ok
                  THEN Append(spans, [fmap |-> first.bits, parent |-> parent,
                                      told |-> told.got])
                  ELSE spans
      /\ map' = told.bits
      /\ last' = [want |-> Wanted(m, yes, {}), got |-> told.got]
      /\ UNCHANGED <<stack, pending, cached, entered>>

\* enabled!, which asks, asks again and emits nothing.
Probe(m) == \E yes \in SUBSET Choosers(m), again \in SUBSET Choosers(m) :
  LET first == MacroEnabled(m, yes)
  IN  /\ Registered(m)
      /\ map' = IF first.ok THEN SubscriberEnabled(m, again, first.bits).bits
                ELSE first.bits
      /\ last' = [want |-> {}, got |-> {}]
      /\ UNCHANGED <<stack, pending, cached, spans, entered>>

Enter(s) ==
  /\ s \notin ToSet(entered)
  /\ entered' = <<s>> \o entered
  /\ UNCHANGED <<stack, map, pending, cached, spans, last>>

Exit(s) ==
  /\ s \in ToSet(entered)
  /\ entered' = SelectSeq(entered, LAMBDA x : x # s)
  /\ UNCHANGED <<stack, map, pending, cached, spans, last>>

Next ==
  \/ \E m \in Levels : FirstUse(m) \/ Event(m)
  \/ \E m \in Levels, parent \in 0 .. Len(spans) : NewSpan(m, parent)
  \/ \E s \in DOMAIN spans : Enter(s) \/ Exit(s)

Spec == Init /\ [][Next]_vars

\* The same for a program that also uses enabled!.
ProbeSpec == Init /\ [][Next \/ \E m \in Levels : Probe(m)]_vars

-----------------------------------------------------------------------------
Interests == {"never", "sometimes", "always"}
Names == {x.layer.name : x \in AllLeaves}
Ids == {f.name : f \in AllFilters}

\* The types of the variables.
TypeOK ==
  /\ stack \in Stacks /\ map \subseteq Ids
  /\ pending \in Interests \cup {NoInterest}
  /\ cached \in [Levels -> Interests \cup {"new"}]
  /\ \A s \in DOMAIN spans : /\ spans[s].fmap \subseteq Ids
                             /\ spans[s].parent \in 0 .. s - 1
                             /\ spans[s].told \subseteq Names
  /\ ToSet(entered) \subseteq DOMAIN spans
  /\ last.want \subseteq Names /\ last.got \subseteq Names

\* "The Filter will control which spans and events are enabled for this layer"
\* (with_filter): a span or event reaches exactly the layers all of whose
\* filters enable it, whatever the interests that were combined and cached, the
\* filters that earlier spans and events have left behind, and the level hint.
ExactDelivery == last.got = last.want

\* "Once a span or event has been skipped by a per-layer filter, it unsets its
\* bit, so that the FilterMap has been cleared for the next set of enabled
\* calls" (FilterState): between spans and events no bit and no interest stay.
StateCleared == map = {} /\ pending = NoInterest

\* "avoid showing it to the wrapped layer if it was disabled" (FilterState): a
\* layer gets the later callbacks of a span, finds it with its Context, and
\* meets it in scopes and as the current span if and only if it was told of it.
SpanView ==
  \A x \in AllLeaves :
    LET Told(s) == x.layer.name \in spans[s].told
        toldEntered == SelectSeq(entered, Told)
    IN  /\ LookupCurrent(x) = IF toldEntered = <<>> THEN 0 ELSE Head(toldEntered)
        /\ \A s \in DOMAIN spans :
             LET scope == Scope(x, s)
             IN  /\ x.layer.name \in CalledBack(s) <=> Told(s)
                 /\ Visible(x, s) <=> Told(s)
                 /\ \A i \in DOMAIN scope : Told(scope[i])
                 /\ Told(s) => scope # <<>> /\ Head(scope) = s

\* What the filters keep in mind is right: of a thread between two spans or events
\* nothing (FilterState), of a span which layers were told of it (FilterMap).
FilterMemory == TypeOK /\ StateCleared /\ SpanView

\* "the highest verbosity level that this Subscriber will enable"
\* (max_level_hint): whatever some layer wants to see is within the hint.
HintCovers ==
  \A m \in Levels : \A yes \in SUBSET Choosers(m) :
    Wanted(m, yes, {}) # {} => m <= CurrentLevel
==============================================================================
