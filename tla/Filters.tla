------------------------------- MODULE Filters -------------------------------
(***************************************************************************)
(* The filters of tracing-subscriber that keep no state, the combinators   *)
(* over them (filter/layer_filters/combinator.rs) and the layers that are  *)
(* made of other layers (layer/mod.rs).                                    *)
(*                                                                         *)
(* A filter, or a layer as a filter of everything, is the answers of its   *)
(* four questions: enabled and event_enabled for metadata in a context,    *)
(* callsite_enabled (register_callsite) for metadata, and max_level_hint.  *)
(* The values of the event that event_enabled looks at are part of the     *)
(* context.  A program constructs filters and combines those it has.       *)
(***************************************************************************)
EXTENDS Integers, Sequences

CONSTANTS Metas,     \* metadata: records with a level
          Contexts,
          NoContext, \* Context::none()
          NoCallback,
          Given      \* the answers that functions of the program give

Levels == 1 .. 5  \* ERROR .. TRACE
Off == 0
NoHint == -1      \* None, which is less than every Some
Hints == NoHint .. 5

Interests == {"never", "sometimes", "always"}
Answers == [Metas -> [Contexts -> BOOLEAN]]

ASSUME FiltersAssumption ==
  /\ NoContext \in Contexts /\ Given \subseteq Answers
  /\ \A m \in Metas : m.level \in Levels

VARIABLE built  \* the filters the program has

FilterType == [enabled : Answers, interest : [Metas -> Interests], hint : Hints,
               eventEnabled : Answers]

Always == [m \in Metas |-> [c \in Contexts |-> TRUE]]

BelowHint(m, hint) == hint = NoHint \/ m.level <= hint

AlwaysOrNever(yes) == IF yes THEN "always" ELSE "never"

-----------------------------------------------------------------------------
(* Filters                                                                 *)

\* A filter of the program's own, with the methods trait Filter has for it.
FilterDefaults(enabled, eventEnabled) ==
  [enabled |-> enabled, interest |-> [m \in Metas |-> "sometimes"],
   hint |-> NoHint, eventEnabled |-> eventEnabled]

\* A layer of the program's own, with the methods trait Layer has for it:
\* register_callsite asks enabled with no context.
LayerDefaults(enabled) ==
  [enabled |-> enabled,
   interest |-> [m \in Metas |-> AlwaysOrNever(enabled[m][NoContext])],
   hint |-> NoHint, eventEnabled |-> Always]

LevelFilter(level) ==
  [enabled |-> [m \in Metas |-> [c \in Contexts |-> m.level <= level]],
   interest |-> [m \in Metas |-> AlwaysOrNever(m.level <= level)],
   hint |-> level, eventEnabled |-> Always]

\* filter_fn and with_max_level_hint; f is a function of the metadata.
FilterFn(f, hint) ==
  [enabled |-> [m \in Metas |-> [c \in Contexts |-> f[m]]],
   interest |-> [m \in Metas |-> AlwaysOrNever(f[m])],
   hint |-> hint, eventEnabled |-> Always]

\* The debug assertions of is_enabled and is_callsite_enabled.
FilterFnAsserts(f, hint) == \A m \in Metas : f[m] => BelowHint(m, hint)

\* DynFilterFn::default_callsite_enabled.
DefaultCallsite(m, hint) == IF BelowHint(m, hint) THEN "sometimes" ELSE "never"

\* dynamic_filter_fn, with_max_level_hint and with_callsite_filter.
DynFilterFn(f, callback, hint) ==
  [enabled |-> f,
   interest |-> [m \in Metas |-> IF callback # NoCallback THEN callback[m]
                                 ELSE DefaultCallsite(m, hint)],
   hint |-> hint, eventEnabled |-> Always]

\* The debug assertions of is_enabled and is_callsite_enabled.
DynFilterFnAsserts(f, callback, hint) ==
  \A m \in Metas :
    /\ \A c \in Contexts : f[m][c] => BelowHint(m, hint)
    /\ callback # NoCallback => callback[m] = "never" \/ BelowHint(m, hint)

-----------------------------------------------------------------------------
(* Combinators                                                             *)

AndInterest(a, b) == IF a = "never" THEN a ELSE IF b # "always" THEN b ELSE a

\* cmp::min, for which None is less than every Some.
And(a, b) ==
  [enabled |-> [m \in Metas |-> [c \in Contexts |-> a.enabled[m][c] /\ b.enabled[m][c]]],
   interest |-> [m \in Metas |-> AndInterest(a.interest[m], b.interest[m])],
   hint |-> IF a.hint <= b.hint THEN a.hint ELSE b.hint,
   eventEnabled |->
     [m \in Metas |-> [c \in Contexts |-> a.eventEnabled[m][c] /\ b.eventEnabled[m][c]]]]

OrInterest(a, b) ==
  IF "always" \in {a, b} THEN "always"
  ELSE IF "sometimes" \in {a, b} THEN "sometimes" ELSE "never"

\* Mutant: the hint of one filter stands in for the other's None.
OrHintOfOne(a, b) == IF a >= b THEN a ELSE b

\* The ? of each hint.
OrHint(a, b) ==
  IF NoHint \in {a, b} THEN NoHint ELSE IF a >= b THEN a ELSE b

Or(a, b) ==
  [enabled |-> [m \in Metas |-> [c \in Contexts |-> a.enabled[m][c] \/ b.enabled[m][c]]],
   interest |-> [m \in Metas |-> OrInterest(a.interest[m], b.interest[m])],
   hint |-> OrHint(a.hint, b.hint),
   eventEnabled |->
     [m \in Metas |-> [c \in Contexts |-> a.eventEnabled[m][c] \/ b.eventEnabled[m][c]]]]

\* event_enabled is not inverted: a filter without one answers true.
Not(a) ==
  [enabled |-> [m \in Metas |-> [c \in Contexts |-> ~a.enabled[m][c]]],
   interest |-> [m \in Metas |-> IF a.interest[m] = "always" THEN "never"
                                 ELSE IF a.interest[m] = "never" THEN "always"
                                 ELSE "sometimes"],
   hint |-> NoHint, eventEnabled |-> Always]

\* Filter for Option's None: "None => allow".
NoFilter ==
  [enabled |-> Always, interest |-> [m \in Metas |-> "always"],
   hint |-> NoHint, eventEnabled |-> Always]

\* Layer for Vec, of two: the highest interest, and whether all enable.
VecLayer(a, b) ==
  [And(a, b) EXCEPT
     !.interest = [m \in Metas |-> OrInterest(a.interest[m], b.interest[m])],
     !.hint = OrHint(a.hint, b.hint)]

-----------------------------------------------------------------------------
(* The contract of a filter: what is cached agrees with what is asked      *)

InterestSound(f) ==
  \A m \in Metas, c \in Contexts :
    /\ f.interest[m] = "always" => f.enabled[m][c]
    /\ f.interest[m] = "never" => ~f.enabled[m][c]

HintSound(f) ==
  \A m \in Metas, c \in Contexts : f.enabled[m][c] => BelowHint(m, f.hint)

Sound(f) == InterestSound(f) /\ HintSound(f)

-----------------------------------------------------------------------------
(* The program                                                             *)

Has(f) == built' = built \cup {f}

\* A filter's own answers are the program's affair; that they are sound is
\* what the documentation of each asks of it.
NewFilter(enabled, eventEnabled) == Has(FilterDefaults(enabled, eventEnabled))

NewLayer(enabled) ==
  /\ \A m \in Metas, c \in Contexts : enabled[m][c] = enabled[m][NoContext]
  /\ Has(LayerDefaults(enabled))

NewLevelFilter(level) == Has(LevelFilter(level))

NewFilterFn(f, hint) == FilterFnAsserts(f, hint) /\ Has(FilterFn(f, hint))

NewDynFilterFn(f, callback, hint) ==
  /\ DynFilterFnAsserts(f, callback, hint)
  /\ callback # NoCallback => InterestSound(DynFilterFn(f, callback, hint))
  /\ Has(DynFilterFn(f, callback, hint))

Combine(a, b) == Has(And(a, b)) \/ Has(Or(a, b)) \/ Has(Not(a)) \/ Has(NoFilter)

FilterInit == built = {}

FilterNext ==
  \/ \E enabled \in Given, eventEnabled \in Given : NewFilter(enabled, eventEnabled)
  \/ \E enabled \in Given : NewLayer(enabled)
  \/ \E level \in Off .. 5 : NewLevelFilter(level)
  \/ \E f \in [Metas -> BOOLEAN], hint \in Hints : NewFilterFn(f, hint)
  \/ \E f \in Given, callback \in [Metas -> Interests] \cup {NoCallback}, hint \in Hints :
       NewDynFilterFn(f, callback, hint)
  \/ \E a \in built, b \in built : Combine(a, b)

FilterSpec == FilterInit /\ [][FilterNext]_built

\* Every filter that can be made of sound ones answers callsite_enabled and
\* max_level_hint so that its enabled never contradicts them: a callsite that
\* cached always or never, or that the maximum level skips, is not wrong.
AllSound == \A f \in built : Sound(f)

\* A callsite's event is recorded, as far as the layer is asked.
Recorded(f, m, c) ==
  f.interest[m] # "never" /\ (f.interest[m] = "sometimes" => f.enabled[m][c])

\* layer/mod.rs says of layers that if any returns never from register_callsite,
\* "the span or event will be disabled"; here, of those in a Vec.
VecDisables ==
  \A a \in built, b \in built, m \in Metas, c \in Contexts :
    a.interest[m] = "never" => ~Recorded(VecLayer(a, b), m, c)
=============================================================================
