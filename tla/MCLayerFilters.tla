---------------------------- MODULE MCLayerFilters ----------------------------
\* Instances of LayerFilters for TLC: two levels, and the subscribers that can
\* be built from one to three of the layers below.
EXTENDS LayerFilters

Always == [m \in Levels |-> "always"]
Sometimes == [m \in Levels |-> "sometimes"]
UpTo(level, int) == [m \in Levels |-> IF m <= level THEN int ELSE "never"]

\* fmt::layer() and the like, LevelFilter, FilterFn and EnvFilter as layers.
Fmt(n) == [kind |-> "layer", name |-> n, interest |-> Always, hint |-> NoHint,
           vetoes |-> FALSE]
Global(n) == [Fmt(n) EXCEPT !.interest = UpTo(1, "always"), !.hint = 1]
GlobalDyn(n) == [Fmt(n) EXCEPT !.interest = Sometimes]
None == [kind |-> "none"]

\* with_filter with LevelFilter, FilterFn, and dynamic filters with a hint.
Filtered(n, interest, hint, l) ==
  [kind |-> "filtered", name |-> n, interest |-> interest, hint |-> hint,
   vetoes |-> FALSE, layer |-> l]
Level1(n, l) == Filtered(n, UpTo(1, "always"), 1, l)
Level2(n, l) == Filtered(n, UpTo(2, "always"), 2, l)
Dyn1(n, l) == Filtered(n, UpTo(1, "sometimes"), 1, l)
Fn(n, l) == Filtered(n, Sometimes, NoHint, l)
Vetoing(n, l) == [Level2(n, l) EXCEPT !.vetoes = TRUE]

AndThen(inner, outer) == [kind |-> "layered", layer |-> outer, inner |-> inner]
Vec(ls) == [kind |-> "vec", layers |-> ls]

\* The choices for each place of the list.
First == {Fmt("a"), Global("a"), GlobalDyn("a"), None,
          Level1("F", Fmt("a")), Level2("F", Fmt("a")), Fn("F", Fmt("a")),
          Dyn1("F", Fmt("a")), Vetoing("F", Fmt("a")),
          Level2("F", Level1("G", Fmt("a"))),
          Dyn1("F", AndThen(Fmt("a"), Level1("G", Fmt("d")))),
          Vec(<<Level1("F", Fmt("a")), Level2("G", Fmt("d"))>>)}
Second == {Fmt("b"), Global("b"), GlobalDyn("b"), None,
           Level1("H", Fmt("b")), Level2("H", Fmt("b")), Fn("H", Fmt("b")),
           AndThen(Level1("H", Fmt("b")), Fmt("e")),
           AndThen(Fmt("b"), Level1("H", Fmt("e"))),
           Vec(<<Fmt("b"), Level1("H", Fmt("e"))>>)}
Third == {Fmt("c"), GlobalDyn("c"), Level1("I", Fmt("c"))}

Below == {Fmt("a"), GlobalDyn("a"), Level1("F", Fmt("a")), Dyn1("F", Fmt("a")),
          Vec(<<Level1("F", Fmt("a")), Level2("G", Fmt("d"))>>)}
Between == {None, Global("b"), Fn("H", Fmt("b")), AndThen(Fmt("b"), Level1("H", Fmt("e")))}

MCStacks == {<<x, y>> : x \in First, y \in Second}
            \cup {<<x, y, z>> : x \in Below, y \in Between, z \in Third}

\* A layer of its own for each of two levels.
ProbeStacks == {<<Level1("F", Fmt("a")), Level2("G", Fmt("b"))>>}
==============================================================================
