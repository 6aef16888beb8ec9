------------------------------ MODULE MCEnvFilter ------------------------------
\* Instances of EnvFilter for TLC: levels up to 2, targets app and app::net, two
\* span names and one field.
EXTENDS EnvFilter, TLC

CONSTANTS t1, t2, s1, s2

MCThreads == {t1, t2}
MCIds == {s1, s2}
Symmetry == Permutations(MCThreads) \cup Permutations(MCIds)

App == <<1>>
Net == <<1, 2>>
Field == <<7>>

One == [type |-> "i64", is |-> 1]
Text == [type |-> "debug", is |-> <<1>>]
MCValues == {One, Text}
IsOne == [type |-> "u64", is |-> 1, rank |-> 1]
IsText == [type |-> "pat", is |-> {<<1>>}, rank |-> 2]
IsDebug == [type |-> "debug", is |-> <<1, 2>>, rank |-> 3]

Site(kind, target, name, fields, level) ==
  [kind |-> kind, target |-> target, name |-> name, fields |-> fields, level |-> level]

MCSites == {Site("event", App, <<9>>, {}, 1), Site("event", Net, <<9>>, {Field}, 2),
            Site("event", App, <<9>>, {}, 2),
            Site("span", App, <<3>>, {Field}, 1), Site("span", Net, <<4>>, {}, 2)}

Directive(target, span, fields, level) ==
  [target |-> target, span |-> span, fields |-> fields, level |-> level]
Has(value) == <<[name |-> Field, value |-> value]>>

\* error, app=.., app::net=.., [{field}], [span], [span{field=value}] and so on.
DirLevel == Directive(NoTarget, NoName, <<>>, 1)
DirOff == Directive(NoTarget, NoName, <<>>, 0)
DirApp == Directive(App, NoName, <<>>, 2)
DirNet == Directive(Net, NoName, <<>>, 1)
DirField == Directive(NoTarget, NoName, Has(NoPattern), 2)
DirSpan == Directive(NoTarget, <<3>>, <<>>, 2)
DirSpanLow == Directive(App, <<4>>, <<>>, 1)
DirOne == Directive(NoTarget, <<3>>, Has(IsOne), 2)
DirText == Directive(App, NoName, Has(IsText), 1)
DirDebug == Directive(App, <<3>>, Has(IsDebug), 2)

MCParsed == {<<>>, <<DirLevel, DirNet, DirApp>>, <<DirLevel, DirOne>>, <<DirApp, DirSpanLow>>,
             <<DirField>>, <<DirNet, DirText, DirSpan>>, <<DirNet, DirDebug>>,
             <<DirSpanLow, DirText>>, <<DirOne, DirSpan, DirSpanLow>>}
MCAdded == {DirOff, DirNet, DirApp, DirField, DirSpan, [DirOne EXCEPT !.level = 1]}
==============================================================================
