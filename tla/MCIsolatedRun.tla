---------------------------- MODULE MCIsolatedRun ----------------------------
(* Test binaries for TLC: registries, and what discovery makes of them.    *)
EXTENDS IsolatedRun

S == INSTANCE Selection

Registered(suite, group, name) == [suite |-> suite, group |-> group, name |-> name, tags |-> {}]

Id(t) == [suite |-> t.suite, leaf |-> t.group \o t.name]

NoFilter == [tag |-> <<>>, suite |-> <<>>, group |-> <<>>, case |-> <<>>]

CasesOf(registry) ==
    LET found == S!Discover(<<>>, <<>>, NoFilter, registry)
    IN  [k \in DOMAIN found |-> Id(found[k])]

RunsOfChildren(registry) ==
    LET found == S!Discover(<<>>, <<>>, NoFilter, registry)
    IN  [k \in DOMAIN found |->
            LET runs == S!ChildRuns(<<>>, <<>>, found[k], registry)
            IN  [m \in DOMAIN runs |-> Id(runs[m])]]

(* Two cases of one suite.                                                 *)
Pair == << Registered(<<"A">>, <<"g">>, <<"x">>), Registered(<<"A">>, <<"g">>, <<"y">>) >>
PairCases == CasesOf(Pair)
PairRuns == RunsOfChildren(Pair)

(* A case, and one whose dotted suite name its child does not find.        *)
Odd == << Registered(<<"A">>, <<"g">>, <<"x">>), Registered(<<"A", "b">>, <<"g">>, <<"x">>) >>
OddCases == CasesOf(Odd)
OddRuns == RunsOfChildren(Odd)

Single == << Registered(<<"A">>, <<"g">>, <<"x">>) >>
SingleCases == CasesOf(Single)
SingleRuns == RunsOfChildren(Single)

(* All of them give each child its own case, or none.                      *)
ASSUME OwnCasesAssumption == OwnCases
=============================================================================
