----------------------------- MODULE MCDiscovery -----------------------------
(* Test binaries for TLC.  Names are sequences of dot-free segments.        *)
EXTENDS Discovery

Test(s, g, n, tags, macro) ==
    [suite |-> <<s>>, group |-> <<g>>, name |-> n, tags |-> tags, macro |-> macro]

(* Distinct names, one of them with a dot in its last part.                *)
PlainCases ==
    [ add  |-> Test("Math", "Basic", <<"Add">>, {<<"smoke">>}, "POT_TEST_TAGS"),
      far  |-> Test("Math", "Edge", <<"Add", "far">>, {}, "pot_register_heap_case"),
      edge |-> Test("Math", "Edge", <<"Add">>, {}, "POT_TEST"),
      text |-> Test("Text", "Edge", <<"Add">>, {}, "POT_TEST") ]

PlainSuites ==
    [ math |-> [name |-> <<"Math">>, setup |-> TRUE, teardown |-> TRUE, tags |-> {<<"unit">>}] ]

(* Two groups of one name: they are told apart by their suite only.        *)
PlainGroups ==
    [ mathEdge |-> [suite |-> <<"Math">>, name |-> <<"Edge">>, setup |-> TRUE,
                    teardown |-> FALSE, tags |-> {<<"smoke">>}],
      textEdge |-> [suite |-> <<"Text">>, name |-> <<"Edge">>, setup |-> TRUE,
                    teardown |-> TRUE, tags |-> {}] ]

Filter(t, s, g) == [tag |-> t, suite |-> s, group |-> g]

(* One kind of filter at a time, as the command line documents them.       *)
SingleFilters ==
    { Filter(Null, Null, Null), Filter(<<"smoke">>, Null, Null),
      Filter(<<"unit">>, <<"">>, Null), Filter(Null, <<"Math">>, Null),
      Filter(Null, <<"Math">>, <<"Basic">>), Filter(<<"">>, <<"Text">>, <<"">>) }

(* --tag and --suite together.                                             *)
TagAndSuite == { Filter(<<"smoke">>, <<"Text">>, Null) }

ASSUME PlainAssumption ==
    /\ DistinctCases /\ DistinctFixtures /\ ListableNames
    /\ \A filter \in SingleFilters : OneKind(filter)

=============================================================================
