----------------------------- MODULE MCPotRunner -----------------------------
(* A small test binary for TLC, linked and built in several ways.          *)
EXTENDS PotRunner

Test(s, g, n, tags) == [suite |-> s, group |-> g, name |-> n, fn |-> TRUE, tags |-> tags]

\* 1: the smoke case; 4 has its names; 5 has no suite and no function.
MCCases == << Test(1, 1, 1, {"smoke"}), Test(2, 1, 1, {}), Test(1, 1, 2, {}),
              Test(1, 1, 1, {}), [Test(0, 1, 1, {}) EXCEPT !.fn = FALSE] >>

MCSuites == << [name |-> 1, setup |-> TRUE, teardown |-> TRUE, tags |-> {}],
               [name |-> 2, setup |-> FALSE, teardown |-> TRUE, tags |-> {"smoke"}] >>
MCGroups == << [suite |-> 1, name |-> 1, setup |-> TRUE, teardown |-> TRUE, tags |-> {}] >>

Interleaved == { <<2, 3, 1>>, <<3, 1, 5>>, <<4, 2, 1>> }

AllFilters == << [kind |-> "all"], [kind |-> "tag", tag |-> "smoke"],
                 [kind |-> "suite", suite |-> 2],
                 [kind |-> "case", suite |-> 1, group |-> 1, name |-> 1] >>

AllBuilds == { [chosen |-> {}, knobs |-> {}],
               [chosen |-> {"small"}, knobs |-> {"no_longjmp"}],
               [chosen |-> {"tiny"}, knobs |-> {}] }

TwoCases == { <<1, 3>> }
Everything == << [kind |-> "all"] >>
FullBuild == { [chosen |-> {"full"}, knobs |-> {}] }
=============================================================================
