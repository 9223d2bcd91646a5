------------------------------ MODULE Reporters ------------------------------
(***************************************************************************)
(* The three reporters of crates/polyontest-builtins/src/reporter.rs, as   *)
(* functions of the sequence of events given to Reporter::on_event.  That  *)
(* sequence is also what JsonReporter keeps and writes.                    *)
(***************************************************************************)
EXTENDS Protocol, SequencesExt

Matches(entries, case) == {k \in DOMAIN entries : entries[k].id = case}

(* cases.iter_mut().rev().find(..): the youngest entry of that name.       *)
Youngest(entries, case) ==
    CHOOSE k \in Matches(entries, case) :
        \A m \in Matches(entries, case) : m <= k

JunitMark(entries, case, status, message) ==
    IF Matches(entries, case) = {}
    THEN Append(entries, [id |-> case, status |-> status, message |-> message])
    ELSE [entries EXCEPT ![Youngest(entries, case)] =
             [id |-> case, status |-> status, message |-> @.message \/ message]]

JunitOnEvent(entries, event) ==
    CASE event.type = "CaseEnd"    -> JunitMark(entries, event.id, event.status, FALSE)
      [] event.type = "AssertFail" -> JunitMark(entries, event.id, "Failed", TRUE)
      [] OTHER                     -> entries

(* ConsoleReporter counts CASE_ENDs until a Done event overrides it.       *)
ConsoleOnEvent(tally, event) ==
    CASE event.type = "CaseEnd" -> Count(tally, event.status)
      [] event.type = "Done"    -> event.tally
      [] OTHER                  -> tally

(* Every event goes to each of the reporters, in order.                    *)
OnEvent(shown, event) ==
    [junit |-> JunitOnEvent(shown.junit, event), console |-> ConsoleOnEvent(shown.console, event)]

NothingShown == [junit |-> <<>>, console |-> NoTally]

Shown(events) == FoldLeft(OnEvent, NothingShown, events)

JunitCases(events) == Shown(events).junit

ConsoleTotals(events) == Shown(events).console

JunitFailures(events) ==
    LET cases == JunitCases(events)
    IN  Cardinality({k \in DOMAIN cases : cases[k].status = "Failed"})

=============================================================================
