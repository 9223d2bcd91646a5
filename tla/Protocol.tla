------------------------------ MODULE Protocol ------------------------------
(***************************************************************************)
(* PTWP events (crates/polyontest-protocol/src/lib.rs): what the C harness *)
(* puts on the wire and what every codec hands to the host.  The file,     *)
(* line and message of an AssertFail are abstracted away.  A case is named *)
(* on the wire by the pair of its suite and its leaf "group.name".         *)
(***************************************************************************)
EXTENDS Naturals, Sequences, FiniteSets

TestStatus == {"Passed", "Failed", "Skipped"}

Tally == [passed : Nat, failed : Nat, skipped : Nat]

NoTally == [passed |-> 0, failed |-> 0, skipped |-> 0]

(* The counter of each status.                                             *)
Field == [Passed |-> "passed", Failed |-> "failed", Skipped |-> "skipped"]

SuiteStart(name)        == [type |-> "SuiteStart", name |-> name]
CaseStart(case)         == [type |-> "CaseStart", id |-> case]
AssertFail(case)        == [type |-> "AssertFail", id |-> case]
CaseEnd(case, status)   == [type |-> "CaseEnd", id |-> case, status |-> status]
SuiteEnd(name, tally)   == [type |-> "SuiteEnd", name |-> name, tally |-> tally]
DoneEvent(tally)        == [type |-> "Done", tally |-> tally]

(* Every event about these suite names and case ids.                       *)
Event(names, ids) ==
    [type : {"SuiteStart"}, name : names]
    \cup [type : {"CaseStart", "AssertFail"}, id : ids]
    \cup [type : {"CaseEnd"}, id : ids, status : TestStatus]
    \cup [type : {"SuiteEnd"}, name : names, tally : Tally]
    \cup [type : {"Done"}, tally : Tally]

IsTerminal(event) == event.type = "Done"

(* A status counted in a tally: one of the three `+= 1` / `++` of the      *)
(* program, on the host and in the harness.                                *)
Count(tally, status) == [tally EXCEPT ![Field[status]] = @ + 1]

DonesIn(events) == {k \in DOMAIN events : IsTerminal(events[k])}
FailuresIn(events) ==
    {k \in DOMAIN events : events[k].type = "CaseEnd" /\ events[k].status = "Failed"}

(* The first DONE of a stream tells whether a case failed before it.       *)
Honest(events) ==
    \A d \in DonesIn(events) :
        (\A k \in DonesIn(events) : d <= k) =>
            (events[d].tally.failed > 0 <=> \E k \in FailuresIn(events) : k < d)

=============================================================================
