------------------------------ MODULE RunStream ------------------------------
(***************************************************************************)
(* What one run of a test binary promises to whoever reads its events: a   *)
(* well-nested list of suites and cases with totals that add up, and an    *)
(* exit code that goes with them.  The consumers of the stream (console,   *)
(* JUnit, JSON, the host's counters) are single passes that rely on it.    *)
(***************************************************************************)
EXTENDS Protocol, SequencesExt

CONSTANTS SuiteNames, CaseIds, NullName

VARIABLES stream,   \* the events of the run
          code      \* what pot_run_* has returned, -1 before

vars == <<stream, code>>

Init == stream = <<>> /\ code = -1

At(types) == {k \in DOMAIN stream : stream[k].type \in types}
EndsOf(test) == LET ends == {k \in At({"CaseEnd"}) : test[stream[k].id.suite]}
                IN  [f \in {"passed", "failed", "skipped"} |->
                        Cardinality({k \in ends : Field[stream[k].status] = f})]

LastOf(types) == stream[CHOOSE k \in At(types) : \A m \in At(types) : m <= k]

CaseIsOpen == LET marks == {"CaseStart", "CaseEnd"}
              IN  At(marks) # {} /\ LastOf(marks).type = "CaseStart"

(* The suite that is open; NULL, as for cases of no suite, before the first. *)
SuiteIsOpen(name) ==
    LET marks == {"SuiteStart", "SuiteEnd"}
    IN  IF At(marks) = {} THEN name = NullName ELSE LastOf(marks) = SuiteStart(name)

Emit(event) == code = -1 /\ At({"Done"}) = {} /\ stream' = Append(stream, event) /\ UNCHANGED code

(* A suite is opened at most once, when no other is.                       *)
OpenSuite(name) ==
    /\ ~CaseIsOpen /\ \A other \in SuiteNames : ~SuiteIsOpen(other)
    /\ SuiteStart(name) \notin ToSet(stream)
    /\ Emit(SuiteStart(name))

StartCase(id) == ~CaseIsOpen /\ SuiteIsOpen(id.suite) /\ Emit(CaseStart(id))

(* A failure inside a case names it; outside it is some fixture's.         *)
Fail(id) ==
    /\ CaseIsOpen => id = LastOf({"CaseStart"}).id
    /\ Emit(AssertFail(id))

EndCase(status) == CaseIsOpen /\ Emit(CaseEnd(LastOf({"CaseStart"}).id, status))

CloseSuite(name) ==
    /\ ~CaseIsOpen /\ SuiteIsOpen(name)
    /\ Emit(SuiteEnd(name, EndsOf([suite \in SuiteNames \cup {NullName} |-> suite = name])))

Totals == EndsOf([suite \in SuiteNames \cup {NullName} |-> TRUE])

Finish ==
    /\ ~CaseIsOpen /\ \A name \in SuiteNames : ~SuiteIsOpen(name)
    /\ Emit(DoneEvent(Totals))

Return ==
    /\ At({"Done"}) # {} /\ code = -1
    /\ code' = IF Totals.failed > 0 THEN 1 ELSE 0
    /\ UNCHANGED stream

(* main calls pot_run_* again.                                             *)
Again == code # -1 /\ stream' = <<>> /\ code' = -1

Next ==
    \/ \E name \in SuiteNames : OpenSuite(name) \/ CloseSuite(name)
    \/ \E id \in CaseIds : StartCase(id) \/ Fail(id)
    \/ \E status \in TestStatus : EndCase(status)
    \/ Finish \/ Return \/ Again

Spec == Init /\ [][Next]_vars

=============================================================================
